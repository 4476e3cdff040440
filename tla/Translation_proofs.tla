------------------------- MODULE Translation_proofs --------------------------
(***************************************************************************)
(* Theorems about Translation, for every set of conversations a client may *)
(* hold.                                                                   *)
(*                                                                         *)
(* A translator changes the shape of a request: it regroups blocks, merges *)
(* messages, makes messages of blocks, renames roles and ids.  What must   *)
(* not change is what is told: a question (what is said of some kinds,     *)
(* which calls and answers there are and what they are known by) is        *)
(* answered by each block in turn.  Each parser and each writer is shown   *)
(* to answer a question about what it makes as a question about what it    *)
(* was given is answered (Reads, Writes); a client's conversation in any   *)
(* of the four APIs is shown to be one they take; and the invariant        *)
(* carries this through the stages.                                        *)
(***************************************************************************)
EXTENDS Translation, FoldLemmas

-----------------------------------------------------------------------------
(* What the fold of Merged computes.                                       *)

\* What g makes of the messages in s: the last is put to the others.
Latest(s) == CHOOSE x \in s : \A y \in s : x >= y
MergeStep(ms, g, s) == IF s = {} THEN <<>> ELSE MergeInto(g[s \ {Latest(s)}], ms[Latest(s)])
Merges(ms, g, S) == \A s \in SUBSET S : g[s] = MergeStep(ms, g, s)

\* The recursive function behind FoldLeft.
Merging(ms, S) == CHOOSE g : g = [s \in SUBSET S |-> MergeStep(ms, g, s)]

\* The messages merged are the value of that function.
LEMMA MergedIsMerging ==
  ASSUME NEW ms
  PROVE  Merged(ms) = Merging(ms, DOMAIN ms)[DOMAIN ms]
BY DEF Merged, FoldLeft, MapThenFoldSet, Merging, MergeStep, Latest, Max

\* Some number in a finite set of them is the latest.
LEMMA LatestIn ==
  ASSUME NEW n \in Nat, NEW s \in SUBSET (1 .. n), s # {}
  PROVE  Latest(s) \in s /\ \A y \in s : Latest(s) >= y
<1> DEFINE B == {k \in Nat : \A y \in s : k >= y}
<1>1. n \in B
  OBVIOUS
<1>2. PICK k \in B : \A b \in B : k <= b
  <2>1. B \in SUBSET Nat /\ B # {}
    BY <1>1
  <2> HIDE DEF B
  <2> QED BY <2>1, SmallestNatIn
<1>3. k \in Nat /\ \A y \in s : k >= y
  OBVIOUS
<1>4. k \in s
  <2> SUFFICES ASSUME k \notin s PROVE FALSE
    OBVIOUS
  <2>1. k # 0
    <3>1. PICK y \in s : TRUE
      OBVIOUS
    <3>2. y \in 1 .. n /\ k >= y
      BY <1>3
    <3> HIDE DEF B
    <3> QED BY <1>3, <3>2
  <2>2. k - 1 \in Nat /\ \A y \in s : k - 1 >= y
    BY <1>3, <2>1
  <2>3. k - 1 \in B /\ ~ (k <= k - 1)
    BY <1>3, <2>2
  <2> HIDE DEF B
  <2> QED BY <1>2, <2>3
<1> HIDE DEF B
<1> QED BY <1>3, <1>4 DEF Latest

\* Each part of these messages has a latest.
Ordered(S) == IsFiniteSet(S) /\ \A s \in SUBSET S : s # {} => Latest(s) \in s

\* The places of a sequence are.
LEMMA IntervalIsOrdered ==
  ASSUME NEW n \in Nat
  PROVE  Ordered(1 .. n)
<1>1. IsFiniteSet(1 .. n)
  BY FS_Interval
<1> QED BY <1>1, LatestIn DEF Ordered

\* So is each part of what is.
LEMMA PartIsOrdered ==
  ASSUME NEW S, Ordered(S), NEW T \in SUBSET S
  PROVE  Ordered(T) /\ IsFiniteSet(T) /\ \A s \in SUBSET T : s # {} => Latest(s) \in s
<1>1. IsFiniteSet(S)
  BY DEF Ordered
<1>2. IsFiniteSet(T)
  BY <1>1, FS_Subset
<1> QED BY <1>2 DEF Ordered

\* Two functions that merge in this way agree wherever both are defined.
LEMMA MergesUnique ==
  ASSUME NEW ms, NEW S, Ordered(S), NEW T \in SUBSET S,
         NEW g, NEW h, Merges(ms, g, S), Merges(ms, h, T)
  PROVE  \A s \in SUBSET T : g[s] = h[s]
<1> DEFINE B == {s \in SUBSET T : g[s] # h[s]}
<1>1. SUFFICES ASSUME B # {} PROVE FALSE
  OBVIOUS
<1>2. IsFiniteSet(T)
  BY PartIsOrdered
<1>3. PICK m \in B : \A b \in B : b \subseteq m => b = m
  <2>1. B \in SUBSET SUBSET T
    OBVIOUS
  <2> HIDE DEF B
  <2> QED BY <1>1, <1>2, <2>1, SmallestSubset
<1>4. m # {}
  BY DEF MergeStep, Merges
<1>5. Latest(m) \in m
  BY <1>4, PartIsOrdered
<1>6. g[m \ {Latest(m)}] = h[m \ {Latest(m)}]
  BY <1>3, <1>5
<1> QED BY <1>4, <1>6 DEF MergeStep, Merges

\* The merging is defined.
LEMMA MergingDefined ==
  ASSUME NEW ms, NEW S, Ordered(S)
  PROVE  Merges(ms, Merging(ms, S), S)
<1> DEFINE Defined(T) == Merging(ms, T) = [s \in SUBSET T |-> MergeStep(ms, Merging(ms, T), s)]
           B == {T \in SUBSET S : ~ Defined(T)}
<1>0. IsFiniteSet(S)
  BY PartIsOrdered
<1>1. SUFFICES ASSUME B # {} PROVE FALSE
  <2>1. Defined(S) => Merges(ms, Merging(ms, S), S)
    BY DEF Merges
  <2> QED BY <2>1
<1>2. PICK T \in B : \A U \in B : U \subseteq T => U = T
  <2>1. B \in SUBSET SUBSET S
    OBVIOUS
  <2> HIDE DEF B
  <2> QED BY <1>0, <1>1, <2>1, SmallestSubset
<1>3. \A U \in SUBSET T : U # T => Defined(U)
  BY <1>2
<1> HIDE DEF B
<1> DEFINE Whole(u) == Merging(ms, u)[u]
           g == [s \in SUBSET T |-> IF s = {} THEN <<>> ELSE MergeInto(Whole(s \ {Latest(s)}), ms[Latest(s)])]
<1>4. T \in SUBSET S /\ Ordered(T) /\ \A u \in SUBSET T : Ordered(u) /\ (u # {} => Latest(u) \in u)
  BY PartIsOrdered DEF B
<1>5. \A u \in SUBSET T : u # T => g[u] = Whole(u)
  <2> SUFFICES ASSUME NEW u \in SUBSET T, u # T PROVE g[u] = Whole(u)
    OBVIOUS
  <2>1. Defined(u)
    BY <1>3
  <2>2. Whole(u) = MergeStep(ms, Merging(ms, u), u)
    BY <2>1
  <2>3. CASE u = {}
    BY <2>2, <2>3 DEF MergeStep
  <2>4. CASE u # {}
    <3> DEFINE v == u \ {Latest(u)}
    <3>3. Latest(u) \in u
      BY <1>4, <2>4
    <3>1. v \in SUBSET u /\ v \in SUBSET T /\ v # T
      BY <3>3
    <3>2. Defined(v)
      BY <1>3, <3>1
    <3>4. Merging(ms, u)[v] = Merging(ms, v)[v]
      <4>1. Merges(ms, Merging(ms, u), u)
        BY <2>1 DEF Merges
      <4>2. Merges(ms, Merging(ms, v), v)
        BY <3>2 DEF Merges
      <4>3. v \in SUBSET u /\ v \in SUBSET v /\ Ordered(u)
        BY <1>4, <3>1
      <4> HIDE DEF v
      <4> QED BY <4>1, <4>2, <4>3, MergesUnique
    <3> QED BY <2>2, <2>4, <3>4 DEF MergeStep
  <2> QED BY <2>3, <2>4
<1>6. g = [s \in SUBSET T |-> MergeStep(ms, g, s)]
  <2> SUFFICES ASSUME NEW s \in SUBSET T PROVE g[s] = MergeStep(ms, g, s)
    OBVIOUS
  <2>1. CASE s = {}
    BY <2>1 DEF MergeStep
  <2>2. CASE s # {}
    <3>1. Latest(s) \in s
      BY <1>4, <2>2
    <3>2. s \ {Latest(s)} \in SUBSET T /\ s \ {Latest(s)} # T
      BY <3>1
    <3>3. g[s \ {Latest(s)}] = Whole(s \ {Latest(s)})
      BY <1>5, <3>2
    <3> QED BY <2>2, <3>3 DEF MergeStep
  <2> QED BY <2>1, <2>2
<1>7. Defined(T)
  <2> HIDE DEF g
  <2> QED BY <1>6 DEF Merging
<1> QED BY <1>2, <1>7 DEF B

\* The messages merged so far, one after the other.
MergeChain(f, ms) ==
  /\ f[0] = <<>> /\ f[Len(ms)] = Merged(ms)
  /\ \A k \in 1 .. Len(ms) : f[k] = MergeInto(f[k - 1], ms[k])

\* Merged in steps, for what is argued of one message after the other.
LEMMA MergedChain ==
  ASSUME NEW ms, IsSeq(ms)
  PROVE  \E f : MergeChain(f, ms)
<1> DEFINE n == Len(ms)
           g == Merging(ms, 1 .. n)
           f == [k \in 0 .. n |-> g[1 .. k]]
<1>1. n \in Nat /\ DOMAIN ms = 1 .. n
  BY SeqIs
<1>2. Merges(ms, g, 1 .. n)
  <2> HIDE DEF n
  <2> QED BY <1>1, IntervalIsOrdered, MergingDefined
<1>3. Merged(ms) = g[1 .. n]
  BY <1>1, MergedIsMerging
<1> HIDE DEF g
<1>4. f[n] = Merged(ms)
  BY <1>1, <1>3
<1>5. f[0] = <<>>
  <2>1. 1 .. 0 = {} /\ {} \in SUBSET (1 .. n) /\ 0 \in 0 .. n
    BY <1>1
  <2> QED BY <1>2, <2>1 DEF Merges, MergeStep
<1>6. ASSUME NEW k \in 1 .. n PROVE f[k] = MergeInto(f[k - 1], ms[k])
  <2> HIDE DEF n, f
  <2>1. k \in Nat /\ k \in 0 .. n /\ k - 1 \in 0 .. n /\ k \in 1 .. k /\ 1 .. k \in SUBSET (1 .. n)
    BY <1>1
  <2>2. Latest(1 .. k) \in 1 .. k /\ \A y \in 1 .. k : Latest(1 .. k) >= y
    BY <1>1, <2>1, LatestIn
  <2>3. Latest(1 .. k) = k
    BY <2>1, <2>2
  <2>4. (1 .. k) \ {k} = 1 .. (k - 1)
    BY <2>1
  <2>5. g[1 .. k] = MergeInto(g[1 .. (k - 1)], ms[k])
    BY <1>2, <2>1, <2>3, <2>4 DEF Merges, MergeStep
  <2> QED BY <2>1, <2>5 DEF f
<1> HIDE DEF f
<1>7. MergeChain(f, ms)
  BY <1>4, <1>5, <1>6 DEF MergeChain
<1> QED BY <1>7

-----------------------------------------------------------------------------
(* What Claude is sent alternates.                                         *)

\* A message, and a sequence of them.
IsMessage(m) == m = [role |-> m.role, blocks |-> m.blocks, answers |-> m.answers] /\ IsSeq(m.blocks)
AreMessages(ms) == IsSeq(ms) /\ \A i \in DOMAIN ms : IsMessage(ms[i])

\* No two messages in a row have the same role.
Alternates(ms) == \A i \in 2 .. Len(ms) : ms[i].role # ms[i - 1].role

\* A message that is merged is put last, or its blocks are put last in the
\* last message.
Extends(r, merged, m) ==
  /\ merged # <<>> /\ merged[Len(merged)].role = m.role
  /\ Len(r) = Len(merged) /\ \A i \in 1 .. Len(merged) - 1 : r[i] = merged[i]
  /\ IsMessage(r[Len(r)]) /\ r[Len(r)].role = m.role
  /\ r[Len(r)].blocks = merged[Len(merged)].blocks \o m.blocks
Follows(r, merged, m) ==
  /\ merged = <<>> \/ merged[Len(merged)].role # m.role
  /\ r = Append(merged, m)

\* MergeInto does one of the two.
LEMMA MergeIntoIs ==
  ASSUME NEW merged, AreMessages(merged), NEW m, IsMessage(m)
  PROVE  /\ AreMessages(MergeInto(merged, m)) /\ MergeInto(merged, m) # <<>>
         /\ Extends(MergeInto(merged, m), merged, m) \/ Follows(MergeInto(merged, m), merged, m)
<1> DEFINE n == Len(merged)
           r == MergeInto(merged, m)
<1>1. n \in Nat /\ DOMAIN merged = 1 .. n /\ IsSeq(merged) /\ \A i \in 1 .. n : IsMessage(merged[i])
  BY SeqIs DEF AreMessages
<1>2. CASE merged # <<>> /\ Last(merged).role = m.role
  <2>1. n > 0 /\ Last(merged) = merged[n] /\ n \in 1 .. n
    BY <1>1, <1>2, LastOf
  <2>2. r = [merged EXCEPT ![n].blocks = @ \o m.blocks]
    BY <1>2 DEF MergeInto
  <2>3. r = [i \in 1 .. n |-> r[i]]
    BY <1>1, <2>2
  <2>4. \A i \in 1 .. n - 1 : r[i] = merged[i]
    BY <1>1, <2>1, <2>2
  <2>5. r[n] = [merged[n] EXCEPT !.blocks = @ \o m.blocks]
    BY <1>1, <2>1, <2>2
  <2> HIDE DEF r
  <2>6. IsSeq(r) /\ Len(r) = n
    BY <1>1, <2>3, ListIsSeq
  <2>7. /\ merged[n] = [role |-> merged[n].role, blocks |-> merged[n].blocks, answers |-> merged[n].answers]
        /\ IsSeq(merged[n].blocks) /\ IsSeq(m.blocks)
    BY <1>1, <2>1 DEF IsMessage
  <2> DEFINE x == merged[n]
             y == r[n]
  <2>8. y = [x EXCEPT !.blocks = x.blocks \o m.blocks] /\ x = [role |-> x.role, blocks |-> x.blocks, answers |-> x.answers]
    BY <2>5, <2>7
  <2>a. IsSeq(x.blocks \o m.blocks)
    <3> DEFINE b == x.blocks
               c == m.blocks
    <3>1. IsSeq(b) /\ IsSeq(c)
      BY <2>7
    <3> HIDE DEF b, c
    <3>2. IsSeq(b \o c)
      BY <3>1, ConcatIs
    <3> QED BY <3>2 DEF b, c
  <2> HIDE DEF x, y
  <2>9. y = [role |-> x.role, blocks |-> x.blocks \o m.blocks, answers |-> x.answers]
    BY <2>8
  <2>10. IsMessage(y) /\ y.role = x.role /\ y.blocks = x.blocks \o m.blocks
    BY <2>9, <2>a DEF IsMessage
  <2>11. IsMessage(r[n]) /\ r[n].role = m.role /\ r[n].blocks = merged[n].blocks \o m.blocks
    BY <1>2, <2>1, <2>10 DEF x, y
  <2>12. Extends(r, merged, m)
    BY <1>2, <2>1, <2>4, <2>6, <2>11 DEF Extends
  <2>13. ASSUME NEW i \in 1 .. n PROVE IsMessage(r[i])
    <3>1. CASE i = n
      BY <2>11, <3>1
    <3>2. CASE i # n
      <4>1. i \in 1 .. n - 1
        <5> HIDE DEF n
        <5> QED BY <1>1, <3>2
      <4>2. r[i] = merged[i] /\ i \in 1 .. n
        BY <2>4, <4>1
      <4> QED BY <1>1, <4>2
    <3> QED BY <3>1, <3>2
  <2>14. AreMessages(r)
    BY <2>6, <2>13, SeqIs DEF AreMessages
  <2>15. r # <<>>
    BY <2>1, <2>6
  <2> QED BY <2>12, <2>14, <2>15 DEF r
<1>3. CASE ~ (merged # <<>> /\ Last(merged).role = m.role)
  <2>1. r = Append(merged, m)
    BY <1>3 DEF MergeInto
  <2>2. merged = <<>> \/ merged[n].role # m.role
    BY <1>1, <1>3, LastOf
  <2> HIDE DEF r
  <2>3. /\ IsSeq(r) /\ Len(r) = n + 1
        /\ \A i \in 1 .. n + 1 : r[i] = IF i <= n THEN merged[i] ELSE m
    BY <1>1, <2>1, AppendIs
  <2>4. DOMAIN r = 1 .. n + 1
    BY <2>3, SeqIs
  <2>5. ASSUME NEW i \in 1 .. n + 1 PROVE IsMessage(r[i])
    <3>1. CASE i <= n
      <4>1. i \in 1 .. n /\ r[i] = merged[i]
        BY <1>1, <2>3, <3>1
      <4> QED BY <1>1, <4>1
    <3>2. CASE ~ (i <= n)
      BY <2>3, <3>2
    <3> QED BY <3>1, <3>2
  <2>6. AreMessages(r) /\ r # <<>>
    BY <1>1, <2>3, <2>4, <2>5 DEF AreMessages
  <2>7. Follows(r, merged, m)
    BY <2>1, <2>2 DEF Follows
  <2> QED BY <2>6, <2>7 DEF r
<1> QED BY <1>2, <1>3

\* Merging keeps the roles apart.
LEMMA MergeIntoAlternates ==
  ASSUME NEW merged, AreMessages(merged), Alternates(merged), NEW m, IsMessage(m)
  PROVE  Alternates(MergeInto(merged, m))
<1> DEFINE n == Len(merged)
           r == MergeInto(merged, m)
<1>1. n \in Nat /\ IsSeq(merged)
  BY SeqIs DEF AreMessages
<1>2. Extends(r, merged, m) \/ Follows(r, merged, m)
  BY MergeIntoIs
<1> HIDE DEF r
<1>3. CASE Extends(r, merged, m)
  <2>1. n > 0
    BY <1>1, <1>3, LastOf DEF Extends
  <2>2. Len(r) = n /\ \A i \in 1 .. n : r[i].role = merged[i].role
    <3>1. \A i \in 1 .. n : i = n \/ i \in 1 .. n - 1
      BY <1>1
    <3> QED BY <1>3, <3>1 DEF Extends
  <2>3. ASSUME NEW i \in 2 .. n PROVE r[i].role # r[i - 1].role
    <3>1. i \in 1 .. n /\ i - 1 \in 1 .. n
      BY <1>1
    <3> QED BY <2>2, <3>1 DEF Alternates
  <2> QED BY <2>2, <2>3 DEF Alternates, r
<1>4. CASE Follows(r, merged, m)
  <2>1. /\ Len(r) = n + 1
        /\ \A i \in 1 .. n + 1 : r[i] = IF i <= n THEN merged[i] ELSE m
    BY <1>1, <1>4, AppendIs DEF Follows
  <2>2. ASSUME NEW i \in 2 .. n + 1 PROVE r[i].role # r[i - 1].role
    <3>1. i \in 1 .. n + 1 /\ i - 1 \in 1 .. n + 1 /\ i - 1 <= n
      BY <1>1
    <3>2. CASE i <= n
      <4>1. i \in 2 .. n
        BY <1>1, <3>2
      <4>2. r[i] = merged[i] /\ r[i - 1] = merged[i - 1]
        BY <2>1, <3>1, <3>2
      <4> QED BY <4>1, <4>2 DEF Alternates
    <3>3. CASE ~ (i <= n)
      <4>1. i - 1 = n /\ merged # <<>>
        BY <1>1, <3>1, <3>3
      <4>2. r[i] = m /\ r[i - 1] = merged[n]
        BY <2>1, <3>1, <3>3, <4>1
      <4> QED BY <1>4, <4>1, <4>2 DEF Follows
    <3> QED BY <3>2, <3>3
  <2> QED BY <2>1, <2>2 DEF Alternates, r
<1> QED BY <1>2, <1>3, <1>4

\* Messages merged alternate.
LEMMA MergedAlternates ==
  ASSUME NEW ms, AreMessages(ms)
  PROVE  AreMessages(Merged(ms)) /\ Alternates(Merged(ms))
<1>1. PICK f : MergeChain(f, ms)
  BY MergedChain DEF AreMessages
<1>2. Len(ms) \in Nat /\ DOMAIN ms = 1 .. Len(ms)
  BY SeqIs DEF AreMessages
<1> DEFINE Good(k) == AreMessages(f[k]) /\ Alternates(f[k])
           B == {k \in 0 .. Len(ms) : ~ Good(k)}
<1>3. SUFFICES ASSUME B # {} PROVE FALSE
  <2>1. Len(ms) \in 0 .. Len(ms)
    BY <1>2
  <2>2. Good(Len(ms))
    BY <2>1
  <2> HIDE DEF B
  <2> QED BY <1>1, <2>2 DEF MergeChain
<1>4. PICK k \in B : \A b \in B : k <= b
  <2>1. B \in SUBSET Nat
    BY <1>2
  <2> HIDE DEF B
  <2> QED BY <1>3, <2>1, SmallestNatIn
<1>5. k \in 0 .. Len(ms) /\ ~ Good(k)
  OBVIOUS
<1>6. CASE k = 0
  <2>1. f[0] = <<>>
    BY <1>1 DEF MergeChain
  <2>2. AreMessages(<<>>) /\ Alternates(<<>>)
    BY NoneIs DEF AreMessages, Alternates
  <2> QED BY <1>5, <1>6, <2>1, <2>2
<1>7. CASE k # 0
  <2>1. k \in 1 .. Len(ms) /\ k - 1 \in 0 .. Len(ms) /\ ~ (k <= k - 1)
    BY <1>2, <1>5, <1>7
  <2>2. k - 1 \notin B
    <3> HIDE DEF B
    <3> QED BY <1>4, <2>1
  <2>3. Good(k - 1)
    BY <2>1, <2>2
  <2> HIDE DEF B
  <2> DEFINE a == f[k - 1]
             m == ms[k]
  <2>4. AreMessages(a) /\ Alternates(a) /\ IsMessage(m) /\ f[k] = MergeInto(a, m)
    BY <1>1, <1>2, <2>1, <2>3 DEF MergeChain, AreMessages
  <2> HIDE DEF a, m
  <2>5. AreMessages(MergeInto(a, m)) /\ Alternates(MergeInto(a, m))
    BY <2>4, MergeIntoIs, MergeIntoAlternates
  <2> QED BY <1>5, <2>4, <2>5
<1> QED BY <1>6, <1>7

\* Messages that alternate are given a first one of the user's, if need be.
LEMMA AlternatingIs ==
  ASSUME NEW ms, AreMessages(ms), Alternates(ms)
  PROVE  Alternating(ms) = IF ms # <<>> /\ ms[1].role # "user" THEN <<FillerFrom("user")>> \o ms ELSE ms
<1> DEFINE spaced == [i \in DOMAIN ms |->
                        IF i > 1 /\ ms[i].role = ms[i - 1].role
                        THEN <<FillerFrom(OtherRole(ms[i].role)), ms[i]>> ELSE <<ms[i]>>]
<1>1. Len(ms) \in Nat /\ DOMAIN ms = 1 .. Len(ms)
  BY SeqIs DEF AreMessages
<1>2. \A i \in DOMAIN ms : ~ (i > 1 /\ ms[i].role = ms[i - 1].role)
  <2> SUFFICES ASSUME NEW i \in DOMAIN ms, i > 1 PROVE ms[i].role # ms[i - 1].role
    OBVIOUS
  <2>1. i \in 2 .. Len(ms)
    BY <1>1
  <2> QED BY <2>1 DEF Alternates
<1>3. spaced = [i \in DOMAIN ms |-> <<ms[i]>>]
  BY <1>2
<1>4. FlattenSeq(spaced) = ms
  BY <1>3, FlattenOnes DEF AreMessages
<1> QED BY <1>4 DEF Alternating

\* What Claude is sent.
LEMMA AlternatingAlternates ==
  ASSUME NEW ms, AreMessages(ms), Alternates(ms)
  PROVE  /\ Alternating(ms) # <<>> => Alternating(ms)[1].role = "user"
         /\ Alternates(Alternating(ms))
<1>1. CASE ~ (ms # <<>> /\ ms[1].role # "user")
  BY <1>1, AlternatingIs
<1>2. CASE ms # <<>> /\ ms[1].role # "user"
  <2> DEFINE a == <<FillerFrom("user")>>
             r == a \o ms
  <2>1. Alternating(ms) = r
    BY <1>2, AlternatingIs
  <2>2. IsSeq(a) /\ Len(a) = 1 /\ a[1].role = "user"
    BY OneIs DEF FillerFrom, Message
  <2>3. IsSeq(ms) /\ Len(ms) \in Nat
    BY SeqIs DEF AreMessages
  <2> HIDE DEF a
  <2>4. Len(r) = Len(a) + Len(ms) /\ \A i \in 1 .. Len(a) + Len(ms) : r[i] = IF i <= Len(a) THEN a[i] ELSE ms[i - Len(a)]
    BY <2>2, <2>3, ConcatIs
  <2> HIDE DEF r
  <2>5. r[1].role = "user"
    BY <2>2, <2>3, <2>4
  <2>6. ASSUME NEW i \in 2 .. Len(r) PROVE r[i].role # r[i - 1].role
    <3>1. r[i] = ms[i - 1]
      BY <2>2, <2>3, <2>4
    <3>2. CASE i = 2
      BY <1>2, <2>5, <3>1, <3>2
    <3>3. CASE i # 2
      <4>1. r[i - 1] = ms[(i - 1) - 1] /\ i - 1 \in 2 .. Len(ms)
        BY <2>2, <2>3, <2>4, <3>3
      <4> QED BY <3>1, <4>1 DEF Alternates
    <3> QED BY <3>2, <3>3
  <2> QED BY <2>1, <2>5, <2>6 DEF Alternates
<1> QED BY <1>1, <1>2

-----------------------------------------------------------------------------
(* What is told of a block.                                                *)

\* What a question w asks of block b of message m: what it says, if it is of
\* one of the kinds, or which call or answer it is.  A call or an answer is
\* known by its id, or by an id or a name made as the Gemini translator does.
Known(w, m, b) ==
  CASE w.asks = "name" -> b.name
    [] w.asks = "madeId" -> GeminiId(b.name)
    [] w.asks = "function" -> FunctionName(b)
    [] OTHER -> IF m.role = "tool" /\ b.kind = "text" THEN m.answers ELSE b.id
ActKnown(w, m, b) ==
  IF KindIn(m, b) \in {"call", "result"} THEN <<[kind |-> KindIn(m, b), of |-> Known(w, m, b)]>> ELSE <<>>
Tells(w, m, b) == IF w.asks = "says" THEN Says(w.kinds, m, b) ELSE ActKnown(w, m, b)

\* Of blocks of a message, of a message, of messages.
Told(w, m, blocks) == FlattenSeq([j \in DOMAIN blocks |-> Tells(w, m, blocks[j])])
ToldIn(w, m) == Told(w, m, m.blocks)
ToldOf(w, ms) == FlattenSeq([i \in DOMAIN ms |-> ToldIn(w, ms[i])])

\* The two questions: what is said of these kinds, and which calls and
\* answers there are, known in this way.
SaysOf(kinds) == [asks |-> "says", kinds |-> kinds]
Asks(how) == [asks |-> how, kinds |-> {}]

\* The substance of messages is what they tell asked what they say.
LEMMA SubstanceIs ==
  ASSUME NEW K, NEW ms
  PROVE  Substance(K, ms) = ToldOf(SaysOf(K), ms)
<1>1. \A m, b : Tells(SaysOf(K), m, b) = Says(K, m, b)
  BY DEF Tells, SaysOf
<1>2. \A m : ToldIn(SaysOf(K), m) = SaidBy(K, m)
  BY <1>1 DEF ToldIn, Told, SaidBy, Gather, Each
<1> QED BY <1>2 DEF ToldOf, Substance, Gather, Each

\* The acts of messages are what they tell asked for calls and answers.
LEMMA ActsAre ==
  ASSUME NEW f \in Formats, NEW ms
  PROVE  Acts(f, ms) = ToldOf(Asks(IF f = "gemini" THEN "name" ELSE "id"), ms)
<1> DEFINE w == Asks(IF f = "gemini" THEN "name" ELSE "id")
<1>1. \A m, b : Tells(w, m, b) = ActIn(f, m, b)
  <2> SUFFICES ASSUME NEW m, NEW b PROVE Tells(w, m, b) = ActIn(f, m, b)
    OBVIOUS
  <2>1. Known(w, m, b) = Reference(f, m, b)
    <3>1. CASE f = "gemini"
      BY <3>1 DEF Known, Asks, Reference
    <3>2. CASE f # "gemini"
      BY <3>2 DEF Known, Asks, Reference
    <3> QED BY <3>1, <3>2
  <2>2. w.asks # "says"
    BY DEF Asks
  <2> HIDE DEF w
  <2> QED BY <2>1, <2>2 DEF Tells, ActKnown, ActIn
<1>2. \A m : ToldIn(w, m) = ActsIn(f, m)
  BY <1>1 DEF ToldIn, Told, ActsIn, Gather, Each
<1> HIDE DEF w
<1>3. Acts(f, ms) = ToldOf(w, ms)
  BY <1>2 DEF ToldOf, Acts, Gather, Each
<1> QED BY <1>3 DEF w

\* A block tells a sequence.
LEMMA TellsIsSeq ==
  ASSUME NEW w, NEW m, NEW b
  PROVE  IsSeq(Tells(w, m, b))
BY OneIs, NoneIs DEF Tells, Says, ActKnown

\* As what is made of each block by a function.
LEMMA ToldIsFlat ==
  ASSUME NEW w, NEW m, NEW X, NEW s, IsSeq(s), \A i \in DOMAIN s : s[i] \in X
  PROVE  /\ Makes([b \in X |-> Tells(w, m, b)], s)
         /\ Told(w, m, s) = Flat([b \in X |-> Tells(w, m, b)], s)
<1> DEFINE g == [b \in X |-> Tells(w, m, b)]
<1>1. \A i \in DOMAIN s : g[s[i]] = Tells(w, m, s[i])
  OBVIOUS
<1> HIDE DEF g
<1>2. Makes(g, s)
  BY <1>1, TellsIsSeq DEF Makes
<1>3. Told(w, m, s) = Flat(g, s)
  BY <1>1 DEF Told, Flat, Mapped
<1> QED BY <1>2, <1>3 DEF g

\* So do blocks.
LEMMA ToldIsSeq ==
  ASSUME NEW w, NEW m, NEW s, IsSeq(s)
  PROVE  IsSeq(Told(w, m, s))
<1> DEFINE X == {s[i] : i \in DOMAIN s}
           g == [b \in X |-> Tells(w, m, b)]
<1>1. \A i \in DOMAIN s : s[i] \in X
  OBVIOUS
<1> HIDE DEF X
<1>2. Makes(g, s) /\ Told(w, m, s) = Flat(g, s)
  BY <1>1, ToldIsFlat
<1> HIDE DEF g
<1> QED BY <1>2, MappedIs

\* No block tells nothing.
LEMMA ToldNone ==
  ASSUME NEW w, NEW m
  PROVE  Told(w, m, <<>>) = <<>>
<1>1. [j \in DOMAIN <<>> |-> Tells(w, m, <<>>[j])] = <<>>
  OBVIOUS
<1> QED BY <1>1, FlattenNone DEF Told

\* One block tells what it tells.
LEMMA ToldOne ==
  ASSUME NEW w, NEW m, NEW b
  PROVE  Told(w, m, <<b>>) = Tells(w, m, b)
<1>1. [j \in DOMAIN <<b>> |-> Tells(w, m, <<b>>[j])] = [j \in {1} |-> Tells(w, m, b)]
  BY OneIs
<1> QED BY <1>1, TellsIsSeq, FlattenOne DEF Told

\* Blocks after blocks tell one after the other.
LEMMA ToldConcat ==
  ASSUME NEW w, NEW m, NEW a, NEW b, IsSeq(a), IsSeq(b)
  PROVE  Told(w, m, a \o b) = Told(w, m, a) \o Told(w, m, b)
<1> DEFINE c == a \o b
           X == {a[i] : i \in DOMAIN a} \cup {b[i] : i \in DOMAIN b} \cup {c[i] : i \in DOMAIN c}
           g == [x \in X |-> Tells(w, m, x)]
<1>1. IsSeq(c)
  BY ConcatIs
<1>2. /\ \A i \in DOMAIN a : a[i] \in X
      /\ \A i \in DOMAIN b : b[i] \in X
      /\ \A i \in DOMAIN c : c[i] \in X
  OBVIOUS
<1> HIDE DEF X, c
<1>3. /\ Makes(g, a) /\ Told(w, m, a) = Flat(g, a)
      /\ Makes(g, b) /\ Told(w, m, b) = Flat(g, b)
      /\ Told(w, m, c) = Flat(g, c)
  BY <1>1, <1>2, ToldIsFlat
<1> HIDE DEF g
<1>4. Flat(g, a \o b) = Flat(g, a) \o Flat(g, b)
  BY <1>3, FlatConcat
<1> QED BY <1>3, <1>4 DEF c

\* Blocks laid end to end tell one after the other.
LEMMA ToldFlatten ==
  ASSUME NEW w, NEW m, NEW ss, IsSeqs(ss)
  PROVE  Told(w, m, FlattenSeq(ss)) = FlattenSeq([i \in DOMAIN ss |-> Told(w, m, ss[i])])
<1> DEFINE c == FlattenSeq(ss)
           Y == {{ss[i][j] : j \in DOMAIN ss[i]} : i \in DOMAIN ss}
           Z == {c[i] : i \in DOMAIN c}
           X == (UNION Y) \cup Z
           g == [x \in X |-> Tells(w, m, x)]
           t == [i \in DOMAIN ss |-> Flat(g, ss[i])]
<1>1. IsSeq(c)
  BY FlattenSeqs
<1>2. /\ \A i \in DOMAIN ss : \A j \in DOMAIN ss[i] : ss[i][j] \in X
      /\ \A i \in DOMAIN c : c[i] \in X
  <2>1. ASSUME NEW i \in DOMAIN ss, NEW j \in DOMAIN ss[i] PROVE ss[i][j] \in X
    <3> DEFINE y == {ss[i][k] : k \in DOMAIN ss[i]}
    <3>1. ss[i][j] \in y /\ y \in Y
      OBVIOUS
    <3> HIDE DEF c, y, Y, Z
    <3> QED BY <3>1
  <2>2. \A i \in DOMAIN c : c[i] \in X
    <3>1. \A i \in DOMAIN c : c[i] \in Z
      OBVIOUS
    <3> HIDE DEF c, Y, Z
    <3> QED BY <3>1
  <2> HIDE DEF X
  <2> QED BY <2>1, <2>2
<1> HIDE DEF X
<1>3. \A i \in DOMAIN ss : Makes(g, ss[i]) /\ Told(w, m, ss[i]) = Flat(g, ss[i])
  <2> SUFFICES ASSUME NEW i \in DOMAIN ss PROVE Makes(g, ss[i]) /\ Told(w, m, ss[i]) = Flat(g, ss[i])
    OBVIOUS
  <2>1. IsSeq(ss[i]) /\ \A j \in DOMAIN ss[i] : ss[i][j] \in X
    BY <1>2 DEF IsSeqs
  <2> QED BY <2>1, ToldIsFlat
<1>4. Told(w, m, c) = Flat(g, c)
  BY <1>1, <1>2, ToldIsFlat
<1> HIDE DEF g
<1>5. Flat(g, c) = FlattenSeq(t)
  BY <1>3, FlatFlatten
<1>6. t = [i \in DOMAIN ss |-> Told(w, m, ss[i])]
  BY <1>3
<1> QED BY <1>4, <1>5, <1>6

-----------------------------------------------------------------------------
(* What is told of messages.                                               *)

\* A message tells a sequence.
LEMMA ToldInIsSeq ==
  ASSUME NEW w, NEW m, IsMessage(m)
  PROVE  IsSeq(ToldIn(w, m))
BY ToldIsSeq DEF ToldIn, IsMessage

\* As what is made of each message by a function.
LEMMA ToldOfIsFlat ==
  ASSUME NEW w, NEW X, NEW ms, AreMessages(ms), \A i \in DOMAIN ms : ms[i] \in X
  PROVE  /\ Makes([m \in X |-> ToldIn(w, m)], ms)
         /\ ToldOf(w, ms) = Flat([m \in X |-> ToldIn(w, m)], ms)
<1> DEFINE g == [m \in X |-> ToldIn(w, m)]
<1>1. \A i \in DOMAIN ms : g[ms[i]] = ToldIn(w, ms[i])
  OBVIOUS
<1> HIDE DEF g
<1>2. \A i \in DOMAIN ms : IsSeq(g[ms[i]])
  BY <1>1, ToldInIsSeq DEF AreMessages
<1>3. Makes(g, ms)
  BY <1>2 DEF Makes, AreMessages
<1>4. ToldOf(w, ms) = Flat(g, ms)
  BY <1>1 DEF ToldOf, Flat, Mapped
<1> QED BY <1>3, <1>4 DEF g

\* So do messages.
LEMMA ToldOfIsSeq ==
  ASSUME NEW w, NEW ms, AreMessages(ms)
  PROVE  IsSeq(ToldOf(w, ms))
<1> DEFINE X == {ms[i] : i \in DOMAIN ms}
           g == [m \in X |-> ToldIn(w, m)]
<1>1. \A i \in DOMAIN ms : ms[i] \in X
  OBVIOUS
<1> HIDE DEF X
<1>2. Makes(g, ms) /\ ToldOf(w, ms) = Flat(g, ms)
  BY <1>1, ToldOfIsFlat
<1> HIDE DEF g
<1> QED BY <1>2, MappedIs

\* No message tells nothing.
LEMMA ToldOfNone ==
  ASSUME NEW w
  PROVE  ToldOf(w, <<>>) = <<>>
<1>1. [i \in DOMAIN <<>> |-> ToldIn(w, <<>>[i])] = <<>>
  OBVIOUS
<1> QED BY <1>1, FlattenNone DEF ToldOf

\* One message tells what it tells.
LEMMA ToldOfOne ==
  ASSUME NEW w, NEW m, IsMessage(m)
  PROVE  AreMessages(<<m>>) /\ ToldOf(w, <<m>>) = ToldIn(w, m)
<1>1. [i \in DOMAIN <<m>> |-> ToldIn(w, <<m>>[i])] = [i \in {1} |-> ToldIn(w, m)]
  BY OneIs
<1>2. AreMessages(<<m>>)
  BY OneIs DEF AreMessages
<1> QED BY <1>1, <1>2, ToldInIsSeq, FlattenOne DEF ToldOf

\* Messages after messages tell one after the other.
LEMMA ToldOfConcat ==
  ASSUME NEW w, NEW a, NEW b, AreMessages(a), AreMessages(b)
  PROVE  AreMessages(a \o b) /\ ToldOf(w, a \o b) = ToldOf(w, a) \o ToldOf(w, b)
<1> DEFINE c == a \o b
           X == {a[i] : i \in DOMAIN a} \cup {b[i] : i \in DOMAIN b} \cup {c[i] : i \in DOMAIN c}
           g == [x \in X |-> ToldIn(w, x)]
<1>1. /\ IsSeq(a) /\ IsSeq(b) /\ IsSeq(c) /\ Len(c) = Len(a) + Len(b)
      /\ \A i \in 1 .. Len(a) + Len(b) : c[i] = IF i <= Len(a) THEN a[i] ELSE b[i - Len(a)]
  BY ConcatIs DEF AreMessages
<1>a. /\ DOMAIN c = 1 .. Len(a) + Len(b) /\ DOMAIN a = 1 .. Len(a) /\ DOMAIN b = 1 .. Len(b)
      /\ Len(a) \in Nat /\ Len(b) \in Nat
  BY <1>1, SeqIs
<1>2. /\ \A i \in DOMAIN a : a[i] \in X
      /\ \A i \in DOMAIN b : b[i] \in X
      /\ \A i \in DOMAIN c : c[i] \in X
  OBVIOUS
<1> HIDE DEF X, c
<1>b. ASSUME NEW i \in DOMAIN c PROVE IsMessage(c[i])
  <2>1. CASE i <= Len(a)
    <3>1. c[i] = a[i] /\ i \in DOMAIN a
      BY <1>1, <1>a, <2>1
    <3> QED BY <3>1 DEF AreMessages
  <2>2. CASE ~ (i <= Len(a))
    <3>1. c[i] = b[i - Len(a)] /\ i - Len(a) \in DOMAIN b
      BY <1>1, <1>a, <2>2
    <3> QED BY <3>1 DEF AreMessages
  <2> QED BY <2>1, <2>2
<1>c. AreMessages(c)
  BY <1>1, <1>b DEF AreMessages
<1>3. /\ Makes(g, a) /\ ToldOf(w, a) = Flat(g, a)
      /\ Makes(g, b) /\ ToldOf(w, b) = Flat(g, b)
      /\ ToldOf(w, c) = Flat(g, c)
  BY <1>c, <1>2, ToldOfIsFlat
<1> HIDE DEF g
<1>4. Flat(g, a \o b) = Flat(g, a) \o Flat(g, b)
  BY <1>3, FlatConcat
<1> QED BY <1>3, <1>4, <1>c DEF c

\* Messages laid end to end tell one after the other.
LEMMA ToldOfFlatten ==
  ASSUME NEW w, NEW ss, IsSeqs(ss), \A i \in DOMAIN ss : AreMessages(ss[i])
  PROVE  /\ AreMessages(FlattenSeq(ss))
         /\ ToldOf(w, FlattenSeq(ss)) = FlattenSeq([i \in DOMAIN ss |-> ToldOf(w, ss[i])])
<1> DEFINE c == FlattenSeq(ss)
           Y == {{ss[i][j] : j \in DOMAIN ss[i]} : i \in DOMAIN ss}
           Z == {c[i] : i \in DOMAIN c}
           X == (UNION Y) \cup Z
           g == [x \in X |-> ToldIn(w, x)]
           t == [i \in DOMAIN ss |-> Flat(g, ss[i])]
<1>1. /\ IsSeq(c) /\ DOMAIN ss = 1 .. Len(ss)
      /\ \A k \in DOMAIN c : \E i \in 1 .. Len(ss) : \E j \in DOMAIN ss[i] : c[k] = ss[i][j]
  BY FlattenSeqs, FlattenIs, SeqIs DEF IsSeqs
<1>2. /\ \A i \in DOMAIN ss : \A j \in DOMAIN ss[i] : ss[i][j] \in X
      /\ \A i \in DOMAIN c : c[i] \in X
  <2>1. ASSUME NEW i \in DOMAIN ss, NEW j \in DOMAIN ss[i] PROVE ss[i][j] \in X
    <3> DEFINE y == {ss[i][k] : k \in DOMAIN ss[i]}
    <3>1. ss[i][j] \in y /\ y \in Y
      OBVIOUS
    <3> HIDE DEF c, y, Y, Z
    <3> QED BY <3>1
  <2>2. \A i \in DOMAIN c : c[i] \in X
    <3>1. \A i \in DOMAIN c : c[i] \in Z
      OBVIOUS
    <3> HIDE DEF c, Y, Z
    <3> QED BY <3>1
  <2> HIDE DEF X
  <2> QED BY <2>1, <2>2
<1> HIDE DEF X, c
<1>b. AreMessages(c)
  <2>1. \A k \in DOMAIN c : IsMessage(c[k])
    BY <1>1 DEF AreMessages
  <2> QED BY <1>1, <2>1 DEF AreMessages
<1>3. \A i \in DOMAIN ss : Makes(g, ss[i]) /\ ToldOf(w, ss[i]) = Flat(g, ss[i])
  <2> SUFFICES ASSUME NEW i \in DOMAIN ss PROVE Makes(g, ss[i]) /\ ToldOf(w, ss[i]) = Flat(g, ss[i])
    OBVIOUS
  <2>1. AreMessages(ss[i]) /\ \A j \in DOMAIN ss[i] : ss[i][j] \in X
    BY <1>2
  <2> QED BY <2>1, ToldOfIsFlat
<1>4. ToldOf(w, c) = Flat(g, c)
  BY <1>b, <1>2, ToldOfIsFlat
<1> HIDE DEF g
<1>5. Flat(g, FlattenSeq(ss)) = FlattenSeq(t)
  BY <1>3, FlatFlatten
<1>6. t = [i \in DOMAIN ss |-> ToldOf(w, ss[i])]
  BY <1>3
<1> QED BY <1>b, <1>4, <1>5, <1>6 DEF c

-----------------------------------------------------------------------------
(* Merging tells the same.                                                 *)

\* The text of a tool's message is an answer; of the others it is text.
NoTexts(blocks) == \A j \in DOMAIN blocks : blocks[j].kind # "text"
Plain(m) == m.role = "tool" => NoTexts(m.blocks)

\* Messages of these roles, none of a tool with a text: merging must not
\* make the texts of two of them answers to one call.
Sound(ms, roles) == AreMessages(ms) /\ \A i \in DOMAIN ms : ms[i].role \in roles /\ Plain(ms[i])

\* What blocks tell depends on the message by its role, and by the id it
\* answers where a tool's message has texts.
LEMMA ToldSame ==
  ASSUME NEW w, NEW m, NEW l, NEW blocks, m.role = l.role,
         m.answers = l.answers \/ m.role # "tool" \/ NoTexts(blocks)
  PROVE  Told(w, m, blocks) = Told(w, l, blocks)
<1>1. ASSUME NEW j \in DOMAIN blocks PROVE Tells(w, m, blocks[j]) = Tells(w, l, blocks[j])
  <2> DEFINE b == blocks[j]
  <2>1. m.answers = l.answers \/ m.role # "tool" \/ b.kind # "text"
    BY DEF NoTexts
  <2> HIDE DEF b
  <2>2. KindIn(m, b) = KindIn(l, b)
    BY DEF KindIn
  <2>3. Known(w, m, b) = Known(w, l, b)
    BY <2>1 DEF Known
  <2>4. Tells(w, m, b) = Tells(w, l, b)
    BY <2>2, <2>3 DEF Tells, Says, ActKnown
  <2> QED BY <2>4 DEF b
<1> QED BY <1>1 DEF Told

\* One more message tells what it tells after the others.
LEMMA ToldOfAppend ==
  ASSUME NEW w, NEW ms, AreMessages(ms), NEW m, IsMessage(m)
  PROVE  /\ AreMessages(ms \o <<m>>)
         /\ ToldOf(w, ms \o <<m>>) = ToldOf(w, ms) \o ToldIn(w, m)
<1> DEFINE o == <<m>>
<1>1. AreMessages(o) /\ ToldOf(w, o) = ToldIn(w, m)
  BY ToldOfOne
<1> HIDE DEF o
<1>2. AreMessages(ms \o o) /\ ToldOf(w, ms \o o) = ToldOf(w, ms) \o ToldOf(w, o)
  BY <1>1, ToldOfConcat
<1> QED BY <1>1, <1>2 DEF o

\* A message that is merged tells what it tells after the others.
LEMMA MergeIntoTells ==
  ASSUME NEW w, NEW roles, NEW merged, Sound(merged, roles), NEW m, IsMessage(m), m.role \in roles, Plain(m)
  PROVE  /\ Sound(MergeInto(merged, m), roles)
         /\ ToldOf(w, MergeInto(merged, m)) = ToldOf(w, merged) \o ToldIn(w, m)
<1> DEFINE r == MergeInto(merged, m)
           n == Len(merged)
<1>1. AreMessages(merged) /\ IsSeq(merged)
  BY DEF Sound, AreMessages
<1>2. AreMessages(r) /\ r # <<>> /\ (Extends(r, merged, m) \/ Follows(r, merged, m))
  BY <1>1, MergeIntoIs
<1>3. n \in Nat /\ DOMAIN merged = 1 .. n /\ \A i \in 1 .. n : IsMessage(merged[i]) /\ merged[i].role \in roles /\ Plain(merged[i])
  BY <1>1, SeqIs DEF Sound, AreMessages
<1> HIDE DEF r, n
<1>4. CASE Extends(r, merged, m)
  <2>1. /\ merged # <<>> /\ merged[n].role = m.role /\ Len(r) = n /\ \A i \in 1 .. n - 1 : r[i] = merged[i]
        /\ IsMessage(r[n]) /\ r[n].role = m.role /\ r[n].blocks = merged[n].blocks \o m.blocks
    BY <1>4 DEF Extends, n
  <2>2. n > 0 /\ n \in 1 .. n
    BY <1>1, <1>3, <2>1, LastOf DEF n
  <2> DEFINE l == merged[n]
             k == r[n]
             a == l.blocks
             b == m.blocks
  <2>3. /\ IsMessage(l) /\ Plain(l) /\ l.role = m.role /\ IsSeq(a) /\ IsSeq(b) /\ IsMessage(k)
        /\ k.role = m.role /\ k.blocks = a \o b
    BY <1>3, <2>1, <2>2 DEF IsMessage
  <2> HIDE DEF k, l
  <2>4. Told(w, k, a) = ToldIn(w, l)
    <3>1. k.role # "tool" \/ NoTexts(a)
      BY <2>3 DEF Plain
    <3> QED BY <2>3, <3>1, ToldSame DEF ToldIn
  <2>5. Told(w, k, b) = ToldIn(w, m)
    <3>1. k.role # "tool" \/ NoTexts(b)
      BY <2>3 DEF Plain
    <3> QED BY <2>3, <3>1, ToldSame DEF ToldIn
  <2>6. ToldIn(w, k) = ToldIn(w, l) \o ToldIn(w, m)
    <3>1. Told(w, k, a \o b) = Told(w, k, a) \o Told(w, k, b)
      <4> HIDE DEF a, b
      <4> QED BY <2>3, ToldConcat
    <3> QED BY <2>3, <2>4, <2>5, <3>1 DEF ToldIn
  <2>7. Plain(k)
    <3> SUFFICES ASSUME k.role = "tool", NEW j \in DOMAIN (a \o b) PROVE (a \o b)[j].kind # "text"
      BY <2>3 DEF Plain, NoTexts
    <3>1. NoTexts(a) /\ NoTexts(b)
      BY <2>3 DEF Plain
    <3> HIDE DEF a, b
    <3>2. /\ IsSeq(a \o b) /\ Len(a \o b) = Len(a) + Len(b)
          /\ \A i \in 1 .. Len(a) + Len(b) : (a \o b)[i] = IF i <= Len(a) THEN a[i] ELSE b[i - Len(a)]
      BY <2>3, ConcatIs
    <3>3. Len(a) \in Nat /\ DOMAIN a = 1 .. Len(a) /\ Len(b) \in Nat /\ DOMAIN b = 1 .. Len(b)
      BY <2>3, SeqIs
    <3>4. j \in 1 .. Len(a) + Len(b)
      BY <3>2, SeqIs
    <3>5. CASE j <= Len(a)
      BY <3>1, <3>2, <3>3, <3>4, <3>5 DEF NoTexts
    <3>6. CASE ~ (j <= Len(a))
      <4>1. (a \o b)[j] = b[j - Len(a)] /\ j - Len(a) \in DOMAIN b
        BY <3>2, <3>3, <3>4, <3>6
      <4> QED BY <3>1, <4>1 DEF NoTexts
    <3> QED BY <3>5, <3>6
  <2>8. AllButLast(r) = AllButLast(merged)
    <3>1. Len(r) = Len(merged)
      BY <2>1 DEF n
    <3> QED BY <2>1, <3>1 DEF AllButLast, n
  <2> DEFINE p == AllButLast(merged)
  <2>9. merged = p \o <<l>> /\ r = p \o <<k>> /\ DOMAIN p = 1 .. n - 1 /\ IsSeq(p)
    <3>1. merged = p \o <<merged[n]>> /\ DOMAIN p = 1 .. n - 1 /\ IsSeq(p)
      BY <1>1, <2>1, FrontIs DEF n
    <3>2. r = p \o <<r[n]>>
      <4>1. IsSeq(r) /\ r # <<>>
        BY <1>2 DEF AreMessages
      <4> QED BY <2>1, <2>8, <4>1, FrontIs
    <3> QED BY <3>1, <3>2 DEF l, k
  <2>10. AreMessages(p)
    <3>1. \A i \in 1 .. n - 1 : i \in 1 .. n /\ p[i] = merged[i]
      BY <1>3 DEF AllButLast, n
    <3> HIDE DEF p
    <3> QED BY <1>3, <2>9, <3>1 DEF AreMessages
  <2> HIDE DEF p
  <2>11. ToldOf(w, merged) = ToldOf(w, p) \o ToldIn(w, l) /\ ToldOf(w, r) = ToldOf(w, p) \o ToldIn(w, k)
    BY <2>3, <2>9, <2>10, ToldOfAppend
  <2>12. IsSeq(ToldOf(w, p)) /\ IsSeq(ToldIn(w, l)) /\ IsSeq(ToldIn(w, m))
    BY <2>3, <2>10, ToldOfIsSeq, ToldInIsSeq
  <2> DEFINE x == ToldOf(w, p)
             y == ToldIn(w, l)
             z == ToldIn(w, m)
  <2>13. ToldOf(w, r) = ToldOf(w, merged) \o z
    <3>1. ToldOf(w, r) = x \o (y \o z) /\ ToldOf(w, merged) = x \o y /\ IsSeq(x) /\ IsSeq(y) /\ IsSeq(z)
      BY <2>6, <2>11, <2>12
    <3> HIDE DEF x, y, z
    <3> QED BY <3>1, ConcatAssoc
  <2>14. ASSUME NEW i \in DOMAIN r PROVE r[i].role \in roles /\ Plain(r[i])
    <3>1. i \in 1 .. n
      BY <1>2, <2>1, SeqIs DEF AreMessages
    <3>2. CASE i = n
      BY <2>3, <2>7, <3>2 DEF k
    <3>3. CASE i # n
      <4>1. r[i] = merged[i]
        BY <1>3, <2>1, <3>1, <3>3
      <4> QED BY <1>3, <3>1, <4>1
    <3> QED BY <3>2, <3>3
  <2>15. Sound(r, roles)
    BY <1>2, <2>14 DEF Sound
  <2> QED BY <2>13, <2>15 DEF r
<1>5. CASE Follows(r, merged, m)
  <2>1. r = merged \o <<m>>
    BY <1>1, <1>5, AppendIsOneMore DEF Follows
  <2>2. ToldOf(w, r) = ToldOf(w, merged) \o ToldIn(w, m)
    BY <1>1, <2>1, ToldOfAppend
  <2>3. r = Append(merged, m)
    BY <1>5 DEF Follows
  <2>4. Len(r) = n + 1 /\ \A i \in 1 .. n + 1 : r[i] = IF i <= n THEN merged[i] ELSE m
    BY <1>1, <2>3, AppendIs DEF n
  <2>5. ASSUME NEW i \in DOMAIN r PROVE r[i].role \in roles /\ Plain(r[i])
    <3>1. i \in 1 .. n + 1
      BY <1>2, <2>4, SeqIs DEF AreMessages
    <3>2. CASE i <= n
      <4>1. i \in 1 .. n /\ r[i] = merged[i]
        BY <1>3, <2>4, <3>1, <3>2
      <4> QED BY <1>3, <4>1
    <3>3. CASE ~ (i <= n)
      BY <2>4, <3>1, <3>3
    <3> QED BY <3>2, <3>3
  <2>6. Sound(r, roles)
    BY <1>2, <2>5 DEF Sound
  <2> QED BY <2>2, <2>6 DEF r
<1> QED BY <1>2, <1>4, <1>5

\* What messages merged tell.
LEMMA MergedTells ==
  ASSUME NEW w, NEW roles, NEW ms, Sound(ms, roles)
  PROVE  Sound(Merged(ms), roles) /\ ToldOf(w, Merged(ms)) = ToldOf(w, ms)
<1>1. AreMessages(ms) /\ IsSeq(ms) /\ Len(ms) \in Nat /\ DOMAIN ms = 1 .. Len(ms)
  BY SeqIs DEF Sound, AreMessages
<1>2. PICK f : MergeChain(f, ms)
  BY <1>1, MergedChain
<1> DEFINE ts == [i \in DOMAIN ms |-> ToldIn(w, ms[i])]
<1>3. IsSeqs(ts) /\ Len(ts) = Len(ms) /\ \A i \in 1 .. Len(ms) : ts[i] = ToldIn(w, ms[i])
  <2>1. ts = [i \in 1 .. Len(ms) |-> ts[i]] /\ \A i \in 1 .. Len(ms) : ts[i] = ToldIn(w, ms[i])
    BY <1>1
  <2>2. \A i \in 1 .. Len(ms) : IsSeq(ToldIn(w, ms[i]))
    BY <1>1, ToldInIsSeq DEF AreMessages
  <2>3. IsSeq(ts) /\ Len(ts) = Len(ms)
    <3> HIDE DEF ts
    <3> QED BY <1>1, <2>1, ListIsSeq
  <2>4. DOMAIN ts = 1 .. Len(ms)
    BY <1>1
  <2> HIDE DEF ts
  <2> QED BY <2>1, <2>2, <2>3, <2>4 DEF IsSeqs
<1>4. ToldOf(w, ms) = FlattenSeq(ts)
  BY DEF ToldOf
<1> HIDE DEF ts
<1>5. PICK h : IsChain(h, ts)
  BY <1>3, FlattenChain
<1> DEFINE Good(k) == Sound(f[k], roles) /\ ToldOf(w, f[k]) = h[k]
           B == {k \in 0 .. Len(ms) : ~ Good(k)}
<1>6. B = {}
  <2> SUFFICES ASSUME B # {} PROVE FALSE
    OBVIOUS
  <2>1. PICK k \in B : \A b \in B : k <= b
    <3> HIDE DEF Good
    <3>1. B \in SUBSET Nat
      BY <1>1
    <3> HIDE DEF B
    <3> QED BY <3>1, SmallestNatIn
  <2>2. k \in 0 .. Len(ms) /\ ~ Good(k)
    OBVIOUS
  <2>3. CASE k = 0
    <3>1. f[0] = <<>> /\ h[0] = <<>>
      BY <1>2, <1>5 DEF MergeChain, IsChain
    <3>2. Sound(<<>>, roles)
      BY NoneIs DEF Sound, AreMessages
    <3> HIDE DEF B
    <3> QED BY <2>2, <2>3, <3>1, <3>2, ToldOfNone
  <2>4. CASE k # 0
    <3>1. k \in 1 .. Len(ms) /\ k - 1 \in 0 .. Len(ms) /\ ~ (k <= k - 1)
      BY <1>1, <2>2, <2>4
    <3>2. k - 1 \notin B
      <4> HIDE DEF B
      <4> QED BY <2>1, <3>1
    <3>3. Good(k - 1)
      <4> HIDE DEF Good
      <4> QED BY <3>1, <3>2
    <3> HIDE DEF B
    <3> DEFINE a == f[k - 1]
               m == ms[k]
    <3>4. /\ Sound(a, roles) /\ ToldOf(w, a) = h[k - 1] /\ IsMessage(m) /\ m.role \in roles /\ Plain(m)
          /\ f[k] = MergeInto(a, m) /\ h[k] = h[k - 1] \o ToldIn(w, m)
      BY <1>1, <1>2, <1>3, <1>5, <3>1, <3>3 DEF MergeChain, IsChain, AreMessages, Sound
    <3> HIDE DEF a, m
    <3>5. Sound(MergeInto(a, m), roles) /\ ToldOf(w, MergeInto(a, m)) = ToldOf(w, a) \o ToldIn(w, m)
      BY <3>4, MergeIntoTells
    <3> QED BY <2>2, <3>4, <3>5
  <2> QED BY <2>3, <2>4
<1>7. Good(Len(ms))
  <2>1. Len(ms) \in 0 .. Len(ms)
    BY <1>1
  <2> HIDE DEF Good
  <2> QED BY <1>6, <2>1
<1> HIDE DEF B
<1> QED BY <1>2, <1>3, <1>4, <1>5, <1>7 DEF MergeChain, IsChain

\* What is filled in tells nothing.
LEMMA FillerTellsNothing ==
  ASSUME NEW w
  PROVE  IsMessage(FillerFrom("user")) /\ ToldIn(w, FillerFrom("user")) = <<>>
<1> DEFINE m == FillerFrom("user")
           b == TextBlock(Filler)
<1>1. m = [role |-> "user", blocks |-> <<b>>, answers |-> NoId]
  BY DEF FillerFrom, Message
<1>2. m.role = "user" /\ m.blocks = <<b>> /\ IsMessage(m)
  BY <1>1, OneIs DEF IsMessage
<1>3. b.kind = "text" /\ b.text.at = Filler.at
  BY DEF TextBlock
<1> HIDE DEF m, b
<1>4. Tells(w, m, b) = <<>>
  BY <1>2, <1>3 DEF Tells, Says, ActKnown, KindIn
<1> QED BY <1>2, <1>4, ToldOne DEF ToldIn, m

\* What Claude is sent tells the same as the messages merged.
LEMMA AlternatingTells ==
  ASSUME NEW w, NEW roles, "user" \in roles, NEW ms, Sound(ms, roles), Alternates(ms)
  PROVE  Sound(Alternating(ms), roles) /\ ToldOf(w, Alternating(ms)) = ToldOf(w, ms)
<1> DEFINE a == <<FillerFrom("user")>>
<1>1. AreMessages(ms) /\ IsSeq(ms)
  BY DEF Sound, AreMessages
<1>2. Alternating(ms) = ms \/ Alternating(ms) = a \o ms
  BY <1>1, AlternatingIs
<1>3. CASE Alternating(ms) = ms
  BY <1>3
<1>4. CASE Alternating(ms) = a \o ms
  <2>1. AreMessages(a) /\ ToldOf(w, a) = <<>>
    BY FillerTellsNothing, ToldOfOne
  <2>2. IsSeq(a) /\ Len(a) = 1 /\ a[1] = FillerFrom("user")
    BY OneIs
  <2>3. a[1].role = "user"
    BY DEF FillerFrom, Message
  <2> HIDE DEF a
  <2>4. AreMessages(a \o ms) /\ ToldOf(w, a \o ms) = ToldOf(w, a) \o ToldOf(w, ms)
    BY <1>1, <2>1, ToldOfConcat
  <2>5. ToldOf(w, a \o ms) = ToldOf(w, ms)
    BY <1>1, <2>1, <2>4, ToldOfIsSeq, ConcatNone
  <2>6. ASSUME NEW i \in DOMAIN (a \o ms) PROVE (a \o ms)[i].role \in roles /\ Plain((a \o ms)[i])
    <3>1. /\ Len(a \o ms) = 1 + Len(ms) /\ IsSeq(a \o ms)
          /\ \A k \in 1 .. 1 + Len(ms) : (a \o ms)[k] = IF k <= 1 THEN a[k] ELSE ms[k - 1]
      <4>1. /\ IsSeq(a \o ms) /\ Len(a \o ms) = Len(a) + Len(ms)
            /\ \A k \in 1 .. Len(a) + Len(ms) : (a \o ms)[k] = IF k <= Len(a) THEN a[k] ELSE ms[k - Len(a)]
        BY <1>1, <2>2, ConcatIs
      <4> QED BY <2>2, <4>1
    <3>2. i \in 1 .. 1 + Len(ms) /\ Len(ms) \in Nat /\ DOMAIN ms = 1 .. Len(ms)
      BY <1>1, <3>1, SeqIs
    <3>3. CASE i <= 1
      <4>1. (a \o ms)[i] = a[1]
        BY <3>1, <3>2, <3>3
      <4> QED BY <2>3, <4>1 DEF Plain
    <3>4. CASE ~ (i <= 1)
      <4>1. (a \o ms)[i] = ms[i - 1] /\ i - 1 \in DOMAIN ms
        BY <3>1, <3>2, <3>4
      <4> QED BY <4>1 DEF Sound
    <3> QED BY <3>3, <3>4
  <2>7. Sound(a \o ms, roles)
    BY <2>4, <2>6 DEF Sound
  <2> QED BY <1>4, <2>5, <2>7
<1> QED BY <1>2, <1>3, <1>4

-----------------------------------------------------------------------------
(* Blocks that are left out, changed one by one or regrouped.              *)

\* A block, and the order of blocks in a message: the answers of tools come
\* first and the calls last.
IsBlock(b) ==
  /\ b = [kind |-> b.kind, text |-> b.text, id |-> b.id, name |-> b.name]
  /\ b.text = [at |-> b.text.at, short |-> b.text.short]
  /\ b.kind \in Kinds
InOrder(blocks) ==
  \A i, j \in DOMAIN blocks : i < j =>
    /\ blocks[j].kind = "result" => blocks[i].kind = "result"
    /\ blocks[i].kind = "call" => blocks[j].kind = "call"
Blocks(blocks) == IsSeq(blocks) /\ \A j \in DOMAIN blocks : IsBlock(blocks[j])

\* The places of the blocks of these kinds.
Places(blocks, kinds) == {j \in DOMAIN blocks : blocks[j].kind \in kinds}

\* Of picks the blocks at these places.
LEMMA OfIsPicked ==
  ASSUME NEW kinds, NEW blocks
  PROVE  Of(kinds, blocks) = Picked(blocks, Places(blocks, kinds))
<1>1. [i \in DOMAIN blocks |-> IF i \in Places(blocks, kinds) THEN <<blocks[i]>> ELSE <<>>]
        = [i \in DOMAIN blocks |-> IF blocks[i].kind \in kinds THEN <<blocks[i]>> ELSE <<>>]
  BY DEF Places
<1> QED BY <1>1 DEF Of, Where, Gather, Each, Picked

\* What each block tells.
ToldEach(w, m, blocks) == [j \in DOMAIN blocks |-> Tells(w, m, blocks[j])]

\* Laid end to end it is what the blocks tell.
LEMMA ToldEachIs ==
  ASSUME NEW w, NEW m, NEW s, IsSeq(s)
  PROVE  /\ IsSeqs(ToldEach(w, m, s)) /\ DOMAIN ToldEach(w, m, s) = DOMAIN s
         /\ Len(ToldEach(w, m, s)) = Len(s)
         /\ \A j \in DOMAIN s : ToldEach(w, m, s)[j] = Tells(w, m, s[j])
         /\ Told(w, m, s) = FlattenSeq(ToldEach(w, m, s))
<1>1. Len(s) \in Nat /\ DOMAIN s = 1 .. Len(s)
  BY SeqIs
<1> DEFINE t == ToldEach(w, m, s)
<1>2. t = [j \in 1 .. Len(s) |-> t[j]] /\ \A j \in DOMAIN s : t[j] = Tells(w, m, s[j])
  BY <1>1 DEF ToldEach
<1>3. Told(w, m, s) = FlattenSeq(t)
  BY DEF Told, ToldEach
<1> HIDE DEF t
<1>4. IsSeq(t) /\ Len(t) = Len(s) /\ DOMAIN t = DOMAIN s
  BY <1>1, <1>2, ListIsSeq
<1>5. ASSUME NEW j \in DOMAIN t PROVE IsSeq(t[j])
  <2>1. t[j] = Tells(w, m, s[j])
    BY <1>2, <1>4
  <2>2. IsSeq(Tells(w, m, s[j]))
    BY TellsIsSeq
  <2> QED BY <2>1, <2>2
<1>6. IsSeqs(t)
  BY <1>4, <1>5 DEF IsSeqs
<1> QED BY <1>2, <1>3, <1>4, <1>6 DEF t

\* What the blocks picked tell.
LEMMA ToldPicked ==
  ASSUME NEW w, NEW m, NEW s, IsSeq(s), NEW P
  PROVE  Told(w, m, Picked(s, P)) = FlattenSeq(OnlyAt(ToldEach(w, m, s), P))
<1> DEFINE ss == OnlyAt(Singles(s), P)
<1>1. Len(s) \in Nat /\ DOMAIN s = 1 .. Len(s)
  BY SeqIs
<1>2. Picked(s, P) = FlattenSeq(ss) /\ IsSeqs(ss)
  BY SingleIs, OnlyIs
<1>3. DOMAIN ss = DOMAIN s /\ \A i \in DOMAIN s : ss[i] = IF i \in P THEN <<s[i]>> ELSE <<>>
  BY DEF OnlyAt, Singles
<1> HIDE DEF ss
<1>4. Told(w, m, FlattenSeq(ss)) = FlattenSeq([i \in DOMAIN ss |-> Told(w, m, ss[i])])
  BY <1>2, ToldFlatten
<1>5. ASSUME NEW i \in DOMAIN s PROVE Told(w, m, ss[i]) = IF i \in P THEN Tells(w, m, s[i]) ELSE <<>>
  BY <1>3, ToldOne, ToldNone
<1>6. OnlyAt(ToldEach(w, m, s), P) = [i \in DOMAIN s |-> IF i \in P THEN Tells(w, m, s[i]) ELSE <<>>]
  BY DEF OnlyAt, ToldEach
<1>7. [i \in DOMAIN ss |-> Told(w, m, ss[i])] = OnlyAt(ToldEach(w, m, s), P)
  BY <1>3, <1>5, <1>6
<1> QED BY <1>2, <1>4, <1>7

\* Blocks that tell nothing can be left out, and what is left be asked w of
\* message l when the others are asked v of message m.
LEMMA ToldChosen ==
  ASSUME NEW w, NEW l, NEW v, NEW m, NEW s, IsSeq(s), NEW P,
         \A j \in DOMAIN s : Tells(v, m, s[j]) = IF j \in P THEN Tells(w, l, s[j]) ELSE <<>>
  PROVE  Told(w, l, Picked(s, P)) = Told(v, m, s)
<1>1. OnlyAt(ToldEach(w, l, s), P) = ToldEach(v, m, s)
  BY DEF OnlyAt, ToldEach
<1> QED BY <1>1, ToldPicked, ToldEachIs

\* Blocks one by one.
LEMMA ToldMapped ==
  ASSUME NEW w, NEW l, NEW c, NEW v, NEW m, NEW b, DOMAIN c = DOMAIN b,
         \A j \in DOMAIN b : Tells(w, l, c[j]) = Tells(v, m, b[j])
  PROVE  Told(w, l, c) = Told(v, m, b)
BY DEF Told

\* Messages one by one.
LEMMA ToldOfMapped ==
  ASSUME NEW w, NEW c, NEW v, NEW b, DOMAIN c = DOMAIN b,
         \A i \in DOMAIN b : ToldIn(w, c[i]) = ToldIn(v, b[i])
  PROVE  ToldOf(w, c) = ToldOf(v, b)
BY DEF ToldOf

\* The kinds that OpenAI has in the content of a message.
SpokenKinds == {"text", "image", "imageurl"}

\* Answers, what is said and calls, taken apart and put together in this
\* order: when thinking tells nothing.
LEMMA Regrouped ==
  ASSUME NEW v, NEW m, NEW s, Blocks(s), InOrder(s),
         \A j \in DOMAIN s : s[j].kind = "thinking" => Tells(v, m, s[j]) = <<>>
  PROVE  Told(v, m, s) =
           Told(v, m, Of({"result"}, s)) \o (Told(v, m, Of(SpokenKinds, s)) \o Told(v, m, Of({"call"}, s)))
<1> DEFINE t == ToldEach(v, m, s)
           R == Places(s, {"result"})
           N == DOMAIN s \ Places(s, {"call"})
           rest == ButAt(t, R)
<1>1. IsSeqs(t) /\ DOMAIN t = DOMAIN s /\ (\A j \in DOMAIN s : t[j] = Tells(v, m, s[j])) /\ Told(v, m, s) = FlattenSeq(t)
  BY ToldEachIs DEF Blocks
<1>2. \A kinds : Told(v, m, Of(kinds, s)) = FlattenSeq(OnlyAt(t, Places(s, kinds)))
  BY OfIsPicked, ToldPicked DEF Blocks
<1>3. \A j \in DOMAIN s : s[j].kind \in Kinds
  BY DEF Blocks, IsBlock
<1> HIDE DEF t
<1>4. FlattenSeq(t) = FlattenSeq(OnlyAt(t, R)) \o FlattenSeq(rest)
  <2>1. \A i, j \in DOMAIN t : i < j /\ j \in R => i \in R
    BY <1>1 DEF InOrder, Places
  <2> HIDE DEF R
  <2> QED BY <1>1, <2>1, FlattenParts
<1>5. IsSeqs(rest) /\ DOMAIN rest = DOMAIN s /\ \A j \in DOMAIN s : rest[j] = IF j \in R THEN <<>> ELSE t[j]
  <2>1. IsSeqs(rest)
    BY <1>1, OnlyIs
  <2>2. DOMAIN rest = DOMAIN s /\ \A j \in DOMAIN s : rest[j] = IF j \in R THEN <<>> ELSE t[j]
    BY <1>1 DEF ButAt
  <2> QED BY <2>1, <2>2
<1> HIDE DEF rest
<1>6. FlattenSeq(rest) = FlattenSeq(OnlyAt(rest, N)) \o FlattenSeq(ButAt(rest, N))
  <2>1. \A i, j \in DOMAIN rest : i < j /\ j \in N => i \in N
    BY <1>5 DEF InOrder, Places
  <2> HIDE DEF N
  <2> QED BY <1>5, <2>1, FlattenParts
<1>7. OnlyAt(rest, N) = OnlyAt(t, Places(s, SpokenKinds))
  <2>1. ASSUME NEW j \in DOMAIN s
        PROVE  (IF j \in N THEN rest[j] ELSE <<>>) = IF j \in Places(s, SpokenKinds) THEN t[j] ELSE <<>>
    <3>1. s[j].kind = "thinking" => t[j] = <<>>
      BY <1>1
    <3> QED BY <1>3, <1>5, <3>1 DEF Places, SpokenKinds, Kinds
  <2> HIDE DEF N
  <2> QED BY <1>1, <1>5, <2>1 DEF OnlyAt
<1>8. ButAt(rest, N) = OnlyAt(t, Places(s, {"call"}))
  <2>1. ASSUME NEW j \in DOMAIN s
        PROVE  (IF j \in N THEN <<>> ELSE rest[j]) = IF j \in Places(s, {"call"}) THEN t[j] ELSE <<>>
    BY <1>5 DEF Places
  <2> HIDE DEF N
  <2> QED BY <1>1, <1>5, <2>1 DEF OnlyAt, ButAt
<1>9. FlattenSeq(rest) = FlattenSeq(OnlyAt(t, Places(s, SpokenKinds))) \o FlattenSeq(OnlyAt(t, Places(s, {"call"})))
  BY <1>6, <1>7, <1>8
<1> HIDE DEF R, N
<1> QED BY <1>1, <1>2, <1>4, <1>9 DEF R

\* An empty text tells nothing, but in a message of a tool.
LEMMA OrEmptyTells ==
  ASSUME NEW w, NEW m, m.role # "tool", NEW s, Blocks(s)
  PROVE  /\ Told(w, m, OrEmptyText(s)) = Told(w, m, s)
         /\ Blocks(OrEmptyText(s)) /\ (InOrder(s) => InOrder(OrEmptyText(s)))
         /\ \A j \in DOMAIN OrEmptyText(s) : OrEmptyText(s)[j].kind = "text" \/ \E i \in DOMAIN s : OrEmptyText(s)[j].kind = s[i].kind
<1>1. CASE s # <<>>
  BY <1>1 DEF OrEmptyText
<1>2. CASE s = <<>>
  <2> DEFINE b == TextBlock(NoText)
  <2>1. OrEmptyText(s) = <<b>>
    BY <1>2 DEF OrEmptyText
  <2>2. b.kind = "text" /\ b.text.at = NoText.at /\ IsBlock(b)
    BY DEF TextBlock, IsBlock, NoText, Text, Kinds
  <2> HIDE DEF b
  <2>3. Tells(w, m, b) = <<>>
    BY <2>2 DEF Tells, Says, ActKnown, KindIn
  <2>4. Told(w, m, <<b>>) = <<>> /\ Told(w, m, s) = <<>>
    BY <1>2, <2>3, ToldOne, ToldNone
  <2>5. IsSeq(<<b>>) /\ DOMAIN <<b>> = {1} /\ <<b>>[1] = b
    BY OneIs
  <2> HIDE DEF OrEmptyText
  <2>6. Blocks(<<b>>) /\ InOrder(<<b>>) /\ \A j \in DOMAIN <<b>> : <<b>>[j].kind = "text"
    BY <2>2, <2>5 DEF Blocks, InOrder
  <2> QED BY <2>1, <2>4, <2>6
<1> QED BY <1>1, <1>2

-----------------------------------------------------------------------------
(* What is written for Claude.                                             *)

\* A message of the canonical request; a tool's has answers only.
Canonical(m) ==
  /\ IsMessage(m) /\ m.role \in {"user", "assistant", "tool"}
  /\ Blocks(m.blocks) /\ InOrder(m.blocks)
  /\ m.role = "tool" => \A j \in DOMAIN m.blocks : m.blocks[j].kind = "result"
Canonicals(ms) == IsSeq(ms) /\ \A i \in DOMAIN ms : Canonical(ms[i])

\* Asked w, what is written for f tells what the canonical request does
\* asked v.
SaysInBoth(f, w, v) == \E K : w = SaysOf(K) /\ v = SaysOf(K \cap Carries(f))
Writes(f, w, v) ==
  \/ SaysInBoth(f, w, v)
  \/ f \in {"claude", "openai"} /\ w = Asks("id") /\ v = Asks("id")
  \/ f = "gemini" /\ w = Asks("name") /\ v = Asks("function")
  \/ f = "responses" /\ w = Asks("id") /\ v = SaysOf({})

\* Messages of the canonical request are messages.
LEMMA CanonicalsAreMessages ==
  ASSUME NEW ms, Canonicals(ms)
  PROVE  AreMessages(ms)
BY DEF Canonicals, Canonical, AreMessages

\* What a message is made of.
LEMMA MessageIs ==
  ASSUME NEW role, NEW blocks, IsSeq(blocks)
  PROVE  /\ IsMessage(Message(role, blocks)) /\ Message(role, blocks).role = role
         /\ Message(role, blocks).blocks = blocks /\ Message(role, blocks).answers = NoId
<1> DEFINE m == Message(role, blocks)
<1>1. m = [role |-> role, blocks |-> blocks, answers |-> NoId]
  BY DEF Message
<1> HIDE DEF m
<1>2. IsMessage(m) /\ m.role = role /\ m.blocks = blocks /\ m.answers = NoId
  BY <1>1 DEF IsMessage
<1> QED BY <1>2 DEF m

\* Claude's content: only the data of images.
LEMMA ClaudeBlock ==
  ASSUME NEW b, IsBlock(b), NEW l, NEW m, l.role = m.role, l.role # "tool" \/ b.kind # "text",
         NEW w, NEW v, SaysInBoth("claude", w, v) \/ (w = Asks("id") /\ v = Asks("id"))
  PROVE  /\ Tells(w, l, DataOnly(b)) = Tells(v, m, b) /\ IsBlock(DataOnly(b))
         /\ DataOnly(b).kind = IF b.kind = "imageurl" THEN "image" ELSE b.kind
<1> DEFINE c == DataOnly(b)
<1>0. IsBlock(c) /\ (b.kind # "imageurl" => c = b) /\ (b.kind = "imageurl" => c.kind = "image" /\ c.text.at = NoText.at)
  <2>1. CASE b.kind = "imageurl"
    <3>1. b = [kind |-> b.kind, text |-> b.text, id |-> b.id, name |-> b.name]
      BY DEF IsBlock
    <3>2. c = [b EXCEPT !.kind = "image", !.text = NoText]
      BY <2>1 DEF DataOnly
    <3>3. c = [kind |-> "image", text |-> NoText, id |-> b.id, name |-> b.name]
      BY <3>1, <3>2
    <3> HIDE DEF c
    <3>4. IsBlock(c) /\ c.kind = "image" /\ c.text.at = NoText.at
      BY <3>3 DEF IsBlock, NoText, Text, Kinds
    <3> QED BY <2>1, <3>4
  <2>2. CASE b.kind # "imageurl"
    BY <2>2 DEF DataOnly
  <2> QED BY <2>1, <2>2
<1> HIDE DEF c
<1>1. KindIn(m, b) = KindIn(l, b) /\ KindIn(l, b) = b.kind /\ KindIn(l, c) = c.kind /\ b.kind \in Kinds
  <2>1. b.kind \in Kinds
    BY DEF IsBlock
  <2> QED BY <1>0, <2>1 DEF KindIn
<1>2. CASE SaysInBoth("claude", w, v)
  <2>1. PICK K : w = SaysOf(K) /\ v = SaysOf(K \cap Carries("claude"))
    BY <1>2 DEF SaysInBoth
  <2>2. Carries("claude") = Kinds \ {"imageurl"}
    BY DEF Carries
  <2>3. Tells(w, l, c) = Says(K, l, c) /\ Tells(v, m, b) = Says(K \cap Carries("claude"), m, b)
    BY <2>1 DEF Tells, SaysOf
  <2>4. Says(K, l, c) = Says(K \cap Carries("claude"), m, b)
    BY <1>0, <1>1, <2>2 DEF Says
  <2> QED BY <1>0, <2>3, <2>4 DEF c
<1>3. CASE w = Asks("id") /\ v = Asks("id")
  <2>1. Tells(w, l, c) = ActKnown(w, l, c) /\ Tells(v, m, b) = ActKnown(w, m, b)
    BY <1>3 DEF Tells, Asks
  <2>2. CASE b.kind = "imageurl"
    BY <1>0, <1>1, <2>1, <2>2 DEF ActKnown, c
  <2>3. CASE b.kind # "imageurl"
    <3>1. Known(w, l, b) = b.id /\ Known(w, m, b) = b.id
      BY <1>3 DEF Known, Asks
    <3> QED BY <1>0, <1>1, <2>1, <2>3, <3>1 DEF ActKnown, c
  <2> QED BY <2>2, <2>3
<1>4. c.kind = IF b.kind = "imageurl" THEN "image" ELSE b.kind
  BY <1>0
<1> QED BY <1>0, <1>2, <1>3, <1>4 DEF c

\* A message written for Claude tells the same.
LEMMA ClaudeMessage ==
  ASSUME NEW m, Canonical(m), NEW w, NEW v, Writes("claude", w, v)
  PROVE  /\ ToldIn(w, ClaudeWritten(m)) = ToldIn(v, m) /\ IsMessage(ClaudeWritten(m))
         /\ ClaudeWritten(m).role = m.role /\ Plain(ClaudeWritten(m))
<1> DEFINE b == m.blocks
           c == Each(DataOnly, b)
           l == ClaudeWritten(m)
<1>1. Blocks(b) /\ IsSeq(b) /\ Len(b) \in Nat /\ DOMAIN b = 1 .. Len(b) /\ \A j \in DOMAIN b : IsBlock(b[j])
  BY SeqIs DEF Canonical, Blocks
<1>2. c = [j \in 1 .. Len(b) |-> c[j]] /\ \A j \in 1 .. Len(b) : c[j] = DataOnly(b[j])
  BY <1>1 DEF Each
<1>3. l = Message(m.role, c)
  BY DEF ClaudeWritten
<1> HIDE DEF c, l
<1>4. IsSeq(c) /\ Len(c) = Len(b) /\ DOMAIN c = 1 .. Len(b)
  BY <1>1, <1>2, ListIsSeq
<1>5. IsMessage(l) /\ l.role = m.role /\ l.blocks = c
  BY <1>3, <1>4, MessageIs
<1>6. \A j \in DOMAIN b : l.role # "tool" \/ b[j].kind = "result"
  BY <1>5 DEF Canonical
<1>7. SaysInBoth("claude", w, v) \/ (w = Asks("id") /\ v = Asks("id"))
  BY DEF Writes
<1>8. ASSUME NEW j \in DOMAIN b
      PROVE  /\ Tells(w, l, c[j]) = Tells(v, m, b[j])
             /\ c[j].kind = IF b[j].kind = "imageurl" THEN "image" ELSE b[j].kind
  <2> DEFINE x == b[j]
  <2>1. IsBlock(x) /\ c[j] = DataOnly(x) /\ (l.role # "tool" \/ x.kind # "text")
    BY <1>1, <1>2, <1>6
  <2> HIDE DEF x, b
  <2>2. Tells(w, l, DataOnly(x)) = Tells(v, m, x) /\ DataOnly(x).kind = IF x.kind = "imageurl" THEN "image" ELSE x.kind
    BY <1>5, <1>7, <2>1, ClaudeBlock
  <2> QED BY <2>1, <2>2 DEF x
<1>9. Told(w, l, c) = Told(v, m, b)
  BY <1>1, <1>4, <1>8, ToldMapped
<1>10. Plain(l)
  BY <1>1, <1>4, <1>5, <1>6, <1>8 DEF Plain, NoTexts
<1> QED BY <1>5, <1>9, <1>10 DEF ToldIn, l

\* The roles of the canonical request.
CanonicalRoles == {"user", "assistant", "tool"}

\* What is written for Claude, merged and filled in, tells the same, has
\* no instructions among its messages, begins with the user and alternates.
LEMMA ClaudeWrites ==
  ASSUME NEW ms, Canonicals(ms), NEW w, NEW v, Writes("claude", w, v),
         NEW r, r = Alternating(Merged(Each(ClaudeWritten, ms)))
  PROVE  /\ ToldOf(w, r) = ToldOf(v, ms) /\ AreMessages(r) /\ \A i \in DOMAIN r : r[i].role # "system"
         /\ (r # <<>> => r[1].role = "user") /\ Alternates(r)
<1> DEFINE c == Each(ClaudeWritten, ms)
<1>1. IsSeq(ms) /\ Len(ms) \in Nat /\ DOMAIN ms = 1 .. Len(ms) /\ \A i \in DOMAIN ms : Canonical(ms[i])
  BY SeqIs DEF Canonicals
<1>2. c = [i \in 1 .. Len(ms) |-> c[i]] /\ \A i \in 1 .. Len(ms) : c[i] = ClaudeWritten(ms[i])
  BY <1>1 DEF Each
<1>3. r = Alternating(Merged(c))
  OBVIOUS
<1> HIDE DEF c
<1>4. IsSeq(c) /\ Len(c) = Len(ms) /\ DOMAIN c = 1 .. Len(ms)
  BY <1>1, <1>2, ListIsSeq
<1>5. ASSUME NEW i \in DOMAIN ms
      PROVE  ToldIn(w, c[i]) = ToldIn(v, ms[i]) /\ IsMessage(c[i]) /\ c[i].role \in CanonicalRoles /\ Plain(c[i])
  <2>1. Canonical(ms[i]) /\ c[i] = ClaudeWritten(ms[i])
    BY <1>1, <1>2
  <2>2. ms[i].role \in CanonicalRoles
    BY <2>1 DEF Canonical, CanonicalRoles
  <2> QED BY <2>1, <2>2, ClaudeMessage
<1>6. ToldOf(w, c) = ToldOf(v, ms)
  BY <1>1, <1>4, <1>5, ToldOfMapped
<1>7. Sound(c, CanonicalRoles)
  BY <1>1, <1>4, <1>5 DEF Sound, AreMessages
<1> DEFINE d == Merged(c)
<1>8. Sound(d, CanonicalRoles) /\ ToldOf(w, d) = ToldOf(v, ms)
  BY <1>6, <1>7, MergedTells
<1>9. Alternates(d)
  BY <1>7, MergedAlternates DEF Sound
<1> HIDE DEF d
<1>10. "user" \in CanonicalRoles
  BY DEF CanonicalRoles
<1>11. Sound(r, CanonicalRoles) /\ ToldOf(w, r) = ToldOf(v, ms)
  BY <1>3, <1>8, <1>9, <1>10, AlternatingTells DEF d
<1>12. (r # <<>> => r[1].role = "user") /\ Alternates(r)
  BY <1>3, <1>8, <1>9, AlternatingAlternates DEF d, Sound
<1>13. AreMessages(r) /\ \A i \in DOMAIN r : r[i].role # "system"
  <2>1. \A i \in DOMAIN r : r[i].role \in CanonicalRoles
    BY <1>11 DEF Sound
  <2> QED BY <1>11, <2>1 DEF Sound, CanonicalRoles
<1> QED BY <1>11, <1>12, <1>13

-----------------------------------------------------------------------------
(* What is written for OpenAI.                                             *)

\* Answers become messages of their own.
LEMMA ToolMessages ==
  ASSUME NEW m, NEW s, Blocks(s), \A j \in DOMAIN s : s[j].kind = "result",
         m.role # "system",
         NEW w, w.asks = "says" \/ w = Asks("id")
  PROVE  /\ AreMessages(Each(ToolMessage, s)) /\ ToldOf(w, Each(ToolMessage, s)) = Told(w, m, s)
         /\ \A i \in DOMAIN Each(ToolMessage, s) : Each(ToolMessage, s)[i].role = "tool"
<1> DEFINE c == Each(ToolMessage, s)
<1>1. IsSeq(s) /\ Len(s) \in Nat /\ DOMAIN s = 1 .. Len(s) /\ \A j \in DOMAIN s : IsBlock(s[j])
  BY SeqIs DEF Blocks
<1>2. c = [i \in 1 .. Len(s) |-> c[i]] /\ \A i \in 1 .. Len(s) : c[i] = ToolMessage(s[i])
  BY <1>1 DEF Each
<1> HIDE DEF c
<1>3. IsSeq(c) /\ Len(c) = Len(s) /\ DOMAIN c = 1 .. Len(s)
  BY <1>1, <1>2, ListIsSeq
<1>4. ASSUME NEW i \in DOMAIN s
      PROVE  IsMessage(c[i]) /\ c[i].role = "tool" /\ ToldIn(w, c[i]) = Tells(w, m, s[i])
  <2> DEFINE b == s[i]
             l == c[i]
             x == TextBlock(b.text)
  <2>1. b.kind = "result" /\ l = [role |-> "tool", blocks |-> <<x>>, answers |-> b.id]
    BY <1>1, <1>2 DEF ToolMessage
  <2>2. x.kind = "text" /\ x.text = b.text
    BY DEF TextBlock
  <2> HIDE DEF l, b, x
  <2>3. l.role = "tool" /\ l.blocks = <<x>> /\ l.answers = b.id /\ IsMessage(l)
    BY <2>1, OneIs DEF IsMessage
  <2>4. ToldIn(w, l) = Tells(w, l, x)
    BY <2>3, ToldOne DEF ToldIn
  <2>5. KindIn(l, x) = "result" /\ KindIn(m, b) = "result"
    BY <2>1, <2>2, <2>3 DEF KindIn
  <2>6. CASE w.asks = "says"
    BY <2>2, <2>3, <2>4, <2>5, <2>6 DEF Tells, Says, l, b
  <2>7. CASE w = Asks("id")
    <3>1. Known(w, l, x) = b.id /\ Known(w, m, b) = b.id
      BY <2>1, <2>2, <2>3, <2>7 DEF Known, Asks
    <3>2. Tells(w, l, x) = ActKnown(w, l, x) /\ Tells(w, m, b) = ActKnown(w, m, b)
      BY <2>7 DEF Tells, Asks
    <3>3. ActKnown(w, l, x) = ActKnown(w, m, b)
      BY <2>5, <3>1 DEF ActKnown
    <3> QED BY <2>3, <2>4, <3>2, <3>3 DEF l, b
  <2> QED BY <2>3, <2>6, <2>7 DEF l
<1>5. AreMessages(c)
  BY <1>1, <1>3, <1>4 DEF AreMessages
<1>6. ToldOf(w, c) = Told(w, m, s)
  <2>1. [i \in DOMAIN c |-> ToldIn(w, c[i])] = [i \in DOMAIN s |-> Tells(w, m, s[i])]
    BY <1>1, <1>3, <1>4
  <2> QED BY <2>1 DEF ToldOf, Told
<1> QED BY <1>1, <1>3, <1>4, <1>5, <1>6 DEF c

\* Some of the blocks.
LEMMA OfIs ==
  ASSUME NEW kinds, NEW s, Blocks(s)
  PROVE  /\ Blocks(Of(kinds, s)) /\ IsSeq(Of(kinds, s))
         /\ \A k \in DOMAIN Of(kinds, s) : Of(kinds, s)[k].kind \in kinds /\ \E i \in DOMAIN s : Of(kinds, s)[k] = s[i]
         /\ (\A i \in DOMAIN s : s[i].kind \notin kinds) => Of(kinds, s) = <<>>
         /\ (\A i \in DOMAIN s : s[i].kind \in kinds) => Of(kinds, s) = s
<1> DEFINE P == Places(s, kinds)
           c == Picked(s, P)
<1>1. Of(kinds, s) = c
  BY OfIsPicked
<1>2. /\ IsSeq(c) /\ \A k \in DOMAIN c : \E i \in DOMAIN s : i \in P /\ c[k] = s[i]
      /\ (\A i \in DOMAIN s : i \notin P) => c = <<>>
      /\ (\A i \in DOMAIN s : i \in P) => c = s
  <2>1. IsSeq(s)
    BY DEF Blocks
  <2> HIDE DEF P
  <2> QED BY <2>1, PickedIs
<1> HIDE DEF c
<1>3. ASSUME NEW k \in DOMAIN c PROVE c[k].kind \in kinds /\ IsBlock(c[k]) /\ \E i \in DOMAIN s : c[k] = s[i]
  <2>1. PICK i \in DOMAIN s : i \in P /\ c[k] = s[i]
    BY <1>2
  <2>2. s[i].kind \in kinds /\ IsBlock(s[i])
    BY <2>1 DEF Places, Blocks
  <2> QED BY <2>1, <2>2
<1>4. Blocks(c)
  BY <1>2, <1>3 DEF Blocks
<1>5. \A i \in DOMAIN s : i \in P <=> s[i].kind \in kinds
  BY DEF Places
<1> HIDE DEF P
<1>6. (\A i \in DOMAIN s : s[i].kind \notin kinds) => c = <<>>
  BY <1>2, <1>5
<1>7. (\A i \in DOMAIN s : s[i].kind \in kinds) => c = s
  BY <1>2, <1>5
<1> QED BY <1>1, <1>2, <1>3, <1>4, <1>6, <1>7

\* What the wire format carries tells the same.
LEMMA OpenAIBlock ==
  ASSUME NEW b, IsBlock(b), b.kind # "thinking", NEW m, NEW w, NEW v, Writes("openai", w, v)
  PROVE  Tells(w, m, b) = Tells(v, m, b)
<1>1. CASE w = Asks("id") /\ v = Asks("id")
  BY <1>1
<1>2. CASE SaysInBoth("openai", w, v)
  <2>1. PICK K : w = SaysOf(K) /\ v = SaysOf(K \cap Carries("openai"))
    BY <1>2 DEF SaysInBoth
  <2>2. Carries("openai") = Kinds \ {"thinking"}
    BY DEF Carries
  <2>3. KindIn(m, b) \in Kinds /\ KindIn(m, b) # "thinking"
    BY DEF KindIn, IsBlock, Kinds
  <2>4. Tells(w, m, b) = Says(K, m, b) /\ Tells(v, m, b) = Says(K \cap Carries("openai"), m, b)
    BY <2>1 DEF Tells, SaysOf
  <2> QED BY <2>2, <2>3, <2>4 DEF Says
<1> QED BY <1>1, <1>2 DEF Writes

\* Thinking, which it does not carry, tells nothing.
LEMMA OpenAIThinking ==
  ASSUME NEW b, b.kind = "thinking", NEW m, NEW w, NEW v, Writes("openai", w, v)
  PROVE  Tells(v, m, b) = <<>>
<1>0. KindIn(m, b) = "thinking"
  BY DEF KindIn
<1>1. CASE w = Asks("id") /\ v = Asks("id")
  BY <1>0, <1>1 DEF Tells, Asks, ActKnown
<1>2. CASE SaysInBoth("openai", w, v)
  <2>1. PICK K : w = SaysOf(K) /\ v = SaysOf(K \cap Carries("openai"))
    BY <1>2 DEF SaysInBoth
  <2>2. Carries("openai") = Kinds \ {"thinking"}
    BY DEF Carries
  <2>3. Tells(v, m, b) = Says(K \cap Carries("openai"), m, b)
    BY <2>1 DEF Tells, SaysOf
  <2> QED BY <1>0, <2>2, <2>3 DEF Says
<1> QED BY <1>1, <1>2 DEF Writes

\* Blocks of the kinds carried, in what message they are put.
LEMMA OpenAITold ==
  ASSUME NEW w, NEW v, Writes("openai", w, v), NEW m, NEW l, NEW s, Blocks(s),
         \A j \in DOMAIN s : s[j].kind # "thinking",
         m.role = l.role, m.role # "tool" \/ NoTexts(s)
  PROVE  Told(w, l, s) = Told(v, m, s)
<1>1. \A j \in DOMAIN s : Tells(w, m, s[j]) = Tells(v, m, s[j])
  BY OpenAIBlock DEF Blocks
<1>2. Told(w, m, s) = Told(v, m, s)
  BY <1>1, ToldMapped
<1> QED BY <1>2, ToldSame

\* The messages written for one: its answers first, and what is left of it.
LEMMA OpenAIWrittenTells ==
  ASSUME NEW m, Canonical(m), NEW w, NEW v, Writes("openai", w, v)
  PROVE  /\ AreMessages(OpenAIWritten(m)) /\ ToldOf(w, OpenAIWritten(m)) = ToldIn(v, m)
         /\ \A i \in DOMAIN OpenAIWritten(m) : OpenAIWritten(m)[i].role # "system"
<1> DEFINE s == m.blocks
           results == Of({"result"}, s)
           texts == Of({"text", "image", "imageurl"}, s)
           calls == Of({"call"}, s)
           tools == Each(ToolMessage, results)
           l == Message(m.role, texts \o calls)
<1>1. Blocks(s) /\ InOrder(s) /\ m.role \in {"user", "assistant", "tool"}
  BY DEF Canonical
<1>2. /\ Blocks(results) /\ Blocks(texts) /\ Blocks(calls) /\ IsSeq(results) /\ IsSeq(texts) /\ IsSeq(calls)
      /\ \A j \in DOMAIN results : results[j].kind = "result"
      /\ \A j \in DOMAIN texts : texts[j].kind # "thinking"
      /\ \A j \in DOMAIN calls : calls[j].kind # "thinking"
  <2>1. \A j \in DOMAIN texts : texts[j].kind \in {"text", "image", "imageurl"}
    <3> HIDE DEF s
    <3> QED BY <1>1, OfIs
  <2>2. \A j \in DOMAIN calls : calls[j].kind \in {"call"}
    <3> HIDE DEF s
    <3> QED BY <1>1, OfIs
  <2>3. \A j \in DOMAIN results : results[j].kind \in {"result"}
    <3> HIDE DEF s
    <3> QED BY <1>1, OfIs
  <2>4. /\ Blocks(results) /\ Blocks(texts) /\ Blocks(calls) /\ IsSeq(results) /\ IsSeq(texts) /\ IsSeq(calls)
    <3> HIDE DEF s
    <3> QED BY <1>1, OfIs
  <2> HIDE DEF results, texts, calls
  <2> QED BY <2>1, <2>2, <2>3, <2>4
<1>3. w.asks = "says" \/ w = Asks("id")
  BY DEF Writes, SaysInBoth, SaysOf
<1>4. OpenAIWritten(m) = tools \o IF m.role = "tool" THEN <<>> ELSE <<l>>
  BY DEF OpenAIWritten
<1>5. Told(v, m, s) = Told(v, m, results) \o (Told(v, m, texts) \o Told(v, m, calls))
  <2>1. \A j \in DOMAIN s : s[j].kind = "thinking" => Tells(v, m, s[j]) = <<>>
    BY OpenAIThinking
  <2> HIDE DEF s
  <2>2. Told(v, m, s) = Told(v, m, Of({"result"}, s)) \o (Told(v, m, Of(SpokenKinds, s)) \o Told(v, m, Of({"call"}, s)))
    BY <1>1, <2>1, Regrouped
  <2> QED BY <2>2 DEF SpokenKinds
<1>n. m.role = "tool" => results = s
  <2>1. m.role = "tool" => \A i \in DOMAIN s : s[i].kind \in {"result"}
    BY DEF Canonical
  <2> HIDE DEF s
  <2> QED BY <1>1, <2>1, OfIs
<1> HIDE DEF results, texts, calls, s
<1>6. /\ AreMessages(tools) /\ ToldOf(w, tools) = Told(w, m, results)
      /\ \A i \in DOMAIN tools : tools[i].role = "tool"
  <2>1. m.role # "system"
    BY <1>1
  <2> QED BY <1>2, <1>3, <2>1, ToolMessages DEF Each
<1>7. Told(w, m, results) = Told(v, m, results)
  <2>1. NoTexts(results) /\ \A j \in DOMAIN results : results[j].kind # "thinking"
    BY <1>2 DEF NoTexts
  <2> QED BY <1>2, <2>1, OpenAITold
<1>8. IsSeq(tools)
  BY <1>6 DEF AreMessages
<1> HIDE DEF tools
<1>9. CASE m.role = "tool"
  <2>1. OpenAIWritten(m) = tools
    BY <1>4, <1>8, <1>9, ConcatNone
  <2>2. Told(v, m, s) = Told(v, m, results)
    BY <1>9, <1>n
  <2> QED BY <1>6, <1>7, <2>1, <2>2 DEF ToldIn, s
<1>10. CASE m.role # "tool"
  <2>1. OpenAIWritten(m) = tools \o <<l>>
    BY <1>4, <1>10
  <2>2. IsSeq(texts \o calls)
    BY <1>2, ConcatIs
  <2>3. IsMessage(l) /\ l.role = m.role /\ l.blocks = texts \o calls
    BY <2>2, MessageIs
  <2> HIDE DEF l
  <2>4. AreMessages(tools \o <<l>>) /\ ToldOf(w, tools \o <<l>>) = ToldOf(w, tools) \o ToldIn(w, l)
    BY <1>6, <2>3, ToldOfAppend
  <2>5. ToldIn(w, l) = Told(w, l, texts) \o Told(w, l, calls)
    BY <1>2, <2>3, ToldConcat DEF ToldIn
  <2>6. Told(w, l, texts) = Told(v, m, texts) /\ Told(w, l, calls) = Told(v, m, calls)
    BY <1>2, <1>10, <2>3, OpenAITold
  <2>7. ToldOf(w, OpenAIWritten(m)) = Told(v, m, s)
    BY <1>5, <1>6, <1>7, <2>1, <2>4, <2>5, <2>6
  <2>8. ASSUME NEW i \in DOMAIN (tools \o <<l>>) PROVE (tools \o <<l>>)[i].role # "system"
    <3> DEFINE o == <<l>>
    <3>1. IsSeq(o) /\ Len(o) = 1 /\ o[1] = l
      BY OneIs
    <3> HIDE DEF o
    <3>2. /\ IsSeq(tools \o o) /\ Len(tools \o o) = Len(tools) + Len(o)
          /\ \A k \in 1 .. Len(tools) + Len(o) : (tools \o o)[k] = IF k <= Len(tools) THEN tools[k] ELSE o[k - Len(tools)]
      BY <1>8, <3>1, ConcatIs
    <3>3. Len(tools) \in Nat /\ DOMAIN tools = 1 .. Len(tools) /\ i \in 1 .. Len(tools) + 1
      BY <1>8, <3>1, <3>2, SeqIs DEF o
    <3>4. CASE i <= Len(tools)
      <4>1. (tools \o o)[i] = tools[i] /\ i \in DOMAIN tools
        BY <3>1, <3>2, <3>3, <3>4
      <4>2. (tools \o o)[i].role = "tool"
        BY <1>6, <4>1
      <4> QED BY <4>2 DEF o
    <3>5. CASE ~ (i <= Len(tools))
      <4>1. i - Len(tools) = 1
        BY <3>3, <3>5
      <4>2. (tools \o o)[i] = l
        BY <3>1, <3>2, <3>3, <3>5, <4>1
      <4>3. l.role # "system"
        BY <1>1, <2>3
      <4> QED BY <4>2, <4>3 DEF o
    <3> QED BY <3>4, <3>5
  <2> QED BY <2>1, <2>4, <2>7, <2>8 DEF ToldIn, s
<1> QED BY <1>9, <1>10

\* A system prompt, as a body has it.
IsSystem(system) ==
  IsSeq(system) /\ \A i \in DOMAIN system : system[i] = [text |-> system[i].text, cached |-> system[i].cached]

\* The instructions, in messages of their own, tell nothing of the
\* conversation.
LEMMA SystemMessages ==
  ASSUME NEW system, IsSystem(system), NEW w
  PROVE  /\ AreMessages(Each(SystemMessage, system)) /\ ToldOf(w, Each(SystemMessage, system)) = <<>>
         /\ DOMAIN Each(SystemMessage, system) = DOMAIN system
         /\ \A i \in DOMAIN system : /\ Each(SystemMessage, system)[i] = SystemMessage(system[i])
                                     /\ SystemMessage(system[i]).role = "system"
                                     /\ SystemMessage(system[i]).blocks = <<TextBlock(system[i].text)>>
<1> DEFINE c == Each(SystemMessage, system)
           n == Len(system)
<1>1. n \in Nat /\ DOMAIN system = 1 .. n
  BY SeqIs DEF IsSystem
<1>2. c = [i \in 1 .. n |-> c[i]] /\ \A i \in 1 .. n : c[i] = SystemMessage(system[i])
  BY <1>1 DEF Each
<1> HIDE DEF c, n
<1>3. IsSeq(c) /\ Len(c) = n /\ DOMAIN c = 1 .. n
  BY <1>1, <1>2, ListIsSeq
<1>4. ASSUME NEW i \in 1 .. n
      PROVE  /\ IsMessage(c[i]) /\ ToldIn(w, c[i]) = <<>> /\ c[i].role = "system"
             /\ c[i].blocks = <<TextBlock(system[i].text)>>
  <2> DEFINE b == TextBlock(system[i].text)
             l == c[i]
  <2>1. l = Message("system", <<b>>)
    BY <1>2 DEF SystemMessage
  <2>2. b.kind = "text"
    BY DEF TextBlock
  <2> HIDE DEF b, l
  <2>3. IsMessage(l) /\ l.role = "system" /\ l.blocks = <<b>>
    BY <2>1, OneIs, MessageIs
  <2>4. Tells(w, l, b) = <<>>
    BY <2>2, <2>3 DEF Tells, Says, ActKnown, KindIn
  <2> QED BY <2>3, <2>4, ToldOne DEF ToldIn, b, l
<1>5. AreMessages(c)
  BY <1>3, <1>4 DEF AreMessages
<1>6. ToldOf(w, c) = <<>>
  <2> DEFINE t == [i \in DOMAIN c |-> ToldIn(w, c[i])]
  <2>1. t = [i \in 1 .. n |-> t[i]] /\ \A i \in 1 .. n : t[i] = <<>>
    BY <1>3, <1>4
  <2>2. ToldOf(w, c) = FlattenSeq(t)
    BY DEF ToldOf
  <2> HIDE DEF t
  <2>3. IsSeq(t) /\ DOMAIN t = 1 .. n
    BY <1>1, <2>1, ListIsSeq
  <2>4. IsSeqs(t)
    BY <2>1, <2>3, NoneIs DEF IsSeqs
  <2> QED BY <2>1, <2>2, <2>3, <2>4, FlattenEmpty
<1> QED BY <1>1, <1>2, <1>3, <1>4, <1>5, <1>6 DEF c

\* The messages written for OpenAI: the system prompt, and the conversation.
Instructed(system) == Each(SystemMessage, system)
Conversed(ms) == Gather(OpenAIWritten, ms)

\* What is written for OpenAI tells the same.
LEMMA OpenAIWrites ==
  ASSUME NEW ms, Canonicals(ms), NEW system, IsSystem(system), NEW w, NEW v, Writes("openai", w, v),
         NEW d, d = Conversed(ms)
  PROVE  /\ ToldOf(w, Instructed(system) \o d) = ToldOf(v, ms)
         /\ AreMessages(d) /\ \A i \in DOMAIN d : d[i].role # "system"
<1> DEFINE a == Each(SystemMessage, system)
           ss == Each(OpenAIWritten, ms)
           n == Len(ms)
<1>1. n \in Nat /\ DOMAIN ms = 1 .. n /\ \A i \in DOMAIN ms : Canonical(ms[i])
  BY SeqIs DEF Canonicals
<1>2. ss = [i \in 1 .. n |-> ss[i]] /\ \A i \in 1 .. n : ss[i] = OpenAIWritten(ms[i])
  BY <1>1 DEF Each
<1>3. d = FlattenSeq(ss)
  BY DEF Conversed, Gather
<1>4. AreMessages(a) /\ ToldOf(w, a) = <<>>
  BY SystemMessages
<1>5. Instructed(system) \o d = a \o d
  BY DEF Instructed
<1> HIDE DEF a, ss, n
<1>6. IsSeq(ss) /\ DOMAIN ss = 1 .. n
  BY <1>1, <1>2, ListIsSeq
<1>7. ASSUME NEW i \in 1 .. n
      PROVE  /\ AreMessages(ss[i]) /\ ToldOf(w, ss[i]) = ToldIn(v, ms[i])
             /\ \A j \in DOMAIN ss[i] : ss[i][j].role # "system"
  <2>1. Canonical(ms[i]) /\ ss[i] = OpenAIWritten(ms[i])
    BY <1>1, <1>2
  <2> QED BY <2>1, OpenAIWrittenTells
<1>8. IsSeqs(ss)
  BY <1>6, <1>7 DEF IsSeqs, AreMessages
<1>9. AreMessages(d) /\ ToldOf(w, d) = FlattenSeq([i \in DOMAIN ss |-> ToldOf(w, ss[i])])
  BY <1>3, <1>6, <1>7, <1>8, ToldOfFlatten
<1>10. ToldOf(w, d) = ToldOf(v, ms)
  <2>1. [i \in DOMAIN ss |-> ToldOf(w, ss[i])] = [i \in DOMAIN ms |-> ToldIn(v, ms[i])]
    BY <1>1, <1>6, <1>7
  <2> QED BY <1>9, <2>1 DEF ToldOf
<1>11. ToldOf(w, a \o d) = ToldOf(v, ms)
  <2>1. AreMessages(a \o d) /\ ToldOf(w, a \o d) = ToldOf(w, a) \o ToldOf(w, d)
    BY <1>4, <1>9, ToldOfConcat
  <2> QED BY <1>4, <1>9, <1>10, <2>1, ToldOfIsSeq, ConcatNone
<1>12. ASSUME NEW k \in DOMAIN d PROVE d[k].role # "system"
  <2>1. \A i \in 1 .. n : IsSeq(ss[i])
    BY <1>6, <1>8 DEF IsSeqs
  <2>2. ss = [i \in 1 .. n |-> ss[i]]
    BY <1>2
  <2>3. \A l \in DOMAIN FlattenSeq(ss) : \E i \in 1 .. n : \E j \in DOMAIN ss[i] : FlattenSeq(ss)[l] = ss[i][j]
    <3>1. n \in Nat
      BY <1>1
    <3> QED BY <2>1, <2>2, <3>1, FlattenIs
  <2> QED BY <1>3, <1>7, <2>3
<1> QED BY <1>5, <1>9, <1>11, <1>12

-----------------------------------------------------------------------------
(* What is written for Gemini.                                             *)

\* A part is the block under the name of its function.
LEMMA PartIs ==
  ASSUME NEW b, IsBlock(b)
  PROVE  /\ IsBlock(Part(b)) /\ Part(b).kind = b.kind /\ Part(b).text = b.text
         /\ b.kind \in {"call", "result"} => Part(b).name = FunctionName(b)
<1> DEFINE c == Part(b)
<1>1. CASE b.kind \in {"call", "result"}
  <2>1. b = [kind |-> b.kind, text |-> b.text, id |-> b.id, name |-> b.name]
    BY DEF IsBlock
  <2>2. c = [b EXCEPT !.name = FunctionName(b), !.id = NoId]
    BY <1>1 DEF Part
  <2> DEFINE name == FunctionName(b)
  <2> HIDE DEF name
  <2>3. c = [kind |-> b.kind, text |-> b.text, id |-> NoId, name |-> name]
    BY <2>1, <2>2 DEF name
  <2> HIDE DEF c
  <2>4. IsBlock(c) /\ c.kind = b.kind /\ c.text = b.text /\ c.name = name
    BY <2>3 DEF IsBlock
  <2> QED BY <2>4 DEF c, name
<1>2. CASE b.kind \notin {"call", "result"}
  BY <1>2 DEF Part
<1> QED BY <1>1, <1>2

\* A block that is written tells the same, one that is not tells nothing.
LEMMA GeminiBlock ==
  ASSUME NEW b, IsBlock(b), NEW l, NEW m, l.role \in {"model", "user"}, m.role # "system",
         m.role # "tool" \/ b.kind # "text", NEW w, NEW v, Writes("gemini", w, v)
  PROVE  /\ HasPart(b) => Tells(w, l, Part(b)) = Tells(v, m, b)
         /\ ~ HasPart(b) => Tells(v, m, b) = <<>>
<1> DEFINE c == Part(b)
<1>1. /\ c.kind = b.kind /\ c.text = b.text
      /\ b.kind \in {"call", "result"} => c.name = FunctionName(b)
  BY PartIs
<1> HIDE DEF c
<1>2. KindIn(l, c) = b.kind /\ KindIn(m, b) = b.kind /\ b.kind \in Kinds
  <2>1. b.kind \in Kinds
    BY DEF IsBlock
  <2> QED BY <1>1, <2>1 DEF KindIn
<1>3. CASE SaysInBoth("gemini", w, v)
  <2>1. PICK K : w = SaysOf(K) /\ v = SaysOf(K \cap Carries("gemini"))
    BY <1>3 DEF SaysInBoth
  <2>2. Carries("gemini") = {"text", "image", "call", "result"}
    BY DEF Carries
  <2>3. Tells(w, l, c) = Says(K, l, c) /\ Tells(v, m, b) = Says(K \cap Carries("gemini"), m, b)
    BY <2>1 DEF Tells, SaysOf
  <2>4. CASE HasPart(b)
    <3>1. b.kind \in Carries("gemini")
      BY <2>2, <2>4 DEF HasPart
    <3> QED BY <1>1, <1>2, <2>3, <2>4, <3>1 DEF Says, c
  <2>5. CASE ~ HasPart(b)
    <3>1. b.kind \notin Carries("gemini") \/ b.text.at = NoText.at
      BY <1>2, <2>2, <2>5 DEF HasPart, Kinds
    <3> QED BY <1>2, <2>3, <2>5, <3>1 DEF Says
  <2> QED BY <2>4, <2>5
<1>4. CASE w = Asks("name") /\ v = Asks("function")
  <2>1. Tells(w, l, c) = ActKnown(w, l, c) /\ Tells(v, m, b) = ActKnown(v, m, b)
    BY <1>4 DEF Tells, Asks
  <2>2. Known(w, l, c) = c.name /\ Known(v, m, b) = FunctionName(b)
    BY <1>4 DEF Known, Asks
  <2>3. ActKnown(w, l, c) = ActKnown(v, m, b)
    BY <1>1, <1>2, <2>2 DEF ActKnown
  <2>4. ~ HasPart(b) => ActKnown(v, m, b) = <<>>
    BY <1>2 DEF HasPart, ActKnown
  <2> QED BY <2>1, <2>3, <2>4 DEF c
<1> QED BY <1>3, <1>4 DEF Writes

\* A message written for Gemini tells the same.
LEMMA GeminiWrittenTells ==
  ASSUME NEW m, Canonical(m), NEW w, NEW v, Writes("gemini", w, v)
  PROVE  /\ IsMessage(GeminiWritten(m)) /\ GeminiWritten(m).role \in {"model", "user"}
         /\ ToldIn(w, GeminiWritten(m)) = ToldIn(v, m)
<1> DEFINE s == m.blocks
           P == {j \in DOMAIN s : HasPart(s[j])}
           p == Where(HasPart, s)
           c == Each(Part, p)
           o == OrEmptyText(c)
           l == GeminiWritten(m)
<1>1. Blocks(s) /\ IsSeq(s) /\ m.role \in {"user", "assistant", "tool"} /\ \A j \in DOMAIN s : IsBlock(s[j])
  BY DEF Canonical, Blocks
<1>2. p = Picked(s, P)
  <2>1. [i \in DOMAIN s |-> IF i \in P THEN <<s[i]>> ELSE <<>>] = [i \in DOMAIN s |-> IF HasPart(s[i]) THEN <<s[i]>> ELSE <<>>]
    OBVIOUS
  <2> HIDE DEF P
  <2> QED BY <2>1 DEF Where, Gather, Each, Picked
<1>3. l = Message(PartsRole(m), o)
  BY DEF GeminiWritten
<1>4. PartsRole(m) \in {"model", "user"}
  BY <1>1 DEF PartsRole, GeminiRole
<1>5. DOMAIN c = DOMAIN p /\ \A k \in DOMAIN p : c[k] = Part(p[k])
  BY DEF Each
<1>6. \A j \in DOMAIN s : j \in P <=> HasPart(s[j])
  OBVIOUS
<1>t. \A j \in DOMAIN s : m.role # "tool" \/ s[j].kind # "text"
  BY DEF Canonical
<1> HIDE DEF P, p, c, l, s
<1>7. IsSeq(p) /\ \A k \in DOMAIN p : \E i \in DOMAIN s : i \in P /\ p[k] = s[i]
  BY <1>1, <1>2, PickedIs
<1>8. ASSUME NEW k \in DOMAIN p
      PROVE  HasPart(p[k]) /\ IsBlock(p[k]) /\ (m.role # "tool" \/ p[k].kind # "text") /\ IsBlock(c[k])
  <2>1. PICK i \in DOMAIN s : i \in P /\ p[k] = s[i]
    BY <1>7
  <2>2. HasPart(p[k]) /\ IsBlock(p[k]) /\ (m.role # "tool" \/ p[k].kind # "text")
    BY <1>1, <1>6, <1>t, <2>1
  <2> QED BY <1>5, <2>2, PartIs
<1>9. IsSeq(c) /\ Blocks(c)
  <2>1. Len(p) \in Nat /\ DOMAIN p = 1 .. Len(p)
    BY <1>7, SeqIs
  <2>2. c = [k \in 1 .. Len(p) |-> c[k]]
    <3>1. c = [k \in DOMAIN p |-> Part(p[k])]
      BY DEF c, Each
    <3> QED BY <2>1, <3>1
  <2>3. IsSeq(c)
    BY <2>1, <2>2, ListIsSeq
  <2> QED BY <1>5, <1>8, <2>3 DEF Blocks
<1>10. Blocks(o) /\ IsSeq(o)
  <2> DEFINE x == [role |-> "user", blocks |-> <<>>, answers |-> NoId]
  <2>1. x.role # "tool"
    OBVIOUS
  <2> HIDE DEF x
  <2>2. Blocks(OrEmptyText(c))
    BY <1>9, <2>1, OrEmptyTells
  <2> QED BY <2>2 DEF Blocks
<1> HIDE DEF o
<1>11. IsMessage(l) /\ l.role \in {"model", "user"} /\ l.blocks = o
  BY <1>3, <1>4, <1>10, MessageIs
<1>12. Told(w, l, o) = Told(w, l, c)
  <2>1. l.role # "tool"
    BY <1>11
  <2> QED BY <1>9, <2>1, OrEmptyTells DEF o
<1>13. Told(w, l, c) = Told(v, m, p)
  <2>1. ASSUME NEW k \in DOMAIN p PROVE Tells(w, l, c[k]) = Tells(v, m, p[k])
    <3> DEFINE b == p[k]
    <3>1. HasPart(b) /\ IsBlock(b) /\ (m.role # "tool" \/ b.kind # "text") /\ c[k] = Part(b) /\ m.role # "system"
      BY <1>1, <1>5, <1>8
    <3> HIDE DEF b
    <3>2. Tells(w, l, Part(b)) = Tells(v, m, b)
      BY <1>11, <3>1, GeminiBlock
    <3> QED BY <3>1, <3>2 DEF b
  <2> QED BY <1>5, <2>1, ToldMapped
<1>14. Told(v, m, p) = Told(v, m, s)
  <2>1. ASSUME NEW j \in DOMAIN s PROVE Tells(v, m, s[j]) = IF j \in P THEN Tells(v, m, s[j]) ELSE <<>>
    <3> DEFINE b == s[j]
    <3>1. IsBlock(b) /\ (m.role # "tool" \/ b.kind # "text") /\ m.role # "system" /\ (j \in P <=> HasPart(b))
      BY <1>1, <1>6, <1>t
    <3> HIDE DEF b
    <3>2. ~ HasPart(b) => Tells(v, m, b) = <<>>
      BY <1>11, <3>1, GeminiBlock
    <3> QED BY <3>1, <3>2 DEF b
  <2> QED BY <1>1, <1>2, <2>1, ToldChosen
<1> QED BY <1>11, <1>12, <1>13, <1>14 DEF ToldIn, l, s

\* So do all of them.
LEMMA GeminiWrites ==
  ASSUME NEW ms, Canonicals(ms), NEW w, NEW v, Writes("gemini", w, v),
         NEW r, r = Each(GeminiWritten, ms)
  PROVE  /\ ToldOf(w, r) = ToldOf(v, ms) /\ AreMessages(r) /\ \A i \in DOMAIN r : r[i].role # "system"
<1>1. IsSeq(ms) /\ Len(ms) \in Nat /\ DOMAIN ms = 1 .. Len(ms) /\ \A i \in DOMAIN ms : Canonical(ms[i])
  BY SeqIs DEF Canonicals
<1>2. r = [i \in 1 .. Len(ms) |-> r[i]] /\ \A i \in 1 .. Len(ms) : r[i] = GeminiWritten(ms[i])
  BY <1>1 DEF Each
<1>3. IsSeq(r) /\ Len(r) = Len(ms) /\ DOMAIN r = 1 .. Len(ms)
  BY <1>1, <1>2, ListIsSeq
<1>4. ASSUME NEW i \in DOMAIN ms
      PROVE  ToldIn(w, r[i]) = ToldIn(v, ms[i]) /\ IsMessage(r[i]) /\ r[i].role # "system"
  <2>1. Canonical(ms[i]) /\ r[i] = GeminiWritten(ms[i])
    BY <1>1, <1>2
  <2>2. ToldIn(w, r[i]) = ToldIn(v, ms[i]) /\ IsMessage(r[i]) /\ r[i].role \in {"model", "user"}
    BY <2>1, GeminiWrittenTells
  <2> QED BY <2>2
<1>5. ToldOf(w, r) = ToldOf(v, ms)
  BY <1>1, <1>3, <1>4, ToldOfMapped
<1> QED BY <1>1, <1>3, <1>4, <1>5 DEF AreMessages

-----------------------------------------------------------------------------
(* What is written for Responses.                                          *)

\* The blocks that are kept: the texts that are not empty.
IsSaid(b) == b.kind = "text" /\ b.text # NoText

\* What is kept of a message tells what the message does, when asked of
\* texts only; an answer of a tool, which is no text here, is dropped.
LEMMA SaidTells ==
  ASSUME NEW m, IsMessage(m), Blocks(m.blocks), Plain(m), NEW w, NEW v,
         \A j \in DOMAIN m.blocks :
           Tells(v, m, m.blocks[j]) = IF IsSaid(m.blocks[j]) THEN Tells(w, m, m.blocks[j]) ELSE <<>>
  PROVE  /\ IsMessage(Said(m)) /\ Said(m).role = m.role /\ Blocks(Said(m).blocks)
         /\ \A k \in DOMAIN Said(m).blocks : Said(m).blocks[k].kind = "text"
         /\ m.role = "tool" => Said(m).blocks = <<>>
         /\ ToldIn(w, Said(m)) = ToldIn(v, m)
<1> DEFINE s == m.blocks
           P == {j \in DOMAIN s : IsSaid(s[j])}
           p == Where(LAMBDA b : b.kind = "text" /\ b.text # NoText, s)
           l == Said(m)
<1>1. IsSeq(s) /\ \A j \in DOMAIN s : IsBlock(s[j])
  BY DEF Blocks
<1>2. p = Picked(s, P)
  <2>1. [i \in DOMAIN s |-> IF i \in P THEN <<s[i]>> ELSE <<>>]
          = [i \in DOMAIN s |-> IF s[i].kind = "text" /\ s[i].text # NoText THEN <<s[i]>> ELSE <<>>]
    BY DEF IsSaid
  <2> HIDE DEF P
  <2> QED BY <2>1 DEF Where, Gather, Each, Picked
<1>3. l = Message(m.role, p)
  BY DEF Said
<1>4. \A j \in DOMAIN s : j \in P <=> IsSaid(s[j])
  OBVIOUS
<1>5. \A j \in DOMAIN s : m.role # "tool" \/ s[j].kind # "text"
  BY DEF Plain, NoTexts
<1>6. \A j \in DOMAIN s : Tells(v, m, s[j]) = IF IsSaid(s[j]) THEN Tells(w, m, s[j]) ELSE <<>>
  OBVIOUS
<1> HIDE DEF P, p, l, s
<1>7. /\ IsSeq(p) /\ \A k \in DOMAIN p : \E i \in DOMAIN s : i \in P /\ p[k] = s[i]
      /\ (\A i \in DOMAIN s : i \notin P) => p = <<>>
  BY <1>1, <1>2, PickedIs
<1>8. ASSUME NEW k \in DOMAIN p PROVE IsBlock(p[k]) /\ p[k].kind = "text"
  <2>1. PICK i \in DOMAIN s : i \in P /\ p[k] = s[i]
    BY <1>7
  <2> QED BY <1>1, <1>4, <2>1 DEF IsSaid
<1>9. Blocks(p)
  BY <1>7, <1>8 DEF Blocks
<1>10. IsMessage(l) /\ l.role = m.role /\ l.blocks = p
  BY <1>3, <1>7, MessageIs
<1>11. m.role = "tool" => p = <<>>
  BY <1>4, <1>5, <1>7 DEF IsSaid
<1>12. ASSUME NEW j \in DOMAIN s
       PROVE  Tells(v, m, s[j]) = IF j \in P THEN Tells(w, l, s[j]) ELSE <<>>
  <2>1. CASE j \notin P
    BY <1>4, <1>6, <2>1
  <2>2. CASE j \in P
    <3> DEFINE b == s[j]
    <3>1. b.kind = "text" /\ m.role # "tool" /\ Tells(v, m, b) = Tells(w, m, b)
      BY <1>4, <1>5, <1>6, <2>2 DEF IsSaid
    <3> HIDE DEF b
    <3>2. KindIn(l, b) = KindIn(m, b) /\ Known(w, l, b) = Known(w, m, b)
      BY <1>10, <3>1 DEF KindIn, Known
    <3>3. Tells(w, l, b) = Tells(w, m, b)
      BY <1>10, <3>2 DEF Tells, Says, ActKnown
    <3> QED BY <2>2, <3>1, <3>3 DEF b
  <2> QED BY <2>1, <2>2
<1>13. Told(w, l, p) = Told(v, m, s)
  BY <1>1, <1>2, <1>12, ToldChosen
<1> QED BY <1>8, <1>9, <1>10, <1>11, <1>13 DEF ToldIn, l, s

\* So do the messages that have something to say.
LEMMA SpokenTells ==
  ASSUME NEW ms, AreMessages(ms), NEW w, NEW v,
         \A i \in DOMAIN ms : Blocks(ms[i].blocks) /\ Plain(ms[i]),
         \A i \in DOMAIN ms : \A j \in DOMAIN ms[i].blocks :
           Tells(v, ms[i], ms[i].blocks[j]) = IF IsSaid(ms[i].blocks[j]) THEN Tells(w, ms[i], ms[i].blocks[j]) ELSE <<>>
  PROVE  /\ AreMessages(Spoken(ms)) /\ ToldOf(w, Spoken(ms)) = ToldOf(v, ms)
         /\ \A k \in DOMAIN Spoken(ms) :
              /\ Spoken(ms)[k].role # "tool" /\ Blocks(Spoken(ms)[k].blocks)
              /\ \A j \in DOMAIN Spoken(ms)[k].blocks : Spoken(ms)[k].blocks[j].kind = "text"
              /\ \E i \in DOMAIN ms : Spoken(ms)[k].role = ms[i].role
<1> DEFINE n == Len(ms)
           c == [i \in DOMAIN ms |-> Said(ms[i])]
           ss == [i \in DOMAIN ms |-> IF c[i].blocks # <<>> THEN <<c[i]>> ELSE <<>>]
           r == Spoken(ms)
<1>1. n \in Nat /\ DOMAIN ms = 1 .. n /\ \A i \in DOMAIN ms : IsMessage(ms[i])
  BY SeqIs DEF AreMessages
<1>2. r = FlattenSeq(ss)
  <2>1. Each(Said, ms) = c
    BY DEF Each
  <2>2. DOMAIN c = DOMAIN ms
    OBVIOUS
  <2>3. Spoken(ms) = FlattenSeq([i \in DOMAIN c |-> IF c[i].blocks # <<>> THEN <<c[i]>> ELSE <<>>])
    <3> HIDE DEF c
    <3> QED BY <2>1 DEF Spoken, Where, Gather, Each
  <2> QED BY <2>2, <2>3
<1>3. \A i \in DOMAIN ms : c[i] = Said(ms[i])
  OBVIOUS
<1>4. ss = [i \in 1 .. n |-> ss[i]] /\ \A i \in 1 .. n : ss[i] = IF c[i].blocks # <<>> THEN <<c[i]>> ELSE <<>>
  BY <1>1
<1> HIDE DEF c, ss, r, n
<1>5. ASSUME NEW i \in DOMAIN ms
      PROVE  /\ IsMessage(c[i]) /\ c[i].role = ms[i].role /\ Blocks(c[i].blocks)
             /\ \A k \in DOMAIN c[i].blocks : c[i].blocks[k].kind = "text"
             /\ ms[i].role = "tool" => c[i].blocks = <<>>
             /\ ToldIn(w, c[i]) = ToldIn(v, ms[i])
  <2> DEFINE m == ms[i]
  <2>1. /\ IsMessage(m) /\ Blocks(m.blocks) /\ Plain(m) /\ c[i] = Said(m)
        /\ \A j \in DOMAIN m.blocks : Tells(v, m, m.blocks[j]) = IF IsSaid(m.blocks[j]) THEN Tells(w, m, m.blocks[j]) ELSE <<>>
    BY <1>1, <1>3
  <2> HIDE DEF m
  <2>2. /\ IsMessage(Said(m)) /\ Said(m).role = m.role /\ Blocks(Said(m).blocks)
        /\ \A k \in DOMAIN Said(m).blocks : Said(m).blocks[k].kind = "text"
        /\ m.role = "tool" => Said(m).blocks = <<>>
        /\ ToldIn(w, Said(m)) = ToldIn(v, m)
    BY <2>1, SaidTells
  <2> QED BY <2>1, <2>2 DEF m
<1>6. IsSeq(ss) /\ DOMAIN ss = 1 .. n
  BY <1>1, <1>4, ListIsSeq
<1>7. ASSUME NEW i \in 1 .. n
      PROVE  AreMessages(ss[i]) /\ ToldOf(w, ss[i]) = ToldIn(v, ms[i])
  <2>1. CASE c[i].blocks # <<>>
    <3>1. ss[i] = <<c[i]>> /\ IsMessage(c[i]) /\ ToldIn(w, c[i]) = ToldIn(v, ms[i])
      BY <1>1, <1>4, <1>5, <2>1
    <3> QED BY <3>1, ToldOfOne
  <2>2. CASE c[i].blocks = <<>>
    <3>1. ss[i] = <<>> /\ ToldIn(w, c[i]) = ToldIn(v, ms[i])
      BY <1>1, <1>4, <1>5, <2>2
    <3>2. ToldIn(w, c[i]) = <<>>
      BY <2>2, ToldNone DEF ToldIn
    <3>3. AreMessages(<<>>)
      BY NoneIs DEF AreMessages
    <3> QED BY <3>1, <3>2, <3>3, ToldOfNone
  <2> QED BY <2>1, <2>2
<1>8. IsSeqs(ss)
  BY <1>6, <1>7 DEF IsSeqs, AreMessages
<1>9. AreMessages(r) /\ ToldOf(w, r) = FlattenSeq([i \in DOMAIN ss |-> ToldOf(w, ss[i])])
  BY <1>2, <1>6, <1>7, <1>8, ToldOfFlatten
<1>10. ToldOf(w, r) = ToldOf(v, ms)
  <2>1. [i \in DOMAIN ss |-> ToldOf(w, ss[i])] = [i \in DOMAIN ms |-> ToldIn(v, ms[i])]
    BY <1>1, <1>6, <1>7
  <2> QED BY <1>9, <2>1 DEF ToldOf
<1>11. ASSUME NEW k \in DOMAIN r
       PROVE  /\ r[k].role # "tool" /\ Blocks(r[k].blocks)
              /\ \A j \in DOMAIN r[k].blocks : r[k].blocks[j].kind = "text"
              /\ \E i \in DOMAIN ms : r[k].role = ms[i].role
  <2>1. \A l \in DOMAIN FlattenSeq(ss) : \E i \in DOMAIN ss : \E j \in DOMAIN ss[i] : FlattenSeq(ss)[l] = ss[i][j]
    BY <1>8, FlattenFrom
  <2>2. PICK i \in 1 .. n : \E j \in DOMAIN ss[i] : r[k] = ss[i][j]
    BY <1>2, <1>6, <2>1
  <2>3. PICK j \in DOMAIN ss[i] : r[k] = ss[i][j]
    BY <2>2
  <2>4. c[i].blocks # <<>> /\ ss[i] = <<c[i]>>
    BY <1>4, <2>3, NoneIs
  <2>5. r[k] = c[i] /\ i \in DOMAIN ms
    BY <1>1, <2>3, <2>4, OneIs
  <2> QED BY <1>5, <2>4, <2>5
<1> QED BY <1>9, <1>10, <1>11 DEF r

\* What is written for Responses tells the texts of the canonical request.
LEMMA ResponsesWrites ==
  ASSUME NEW ms, Canonicals(ms), NEW w, NEW v, Writes("responses", w, v)
  PROVE  /\ ToldOf(w, Spoken(ms)) = ToldOf(v, ms) /\ AreMessages(Spoken(ms))
         /\ \A i \in DOMAIN Spoken(ms) : Spoken(ms)[i].role # "system"
<1>1. AreMessages(ms) /\ \A i \in DOMAIN ms : Canonical(ms[i])
  BY CanonicalsAreMessages DEF Canonicals
<1>2. ASSUME NEW i \in DOMAIN ms PROVE Blocks(ms[i].blocks) /\ Plain(ms[i]) /\ ms[i].role # "system"
  <2>1. Canonical(ms[i])
    BY <1>1
  <2> DEFINE m == ms[i]
  <2> HIDE DEF m
  <2>2. Canonical(m)
    BY <2>1 DEF m
  <2>3. Blocks(m.blocks) /\ Plain(m) /\ m.role # "system"
    BY <2>2 DEF Canonical, Plain, NoTexts
  <2> QED BY <2>3 DEF m
<1>3. ASSUME NEW m, Canonical(m), NEW b, IsBlock(b), m.role # "tool" \/ b.kind # "text"
      PROVE  Tells(v, m, b) = IF IsSaid(b) THEN Tells(w, m, b) ELSE <<>>
  <2>1. KindIn(m, b) = b.kind
    BY <1>3 DEF KindIn
  <2>2. CASE SaysInBoth("responses", w, v)
    <3>1. PICK K : w = SaysOf(K) /\ v = SaysOf(K \cap Carries("responses"))
      BY <2>2 DEF SaysInBoth
    <3>2. Carries("responses") = {"text"}
      BY DEF Carries
    <3>3. Tells(w, m, b) = Says(K, m, b) /\ Tells(v, m, b) = Says(K \cap Carries("responses"), m, b)
      BY <3>1 DEF Tells, SaysOf
    <3>4. ~ IsSaid(b) => b.kind # "text" \/ b.text.at = NoText.at
      BY DEF IsSaid
    <3>5. IsSaid(b) => b.kind = "text"
      BY DEF IsSaid
    <3> QED BY <2>1, <3>2, <3>3, <3>4, <3>5 DEF Says
  <2>3. CASE w = Asks("id") /\ v = SaysOf({})
    <3>1. Tells(v, m, b) = <<>>
      BY <2>3 DEF Tells, SaysOf, Says
    <3>2. IsSaid(b) => Tells(w, m, b) = <<>>
      BY <2>1, <2>3 DEF Tells, Asks, ActKnown, IsSaid
    <3> QED BY <3>1, <3>2
  <2> QED BY <2>2, <2>3 DEF Writes
<1>4. ASSUME NEW i \in DOMAIN ms, NEW j \in DOMAIN ms[i].blocks
      PROVE  Tells(v, ms[i], ms[i].blocks[j]) = IF IsSaid(ms[i].blocks[j]) THEN Tells(w, ms[i], ms[i].blocks[j]) ELSE <<>>
  <2>1. Canonical(ms[i]) /\ IsBlock(ms[i].blocks[j]) /\ (ms[i].role # "tool" \/ ms[i].blocks[j].kind # "text")
    BY <1>1, <1>2 DEF Blocks, Plain, NoTexts
  <2> QED BY <1>3, <2>1
<1>5. /\ AreMessages(Spoken(ms)) /\ ToldOf(w, Spoken(ms)) = ToldOf(v, ms)
      /\ \A k \in DOMAIN Spoken(ms) : \E i \in DOMAIN ms : Spoken(ms)[k].role = ms[i].role
  BY <1>1, <1>2, <1>4, SpokenTells
<1> QED BY <1>2, <1>5

-----------------------------------------------------------------------------
(* What is read from a client.                                             *)

\* A message a client sends.
Sent(f, m) ==
  /\ IsMessage(m) /\ Blocks(m.blocks) /\ InOrder(m.blocks)
  /\ f \in {"claude", "responses"} => m.role \in {"user", "assistant"}
  /\ f = "gemini" => m.role \in {"user", "model"}
  /\ f \in {"gemini", "responses"} => \A j \in DOMAIN m.blocks : m.blocks[j].kind \in Carries(f)
  /\ f = "openai" =>
       /\ m.role \in {"user", "assistant", "tool", "system"}
       /\ m.role \in {"tool", "system"} => \E t : m.blocks = <<TextBlock(t)>>
       /\ m.role \notin {"tool", "system"} => \A j \in DOMAIN m.blocks : m.blocks[j].kind \notin {"result", "thinking"}
SentAll(f, ms) == IsSeq(ms) /\ \A i \in DOMAIN ms : Sent(f, ms[i])

\* Asked w, the canonical request tells what the client's of format f does
\* asked v.
Reads(f, w, v) ==
  \/ SaysInBoth(f, w, v)
  \/ f \in {"claude", "openai", "responses"} /\ w = Asks("id") /\ v = Asks("id")
  \/ f = "gemini" /\ w = Asks("id") /\ v = Asks("madeId")
  \/ f = "gemini" /\ w = Asks("function") /\ v = Asks("name")

\* A message read block by block.
LEMMA ParsedTells ==
  ASSUME NEW s, Blocks(s), InOrder(s), NEW c, c = [j \in DOMAIN s |-> c[j]], NEW role \in {"user", "assistant"},
         NEW l, l = Message(role, OrEmptyText(c)), NEW w, NEW v, NEW m,
         \A j \in DOMAIN s :
           /\ IsBlock(c[j]) /\ (c[j].kind = "result" <=> s[j].kind = "result") /\ (c[j].kind = "call" <=> s[j].kind = "call")
           /\ \A k : k.role = role => Tells(w, k, c[j]) = Tells(v, m, s[j])
  PROVE  Canonical(l) /\ ToldIn(w, l) = Told(v, m, s)
<1>1. IsSeq(c) /\ Len(c) = Len(s) /\ DOMAIN c = DOMAIN s
  BY MapIs DEF Blocks
<1>2. Blocks(c) /\ InOrder(c)
  BY <1>1 DEF Blocks, InOrder
<1> DEFINE k == [role |-> role, blocks |-> c, answers |-> NoId]
           o == OrEmptyText(c)
<1>3. k.role = role /\ k.role # "tool"
  OBVIOUS
<1> HIDE DEF k
<1>4. Blocks(o) /\ InOrder(o) /\ IsSeq(o)
  <2>1. Blocks(o) /\ InOrder(o)
    BY <1>2, <1>3, OrEmptyTells
  <2> QED BY <2>1 DEF Blocks
<1>5. IsMessage(l) /\ l.role = role /\ l.blocks = o
  BY <1>4, MessageIs
<1>6. Told(w, l, o) = Told(w, l, c)
  BY <1>2, <1>5, OrEmptyTells
<1>7. Told(w, l, c) = Told(v, m, s)
  BY <1>1, <1>5, ToldMapped
<1>8. Canonical(l)
  BY <1>4, <1>5 DEF Canonical
<1> QED BY <1>5, <1>6, <1>7, <1>8 DEF ToldIn

\* A message of Claude's client.
LEMMA ClaudeParsedTells ==
  ASSUME NEW m, Sent("claude", m), NEW w, NEW v, Reads("claude", w, v)
  PROVE  Canonical(ClaudeParsed(m)) /\ ToldIn(w, ClaudeParsed(m)) = ToldIn(v, m)
<1> DEFINE s == m.blocks
           c == [j \in DOMAIN s |-> DataOnly(s[j])]
           l == ClaudeParsed(m)
<1>1. Blocks(s) /\ InOrder(s) /\ m.role \in {"user", "assistant"}
  BY DEF Sent
<1>2. l = Message(m.role, OrEmptyText(c))
  BY DEF ClaudeParsed, Each
<1>3. c = [j \in DOMAIN s |-> c[j]] /\ \A j \in DOMAIN s : c[j] = DataOnly(s[j])
  OBVIOUS
<1>4. SaysInBoth("claude", w, v) \/ (w = Asks("id") /\ v = Asks("id"))
  BY DEF Reads
<1> HIDE DEF c, l, s
<1>5. ASSUME NEW j \in DOMAIN s
      PROVE  /\ IsBlock(c[j]) /\ (c[j].kind = "result" <=> s[j].kind = "result") /\ (c[j].kind = "call" <=> s[j].kind = "call")
             /\ \A k : k.role = m.role => Tells(w, k, c[j]) = Tells(v, m, s[j])
  <2> DEFINE b == s[j]
  <2>1. IsBlock(b) /\ c[j] = DataOnly(b)
    BY <1>1, <1>3 DEF Blocks
  <2> HIDE DEF b
  <2>2. ASSUME NEW k, k.role = m.role
        PROVE  /\ Tells(w, k, DataOnly(b)) = Tells(v, m, b) /\ IsBlock(DataOnly(b))
               /\ DataOnly(b).kind = IF b.kind = "imageurl" THEN "image" ELSE b.kind
    BY <1>1, <1>4, <2>1, <2>2, ClaudeBlock
  <2>3. IsBlock(DataOnly(b)) /\ DataOnly(b).kind = IF b.kind = "imageurl" THEN "image" ELSE b.kind
    BY <2>2
  <2> QED BY <2>1, <2>2, <2>3 DEF b
<1>6. Canonical(l) /\ ToldIn(w, l) = Told(v, m, s)
  BY <1>1, <1>2, <1>3, <1>5, ParsedTells
<1> QED BY <1>6 DEF l, s, ToldIn

\* A block is identified by the name of its function, which can be had back
\* of the id.
LEMMA IdentifiedIs ==
  ASSUME NEW b, IsBlock(b)
  PROVE  /\ IsBlock(Identified(b)) /\ Identified(b).kind = b.kind /\ Identified(b).text = b.text
         /\ b.kind \in {"call", "result"} =>
              Identified(b).id = GeminiId(b.name) /\ FunctionName(Identified(b)) = b.name
<1> DEFINE c == Identified(b)
<1>1. CASE b.kind \in {"call", "result"}
  <2> DEFINE id == GeminiId(b.name)
  <2>1. b = [kind |-> b.kind, text |-> b.text, id |-> b.id, name |-> b.name]
    BY DEF IsBlock
  <2>2. c = [b EXCEPT !.id = id, !.name = IF b.kind = "call" THEN @ ELSE <<>>]
    BY <1>1 DEF Identified
  <2>3. id.stem = b.name
    BY DEF GeminiId
  <2> HIDE DEF id
  <2>4. c = [kind |-> b.kind, text |-> b.text, id |-> id, name |-> IF b.kind = "call" THEN b.name ELSE <<>>]
    BY <2>1, <2>2
  <2> HIDE DEF c
  <2>5. IsBlock(c) /\ c.kind = b.kind /\ c.text = b.text /\ c.id = id /\ c.name = IF b.kind = "call" THEN b.name ELSE <<>>
    BY <2>4 DEF IsBlock
  <2>6. FunctionName(c) = b.name
    BY <2>3, <2>5 DEF FunctionName
  <2> QED BY <2>5, <2>6 DEF c, id
<1>2. CASE b.kind \notin {"call", "result"}
  BY <1>2 DEF Identified
<1> QED BY <1>1, <1>2

\* A message of Gemini's client.
LEMMA GeminiParsedTells ==
  ASSUME NEW m, Sent("gemini", m), NEW w, NEW v, Reads("gemini", w, v)
  PROVE  Canonical(GeminiParsed(m)) /\ ToldIn(w, GeminiParsed(m)) = ToldIn(v, m)
<1> DEFINE s == m.blocks
           c == [j \in DOMAIN s |-> Identified(s[j])]
           l == GeminiParsed(m)
           role == FromGeminiRole(m.role)
<1>1. Blocks(s) /\ InOrder(s) /\ m.role \in {"user", "model"} /\ \A j \in DOMAIN s : s[j].kind \in Carries("gemini")
  BY DEF Sent
<1>2. l = Message(role, OrEmptyText(c))
  BY DEF GeminiParsed, Each
<1>3. c = [j \in DOMAIN s |-> c[j]] /\ \A j \in DOMAIN s : c[j] = Identified(s[j])
  OBVIOUS
<1>4. role \in {"user", "assistant"}
  BY <1>1 DEF FromGeminiRole
<1> HIDE DEF c, l, s, role
<1>5. ASSUME NEW j \in DOMAIN s
      PROVE  /\ IsBlock(c[j]) /\ (c[j].kind = "result" <=> s[j].kind = "result") /\ (c[j].kind = "call" <=> s[j].kind = "call")
             /\ \A k : k.role = role => Tells(w, k, c[j]) = Tells(v, m, s[j])
  <2> DEFINE b == s[j]
             x == c[j]
  <2>1. IsBlock(b) /\ x = Identified(b) /\ b.kind \in Carries("gemini")
    BY <1>1, <1>3 DEF Blocks
  <2> HIDE DEF b, x
  <2>2. /\ IsBlock(x) /\ x.kind = b.kind /\ x.text = b.text
        /\ b.kind \in {"call", "result"} => x.id = GeminiId(b.name) /\ FunctionName(x) = b.name
    BY <2>1, IdentifiedIs
  <2>3. ASSUME NEW k, k.role = role PROVE Tells(w, k, x) = Tells(v, m, b)
    <3>1. KindIn(k, x) = b.kind /\ KindIn(m, b) = b.kind
      BY <1>1, <1>4, <2>2, <2>3 DEF KindIn
    <3>2. CASE SaysInBoth("gemini", w, v)
      <4>1. PICK K : w = SaysOf(K) /\ v = SaysOf(K \cap Carries("gemini"))
        BY <3>2 DEF SaysInBoth
      <4>2. Tells(w, k, x) = Says(K, k, x) /\ Tells(v, m, b) = Says(K \cap Carries("gemini"), m, b)
        BY <4>1 DEF Tells, SaysOf
      <4> QED BY <1>1, <1>4, <2>1, <2>2, <2>3, <3>1, <4>2 DEF Says
    <3>3. CASE w = Asks("id") /\ v = Asks("madeId")
      <4>1. Tells(w, k, x) = ActKnown(w, k, x) /\ Tells(v, m, b) = ActKnown(v, m, b)
        BY <3>3 DEF Tells, Asks
      <4>2. Known(v, m, b) = GeminiId(b.name)
        BY <3>3 DEF Known, Asks
      <4>3. Known(w, k, x) = x.id
        BY <1>4, <2>3, <3>3 DEF Known, Asks
      <4> QED BY <2>2, <3>1, <4>1, <4>2, <4>3 DEF ActKnown
    <3>4. CASE w = Asks("function") /\ v = Asks("name")
      <4>1. Tells(w, k, x) = ActKnown(w, k, x) /\ Tells(v, m, b) = ActKnown(v, m, b)
        BY <3>4 DEF Tells, Asks
      <4>2. Known(v, m, b) = b.name /\ Known(w, k, x) = FunctionName(x)
        BY <3>4 DEF Known, Asks
      <4> QED BY <2>2, <3>1, <4>1, <4>2 DEF ActKnown
    <3> QED BY <3>2, <3>3, <3>4 DEF Reads
  <2> QED BY <2>2, <2>3 DEF b, x
<1>6. Canonical(l) /\ ToldIn(w, l) = Told(v, m, s)
  <2>1. Blocks(s) /\ InOrder(s)
    BY <1>1
  <2>2. c = [j \in DOMAIN s |-> c[j]]
    BY <1>3
  <2> QED BY <1>2, <1>4, <1>5, <2>1, <2>2, ParsedTells, SMTT(30)
<1> QED BY <1>6 DEF l, s, ToldIn

\* Messages read one by one.
LEMMA EachParsed ==
  ASSUME NEW ms, IsSeq(ms), NEW c, c = [i \in DOMAIN ms |-> c[i]], NEW w, NEW v,
         \A i \in DOMAIN ms : Canonical(c[i]) /\ ToldIn(w, c[i]) = ToldIn(v, ms[i])
  PROVE  Canonicals(c) /\ ToldOf(w, c) = ToldOf(v, ms)
<1>1. IsSeq(c) /\ DOMAIN c = DOMAIN ms
  BY MapIs
<1>2. Canonicals(c)
  BY <1>1 DEF Canonicals
<1> QED BY <1>1, <1>2, ToldOfMapped

-----------------------------------------------------------------------------
(* What is read from a client of OpenAI.                                   *)

\* The first text of a message with one.
LEMMA FirstTextIs ==
  ASSUME NEW t, Blocks(<<TextBlock(t)>>)
  PROVE  FirstText(<<TextBlock(t)>>) = t
<1> DEFINE x == TextBlock(t)
           s == <<x>>
<1>1. x.kind = "text" /\ x.text = t
  BY DEF TextBlock
<1> HIDE DEF x
<1>2. s[1] = x /\ s # <<>> /\ DOMAIN s = {1}
  BY OneIs
<1>3. \A i \in DOMAIN s : s[i].kind \in {"text"}
  BY <1>1, <1>2
<1> HIDE DEF s
<1>4. Of({"text"}, s) = s
  <2>1. Blocks(s)
    BY DEF s, x
  <2> QED BY <1>3, <2>1, OfIs
<1> QED BY <1>1, <1>2, <1>4 DEF FirstText, s, x

\* A message of OpenAI's client: instructions are taken out, the answer of a
\* tool is put under the id of its call, the rest is put in order.
LEMMA OpenAIParsedTells ==
  ASSUME NEW m, Sent("openai", m), NEW w, NEW v, Reads("openai", w, v)
  PROVE  Canonicals(OpenAIParsed(m)) /\ ToldOf(w, OpenAIParsed(m)) = ToldIn(v, m)
<1>0. /\ IsMessage(m) /\ Blocks(m.blocks) /\ InOrder(m.blocks) /\ m.role \in {"user", "assistant", "tool", "system"}
      /\ m.role \in {"tool", "system"} => \E t : m.blocks = <<TextBlock(t)>>
      /\ m.role \notin {"tool", "system"} => \A j \in DOMAIN m.blocks : m.blocks[j].kind \notin {"result", "thinking"}
  BY DEF Sent
<1>r. Writes("openai", w, v)
  BY DEF Reads, Writes
<1>1. CASE m.role = "system"
  <2>1. PICK t : m.blocks = <<TextBlock(t)>>
    BY <1>0, <1>1
  <2> DEFINE x == TextBlock(t)
  <2>2. x.kind = "text"
    BY DEF TextBlock
  <2> HIDE DEF x
  <2>3. Tells(v, m, x) = <<>>
    BY <1>1, <2>2 DEF Tells, Says, ActKnown, KindIn
  <2>4. ToldIn(v, m) = <<>>
    BY <2>1, <2>3, ToldOne DEF ToldIn, x
  <2>5. OpenAIParsed(m) = <<>>
    BY <1>1 DEF OpenAIParsed
  <2> QED BY <2>4, <2>5, ToldOfNone, NoneIs DEF Canonicals
<1>2. CASE m.role = "tool"
  <2>1. PICK t : m.blocks = <<TextBlock(t)>>
    BY <1>0, <1>2
  <2> DEFINE x == TextBlock(t)
             b == ResultBlock(m.answers, <<>>, t)
             l == Message("tool", <<b>>)
  <2>2. OpenAIParsed(m) = <<l>>
    <3>1. FirstText(m.blocks) = t
      BY <1>0, <2>1, FirstTextIs
    <3> QED BY <1>2, <3>1 DEF OpenAIParsed
  <2>3. x.kind = "text" /\ x.text = t /\ b = [kind |-> "result", text |-> t, id |-> m.answers, name |-> <<>>]
    BY DEF TextBlock, ResultBlock
  <2>4. t = [at |-> t.at, short |-> t.short]
    <3>1. <<x>>[1] = x /\ 1 \in DOMAIN <<x>>
      BY OneIs
    <3>2. IsBlock(x)
      <4> HIDE DEF x
      <4>1. m.blocks = <<x>>
        BY <2>1 DEF x
      <4> QED BY <1>0, <3>1, <4>1 DEF Blocks
    <3> QED BY <2>3, <3>2 DEF IsBlock
  <2> HIDE DEF x, b, l
  <2>5. b.kind = "result" /\ b.text = t /\ b.id = m.answers /\ IsBlock(b)
    BY <2>3, <2>4 DEF IsBlock, Kinds
  <2>6. IsMessage(l) /\ l.role = "tool" /\ l.blocks = <<b>>
    BY OneIs, MessageIs DEF l
  <2>7. Canonical(l)
    <3>1. DOMAIN <<b>> = {1} /\ <<b>>[1] = b /\ IsSeq(<<b>>)
      BY OneIs
    <3>2. Blocks(<<b>>) /\ InOrder(<<b>>) /\ \A j \in DOMAIN <<b>> : <<b>>[j].kind = "result"
      BY <2>5, <3>1 DEF Blocks, InOrder
    <3> QED BY <2>6, <3>2 DEF Canonical
  <2>8. Tells(w, l, b) = Tells(w, m, x)
    <3>1. KindIn(l, b) = "result" /\ KindIn(m, x) = "result"
      BY <1>2, <2>3, <2>5 DEF KindIn
    <3>2. CASE w.asks = "says"
      BY <1>2, <2>3, <2>5, <2>6, <3>1, <3>2 DEF Tells, Says
    <3>3. CASE w = Asks("id")
      <4>1. Known(w, l, b) = m.answers /\ Known(w, m, x) = m.answers
        BY <1>2, <2>3, <2>5, <2>6, <3>3 DEF Known, Asks
      <4>2. Tells(w, l, b) = ActKnown(w, l, b) /\ Tells(w, m, x) = ActKnown(w, m, x)
        BY <3>3 DEF Tells, Asks
      <4> QED BY <3>1, <4>1, <4>2 DEF ActKnown
    <3>4. w.asks = "says" \/ w = Asks("id")
      BY <1>r DEF Writes, SaysInBoth, SaysOf
    <3> QED BY <3>2, <3>3, <3>4
  <2>9. Tells(w, m, x) = Tells(v, m, x)
    <3>1. IsBlock(x) /\ x.kind # "thinking"
      BY <2>3, <2>4 DEF IsBlock, Kinds, x, TextBlock
    <3> QED BY <1>r, <3>1, OpenAIBlock
  <2>10. ToldIn(w, l) = ToldIn(v, m)
    <3>1. m.blocks = <<x>>
      BY <2>1 DEF x
    <3> QED BY <2>6, <2>8, <2>9, <3>1, ToldOne DEF ToldIn
  <2>11. DOMAIN <<l>> = {1} /\ <<l>>[1] = l /\ IsSeq(<<l>>)
    BY OneIs
  <2>12. Canonicals(<<l>>)
    BY <2>7, <2>11 DEF Canonicals
  <2> QED BY <2>2, <2>6, <2>10, <2>12, ToldOfOne
<1>3. CASE m.role \notin {"system", "tool"}
  <2> DEFINE s == m.blocks
             texts == Of({"text", "image", "imageurl"}, s)
             calls == Of({"call"}, s)
             o == OrEmptyText(texts)
             l == Message(m.role, o \o calls)
  <2>1. OpenAIParsed(m) = <<l>>
    BY <1>3 DEF OpenAIParsed
  <2>2. Blocks(s) /\ InOrder(s) /\ m.role \in {"user", "assistant"} /\ \A j \in DOMAIN s : s[j].kind \notin {"result", "thinking"}
    BY <1>0, <1>3
  <2> HIDE DEF s
  <2>3. /\ Blocks(texts) /\ Blocks(calls) /\ IsSeq(texts) /\ IsSeq(calls)
        /\ \A j \in DOMAIN texts : texts[j].kind \in {"text", "image", "imageurl"}
        /\ \A j \in DOMAIN calls : calls[j].kind \in {"call"}
    BY <2>2, OfIs
  <2>4. Told(v, m, s) = Told(v, m, texts) \o Told(v, m, calls)
    <3>1. Told(v, m, s) = Told(v, m, Of({"result"}, s)) \o (Told(v, m, Of(SpokenKinds, s)) \o Told(v, m, Of({"call"}, s)))
      BY <2>2, Regrouped
    <3>2. Of({"result"}, s) = <<>>
      <4>1. \A j \in DOMAIN s : s[j].kind \notin {"result"}
        BY <2>2
      <4> QED BY <2>2, <4>1, OfIs
    <3>3. Of(SpokenKinds, s) = texts
      BY DEF SpokenKinds
    <3> HIDE DEF texts, calls
    <3>4. IsSeq(Told(v, m, texts) \o Told(v, m, calls))
      <4> DEFINE a == Told(v, m, texts)
                 b == Told(v, m, calls)
      <4>1. IsSeq(a) /\ IsSeq(b)
        BY <2>3, ToldIsSeq
      <4> HIDE DEF a, b
      <4>2. IsSeq(a \o b)
        BY <4>1, ConcatIs
      <4> QED BY <4>2 DEF a, b
    <3>5. Told(v, m, s) = <<>> \o (Told(v, m, texts) \o Told(v, m, calls))
      BY <3>1, <3>2, <3>3, ToldNone DEF calls
    <3> QED BY <3>4, <3>5, ConcatNone
  <2> HIDE DEF texts, calls
  <2>5. m.role # "tool"
    BY <2>2
  <2>6. /\ Blocks(o) /\ IsSeq(o)
        /\ \A j \in DOMAIN o : o[j].kind \in {"text", "image", "imageurl"}
    <3>1. Blocks(o)
      BY <2>3, <2>5, OrEmptyTells
    <3>2. \A j \in DOMAIN o : o[j].kind = "text" \/ \E i \in DOMAIN texts : o[j].kind = texts[i].kind
      BY <2>3, <2>5, OrEmptyTells
    <3> HIDE DEF o
    <3> QED BY <2>3, <3>1, <3>2 DEF Blocks
  <2>7. Told(w, m, o) = Told(w, m, texts)
    BY <2>3, <2>5, OrEmptyTells
  <2> HIDE DEF o
  <2>8. /\ IsSeq(o \o calls) /\ Len(o \o calls) = Len(o) + Len(calls)
        /\ \A i \in 1 .. Len(o) + Len(calls) : (o \o calls)[i] = IF i <= Len(o) THEN o[i] ELSE calls[i - Len(o)]
    BY <2>3, <2>6, ConcatIs
  <2> DEFINE z == o \o calls
  <2>9. /\ DOMAIN z = 1 .. Len(o) + Len(calls) /\ Len(o) \in Nat /\ Len(calls) \in Nat
        /\ DOMAIN o = 1 .. Len(o) /\ DOMAIN calls = 1 .. Len(calls)
    BY <2>3, <2>6, <2>8, SeqIs
  <2>10. \A i \in DOMAIN z : /\ i <= Len(o) => z[i].kind \in {"text", "image", "imageurl"} /\ IsBlock(z[i])
                             /\ ~ (i <= Len(o)) => z[i].kind = "call" /\ IsBlock(z[i])
    <3> SUFFICES ASSUME NEW i \in DOMAIN z
                 PROVE  /\ i <= Len(o) => z[i].kind \in {"text", "image", "imageurl"} /\ IsBlock(z[i])
                        /\ ~ (i <= Len(o)) => z[i].kind = "call" /\ IsBlock(z[i])
      OBVIOUS
    <3>1. CASE i <= Len(o)
      <4>1. z[i] = o[i] /\ i \in DOMAIN o
        BY <2>8, <2>9, <3>1
      <4> HIDE DEF z
      <4> QED BY <2>6, <3>1, <4>1 DEF Blocks
    <3>2. CASE ~ (i <= Len(o))
      <4>1. z[i] = calls[i - Len(o)] /\ i - Len(o) \in DOMAIN calls
        BY <2>8, <2>9, <3>2
      <4> HIDE DEF z
      <4> QED BY <2>3, <3>2, <4>1 DEF Blocks
    <3> QED BY <3>1, <3>2
  <2>11. IsSeq(z)
    BY <2>8
  <2>12. l = Message(m.role, z)
    OBVIOUS
  <2> HIDE DEF z, l
  <2>13. Blocks(z) /\ InOrder(z)
    <3>1. Blocks(z)
      BY <2>10, <2>11 DEF Blocks
    <3>2. ASSUME NEW i \in DOMAIN z, NEW j \in DOMAIN z, i < j
          PROVE  /\ z[j].kind # "result" /\ (z[i].kind = "call" => z[j].kind = "call")
      <4>1. CASE j <= Len(o)
        <5>1. i <= Len(o)
          BY <2>9, <3>2, <4>1
        <5> QED BY <2>10, <4>1, <5>1
      <4>2. CASE ~ (j <= Len(o))
        BY <2>10, <4>2
      <4> QED BY <4>1, <4>2
    <3> QED BY <3>1, <3>2 DEF InOrder
  <2>14. IsMessage(l) /\ l.role = m.role /\ l.blocks = z
    BY <2>11, <2>12, MessageIs
  <2>15. Canonical(l)
    BY <2>2, <2>13, <2>14 DEF Canonical
  <2>16. Told(w, l, z) = Told(w, l, o) \o Told(w, l, calls)
    BY <2>3, <2>6, ToldConcat DEF z
  <2>17. Told(w, l, o) = Told(w, m, texts)
    BY <2>5, <2>7, <2>14, ToldSame
  <2>18. Told(w, m, texts) = Told(v, m, texts) /\ Told(w, l, calls) = Told(v, m, calls)
    <3>1. (\A j \in DOMAIN texts : texts[j].kind # "thinking") /\ \A j \in DOMAIN calls : calls[j].kind # "thinking"
      BY <2>3
    <3> QED BY <1>r, <2>3, <2>5, <2>14, <3>1, OpenAITold
  <2>19. ToldIn(w, l) = ToldIn(v, m)
    BY <2>4, <2>14, <2>16, <2>17, <2>18 DEF ToldIn, s
  <2>20. DOMAIN <<l>> = {1} /\ <<l>>[1] = l /\ IsSeq(<<l>>)
    BY OneIs
  <2>21. Canonicals(<<l>>)
    BY <2>15, <2>20 DEF Canonicals
  <2> QED BY <2>1, <2>14, <2>19, <2>21, ToldOfOne DEF l, z
<1> QED BY <1>1, <1>2, <1>3

\* The canonical request tells what OpenAI's client does.
LEMMA OpenAIReads ==
  ASSUME NEW ms, SentAll("openai", ms), NEW w, NEW v, Reads("openai", w, v)
  PROVE  Canonicals(Gather(OpenAIParsed, ms)) /\ ToldOf(w, Gather(OpenAIParsed, ms)) = ToldOf(v, ms)
<1> DEFINE ss == Each(OpenAIParsed, ms)
           d == Gather(OpenAIParsed, ms)
           n == Len(ms)
<1>1. n \in Nat /\ DOMAIN ms = 1 .. n /\ \A i \in DOMAIN ms : Sent("openai", ms[i])
  BY SeqIs DEF SentAll
<1>2. ss = [i \in 1 .. n |-> ss[i]] /\ \A i \in 1 .. n : ss[i] = OpenAIParsed(ms[i])
  BY <1>1 DEF Each
<1>3. d = FlattenSeq(ss)
  BY DEF Gather
<1> HIDE DEF ss, d, n
<1>4. IsSeq(ss) /\ DOMAIN ss = 1 .. n
  BY <1>1, <1>2, ListIsSeq
<1>5. ASSUME NEW i \in 1 .. n PROVE Canonicals(ss[i]) /\ AreMessages(ss[i]) /\ ToldOf(w, ss[i]) = ToldIn(v, ms[i])
  <2>1. Sent("openai", ms[i]) /\ ss[i] = OpenAIParsed(ms[i])
    BY <1>1, <1>2
  <2>2. Canonicals(ss[i]) /\ ToldOf(w, ss[i]) = ToldIn(v, ms[i])
    BY <2>1, OpenAIParsedTells
  <2> QED BY <2>2, CanonicalsAreMessages
<1>6. IsSeqs(ss)
  BY <1>4, <1>5 DEF IsSeqs, AreMessages
<1>7. AreMessages(d) /\ ToldOf(w, d) = FlattenSeq([i \in DOMAIN ss |-> ToldOf(w, ss[i])])
  BY <1>3, <1>4, <1>5, <1>6, ToldOfFlatten
<1>8. ToldOf(w, d) = ToldOf(v, ms)
  <2>1. [i \in DOMAIN ss |-> ToldOf(w, ss[i])] = [i \in DOMAIN ms |-> ToldIn(v, ms[i])]
    BY <1>1, <1>4, <1>5
  <2> QED BY <1>7, <2>1 DEF ToldOf
<1>9. ASSUME NEW k \in DOMAIN d PROVE Canonical(d[k])
  <2>1. \A l \in DOMAIN FlattenSeq(ss) : \E i \in DOMAIN ss : \E j \in DOMAIN ss[i] : FlattenSeq(ss)[l] = ss[i][j]
    BY <1>6, FlattenFrom
  <2>2. \E i \in 1 .. n : \E j \in DOMAIN ss[i] : d[k] = ss[i][j]
    BY <1>3, <1>4, <2>1
  <2> QED BY <1>5, <2>2 DEF Canonicals
<1> QED BY <1>7, <1>8, <1>9 DEF d, Canonicals, AreMessages

-----------------------------------------------------------------------------
(* What is read from a client of the others.                               *)

\* The canonical request tells what Claude's client does.
LEMMA ClaudeReads ==
  ASSUME NEW ms, SentAll("claude", ms), NEW w, NEW v, Reads("claude", w, v)
  PROVE  Canonicals(Each(ClaudeParsed, ms)) /\ ToldOf(w, Each(ClaudeParsed, ms)) = ToldOf(v, ms)
<1> DEFINE c == [i \in DOMAIN ms |-> ClaudeParsed(ms[i])]
<1>1. c = [i \in DOMAIN ms |-> c[i]] /\ \A i \in DOMAIN ms : c[i] = ClaudeParsed(ms[i])
  OBVIOUS
<1>2. Each(ClaudeParsed, ms) = c
  BY DEF Each
<1> HIDE DEF c
<1>3. IsSeq(ms) /\ \A i \in DOMAIN ms : Sent("claude", ms[i])
  BY DEF SentAll
<1>4. \A i \in DOMAIN ms : Canonical(c[i]) /\ ToldIn(w, c[i]) = ToldIn(v, ms[i])
  BY <1>1, <1>3, ClaudeParsedTells
<1>5. Canonicals(c) /\ ToldOf(w, c) = ToldOf(v, ms)
  BY <1>1, <1>3, <1>4, EachParsed
<1> QED BY <1>2, <1>5 DEF Each

\* The canonical request tells what Gemini's client does.
LEMMA GeminiReads ==
  ASSUME NEW ms, SentAll("gemini", ms), NEW w, NEW v, Reads("gemini", w, v)
  PROVE  Canonicals(Each(GeminiParsed, ms)) /\ ToldOf(w, Each(GeminiParsed, ms)) = ToldOf(v, ms)
<1> DEFINE c == [i \in DOMAIN ms |-> GeminiParsed(ms[i])]
<1>1. c = [i \in DOMAIN ms |-> c[i]] /\ \A i \in DOMAIN ms : c[i] = GeminiParsed(ms[i])
  OBVIOUS
<1>2. Each(GeminiParsed, ms) = c
  BY DEF Each
<1> HIDE DEF c
<1>3. IsSeq(ms) /\ \A i \in DOMAIN ms : Sent("gemini", ms[i])
  BY DEF SentAll
<1>4. \A i \in DOMAIN ms : Canonical(c[i]) /\ ToldIn(w, c[i]) = ToldIn(v, ms[i])
  BY <1>1, <1>3, GeminiParsedTells
<1>5. Canonicals(c) /\ ToldOf(w, c) = ToldOf(v, ms)
  BY <1>1, <1>3, <1>4, EachParsed
<1> QED BY <1>2, <1>5 DEF Each

\* The canonical request tells what the client of Responses does.
LEMMA ResponsesReads ==
  ASSUME NEW ms, SentAll("responses", ms), NEW w, NEW v, Reads("responses", w, v)
  PROVE  Canonicals(Spoken(ms)) /\ ToldOf(w, Spoken(ms)) = ToldOf(v, ms)
<1>1. IsSeq(ms) /\ \A i \in DOMAIN ms : Sent("responses", ms[i])
  BY DEF SentAll
<1>2. ASSUME NEW m, Sent("responses", m)
      PROVE  /\ IsMessage(m) /\ Blocks(m.blocks) /\ Plain(m) /\ m.role \in {"user", "assistant"}
             /\ \A j \in DOMAIN m.blocks : m.blocks[j].kind = "text"
             /\ \A j \in DOMAIN m.blocks :
                  Tells(v, m, m.blocks[j]) = IF IsSaid(m.blocks[j]) THEN Tells(w, m, m.blocks[j]) ELSE <<>>
  <2>1. /\ IsMessage(m) /\ Blocks(m.blocks) /\ m.role \in {"user", "assistant"}
        /\ \A j \in DOMAIN m.blocks : m.blocks[j].kind \in Carries("responses")
    BY <1>2 DEF Sent
  <2>2. Carries("responses") = {"text"}
    BY DEF Carries
  <2>3. Plain(m)
    BY <2>1 DEF Plain
  <2>4. ASSUME NEW b, b.kind = "text"
        PROVE  Tells(v, m, b) = IF IsSaid(b) THEN Tells(w, m, b) ELSE <<>>
    <3>1. KindIn(m, b) = "text" /\ m.role # "system"
      BY <2>1, <2>4 DEF KindIn
    <3>2. CASE SaysInBoth("responses", w, v)
      <4>1. PICK K : w = SaysOf(K) /\ v = SaysOf(K \cap Carries("responses"))
        BY <3>2 DEF SaysInBoth
      <4>2. Tells(w, m, b) = Says(K, m, b) /\ Tells(v, m, b) = Says(K \cap Carries("responses"), m, b)
        BY <4>1 DEF Tells, SaysOf
      <4>3. ~ IsSaid(b) => b.text.at = NoText.at
        BY <2>4 DEF IsSaid
      <4> QED BY <2>2, <3>1, <4>2, <4>3 DEF Says
    <3>3. CASE w = Asks("id") /\ v = Asks("id")
      BY <3>1, <3>3 DEF Tells, Asks, ActKnown
    <3> QED BY <3>2, <3>3 DEF Reads
  <2> QED BY <2>1, <2>2, <2>3, <2>4
<1>3. AreMessages(ms)
  BY <1>1, <1>2 DEF AreMessages
<1>4. \A i \in DOMAIN ms : Blocks(ms[i].blocks) /\ Plain(ms[i])
  BY <1>1, <1>2
<1>r. \A i \in DOMAIN ms : ms[i].role \in {"user", "assistant"}
  BY <1>1, <1>2
<1>5. \A i \in DOMAIN ms : \A j \in DOMAIN ms[i].blocks :
        Tells(v, ms[i], ms[i].blocks[j]) = IF IsSaid(ms[i].blocks[j]) THEN Tells(w, ms[i], ms[i].blocks[j]) ELSE <<>>
  BY <1>1, <1>2
<1>6. /\ AreMessages(Spoken(ms)) /\ ToldOf(w, Spoken(ms)) = ToldOf(v, ms)
      /\ \A k \in DOMAIN Spoken(ms) :
           /\ Spoken(ms)[k].role # "tool" /\ Blocks(Spoken(ms)[k].blocks)
           /\ \A j \in DOMAIN Spoken(ms)[k].blocks : Spoken(ms)[k].blocks[j].kind = "text"
           /\ \E i \in DOMAIN ms : Spoken(ms)[k].role = ms[i].role
  BY <1>3, <1>4, <1>5, SpokenTells
<1>7. Canonicals(Spoken(ms))
  <2> DEFINE r == Spoken(ms)
  <2> HIDE DEF r
  <2>1. ASSUME NEW k \in DOMAIN r PROVE Canonical(r[k])
    <3>1. IsMessage(r[k]) /\ r[k].role \in {"user", "assistant"}
      BY <1>r, <1>6 DEF AreMessages, r
    <3>2. Blocks(r[k].blocks) /\ \A j \in DOMAIN r[k].blocks : r[k].blocks[j].kind = "text"
      BY <1>6 DEF r
    <3>3. InOrder(r[k].blocks)
      BY <3>2 DEF InOrder
    <3> QED BY <3>1, <3>2, <3>3 DEF Canonical
  <2>2. IsSeq(r)
    BY <1>6 DEF r, AreMessages
  <2> QED BY <2>1, <2>2 DEF Canonicals, r
<1> QED BY <1>6, <1>7

-----------------------------------------------------------------------------
(* Compression.                                                            *)

\* An answer that is shortened is the same answer to the same call.
LEMMA ShortenedIs ==
  ASSUME NEW b, IsBlock(b)
  PROVE  /\ IsBlock(Shortened(b)) /\ Shortened(b).kind = b.kind /\ Shortened(b).text.at = b.text.at
         /\ Shortened(b).id = b.id /\ Shortened(b).name = b.name
<1> DEFINE c == Shortened(b)
<1>1. CASE b.kind = "result"
  <2> DEFINE t == [b.text EXCEPT !.short = TRUE]
  <2>1. b = [kind |-> b.kind, text |-> b.text, id |-> b.id, name |-> b.name] /\ b.text = [at |-> b.text.at, short |-> b.text.short]
    BY DEF IsBlock
  <2>2. t = [at |-> b.text.at, short |-> TRUE]
    <3> DEFINE at == b.text.at
               short == b.text.short
               text == b.text
    <3>1. text = [at |-> at, short |-> short] /\ t = [text EXCEPT !.short = TRUE]
      BY <2>1
    <3> HIDE DEF at, short, text, t
    <3>2. t = [at |-> at, short |-> TRUE]
      BY <3>1
    <3> QED BY <3>2 DEF at
  <2>3. c = [b EXCEPT !.text = t]
    <3> DEFINE d == [b EXCEPT !.text.short = TRUE]
    <3>1. d = [b EXCEPT !.text = [b.text EXCEPT !.short = TRUE]]
      OBVIOUS
    <3>2. c = d
      BY <1>1 DEF Shortened
    <3> QED BY <3>1, <3>2
  <2> HIDE DEF t
  <2>4. c = [kind |-> b.kind, text |-> t, id |-> b.id, name |-> b.name]
    BY <2>1, <2>3
  <2> HIDE DEF c
  <2>5. c.kind = b.kind /\ c.text = t /\ c.id = b.id /\ c.name = b.name
    BY <2>4
  <2>6. t.at = b.text.at /\ t = [at |-> t.at, short |-> t.short]
    BY <2>2
  <2>7. b.kind \in Kinds
    BY DEF IsBlock
  <2>8. IsBlock(c)
    BY <2>4, <2>5, <2>6, <2>7 DEF IsBlock
  <2> QED BY <2>5, <2>6, <2>8 DEF c
<1>2. CASE b.kind # "result"
  BY <1>2 DEF Shortened
<1> QED BY <1>1, <1>2

\* So is a message.
LEMMA AbridgedIs ==
  ASSUME NEW m, Canonical(m), NEW w
  PROVE  Canonical(Abridged(m)) /\ ToldIn(w, Abridged(m)) = ToldIn(w, m)
<1> DEFINE s == m.blocks
           c == [j \in DOMAIN s |-> Shortened(s[j])]
           l == Abridged(m)
<1>1. m = [role |-> m.role, blocks |-> s, answers |-> m.answers] /\ IsSeq(s) /\ Blocks(s) /\ InOrder(s)
  BY DEF Canonical, IsMessage
<1>2. c = [j \in DOMAIN s |-> c[j]] /\ \A j \in DOMAIN s : c[j] = Shortened(s[j])
  OBVIOUS
<1>3. l = [m EXCEPT !.blocks = c]
  BY DEF Abridged, Each
<1> HIDE DEF c, s, l
<1>4. l = [role |-> m.role, blocks |-> c, answers |-> m.answers]
  BY <1>1, <1>3
<1>5. IsSeq(c) /\ DOMAIN c = DOMAIN s
  BY <1>1, <1>2, MapIs
<1>6. \A j \in DOMAIN s :
        /\ IsBlock(c[j]) /\ c[j].kind = s[j].kind /\ c[j].text.at = s[j].text.at
        /\ c[j].id = s[j].id /\ c[j].name = s[j].name
  BY <1>1, <1>2, ShortenedIs DEF Blocks
<1>7. l.role = m.role /\ l.blocks = c /\ l.answers = m.answers /\ IsMessage(l)
  BY <1>4, <1>5 DEF IsMessage
<1>8. Blocks(c) /\ InOrder(c)
  BY <1>1, <1>5, <1>6 DEF Blocks, InOrder
<1>9. Canonical(l)
  <2>1. m.role \in {"user", "assistant", "tool"} /\ (m.role = "tool" => \A j \in DOMAIN s : s[j].kind = "result")
    BY DEF Canonical, s
  <2> QED BY <1>5, <1>6, <1>7, <1>8, <2>1 DEF Canonical
<1>10. \A j \in DOMAIN s : Tells(w, l, c[j]) = Tells(w, m, s[j])
  <2> SUFFICES ASSUME NEW j \in DOMAIN s PROVE Tells(w, l, c[j]) = Tells(w, m, s[j])
    OBVIOUS
  <2> DEFINE x == c[j]
             b == s[j]
  <2>1. x.kind = b.kind /\ x.text.at = b.text.at /\ x.id = b.id /\ x.name = b.name
    BY <1>6
  <2> HIDE DEF x, b
  <2>2. KindIn(l, x) = KindIn(m, b)
    BY <1>7, <2>1 DEF KindIn
  <2>3. FunctionName(x) = FunctionName(b)
    BY <2>1 DEF FunctionName
  <2>4. Known(w, l, x) = Known(w, m, b)
    BY <1>7, <2>1, <2>3 DEF Known
  <2>5. Tells(w, l, x) = Tells(w, m, b)
    BY <1>7, <2>1, <2>2, <2>4 DEF Tells, Says, ActKnown
  <2> QED BY <2>5 DEF x, b
<1>11. Told(w, l, c) = Told(w, m, s)
  BY <1>5, <1>10, ToldMapped
<1> QED BY <1>7, <1>9, <1>11 DEF ToldIn, l, s

\* So is the canonical request.
LEMMA AbridgedTells ==
  ASSUME NEW ms, Canonicals(ms), NEW w
  PROVE  Canonicals(Each(Abridged, ms)) /\ ToldOf(w, Each(Abridged, ms)) = ToldOf(w, ms)
<1> DEFINE c == [i \in DOMAIN ms |-> Abridged(ms[i])]
<1>1. c = [i \in DOMAIN ms |-> c[i]] /\ \A i \in DOMAIN ms : c[i] = Abridged(ms[i])
  OBVIOUS
<1>2. Each(Abridged, ms) = c
  BY DEF Each
<1> HIDE DEF c
<1>3. IsSeq(ms) /\ \A i \in DOMAIN ms : Canonical(ms[i])
  BY DEF Canonicals
<1>4. \A i \in DOMAIN ms : Canonical(c[i]) /\ ToldIn(w, c[i]) = ToldIn(w, ms[i])
  BY <1>1, <1>3, AbridgedIs
<1>5. Canonicals(c) /\ ToldOf(w, c) = ToldOf(w, ms)
  BY <1>1, <1>3, <1>4, EachParsed
<1> QED BY <1>2, <1>5 DEF Each

-----------------------------------------------------------------------------
(* The system prompt.                                                      *)

\* A system prompt none of whose texts is empty.
Prompt(system) == IsSystem(system) /\ \A i \in DOMAIN system : system[i].text # NoText

\* The texts of a prompt, one by one.
LEMMA TextsAre ==
  ASSUME NEW s, IsSeq(s)
  PROVE  /\ IsSeq(Each(TextOf, s)) /\ DOMAIN Each(TextOf, s) = DOMAIN s
         /\ \A i \in DOMAIN s : Each(TextOf, s)[i] = s[i].text
<1> DEFINE c == [i \in DOMAIN s |-> TextOf(s[i])]
<1>1. c = [i \in DOMAIN s |-> c[i]] /\ \A i \in DOMAIN s : c[i] = s[i].text
  BY DEF TextOf
<1>2. Each(TextOf, s) = c
  BY DEF Each
<1> HIDE DEF c
<1>3. IsSeq(c) /\ DOMAIN c = DOMAIN s
  BY <1>1, MapIs
<1>4. IsSeq(c) /\ DOMAIN c = DOMAIN s /\ \A i \in DOMAIN s : c[i] = s[i].text
  BY <1>1, <1>3
<1> QED BY <1>2, <1>4 DEF Each

\* Messages of the conversation hold no instructions.
LEMMA NoInstructions ==
  ASSUME NEW ms, IsSeq(ms), \A i \in DOMAIN ms : ms[i].role # "system"
  PROVE  Gather(InstructionIn, ms) = <<>>
<1> DEFINE ss == [i \in DOMAIN ms |-> InstructionIn(ms[i])]
<1>1. ss = [i \in DOMAIN ms |-> ss[i]] /\ \A i \in DOMAIN ms : ss[i] = <<>>
  BY DEF InstructionIn
<1>2. Gather(InstructionIn, ms) = FlattenSeq(ss)
  BY DEF Gather, Each
<1> HIDE DEF ss
<1>3. IsSeq(ss) /\ DOMAIN ss = DOMAIN ms
  BY <1>1, MapIs
<1>4. IsSeqs(ss)
  BY <1>1, <1>3, NoneIs DEF IsSeqs
<1>5. FlattenSeq(ss) = <<>>
  BY <1>1, <1>3, <1>4, FlattenEmpty
<1> QED BY <1>2, <1>5

\* As what is made of each part by a function.
LEMMA TextsAreFlat ==
  ASSUME NEW s, IsSeq(s), NEW X, \A i \in DOMAIN s : s[i] \in X
  PROVE  /\ Makes([x \in X |-> <<x.text>>], s)
         /\ Flat([x \in X |-> <<x.text>>], s) = Each(TextOf, s)
<1> DEFINE g == [x \in X |-> <<x.text>>]
           c == Each(TextOf, s)
<1>1. \A i \in DOMAIN s : g[s[i]] = <<s[i].text>>
  OBVIOUS
<1>2. IsSeq(c) /\ DOMAIN c = DOMAIN s /\ \A i \in DOMAIN s : c[i] = s[i].text
  BY TextsAre DEF Each
<1> HIDE DEF g, c
<1>3. Makes(g, s)
  BY <1>1, OneIs DEF Makes
<1>4. [i \in DOMAIN s |-> g[s[i]]] = [i \in DOMAIN c |-> <<c[i]>>]
  BY <1>1, <1>2
<1>5. Flat(g, s) = c
  BY <1>2, <1>4, FlattenOnes DEF Flat, Mapped
<1> QED BY <1>3, <1>5 DEF g, c

\* The texts of prompts laid end to end.
LEMMA TextsOfFlatten ==
  ASSUME NEW ss, IsSeqs(ss)
  PROVE  IsSeq(FlattenSeq(ss)) /\ Each(TextOf, FlattenSeq(ss)) = FlattenSeq([i \in DOMAIN ss |-> Each(TextOf, ss[i])])
<1> DEFINE X == UNION {{ss[i][j] : j \in DOMAIN ss[i]} : i \in DOMAIN ss}
           g == [x \in X |-> <<x.text>>]
           d == FlattenSeq(ss)
           t == [i \in DOMAIN ss |-> Flat(g, ss[i])]
<1>1. \A i \in DOMAIN ss : IsSeq(ss[i]) /\ \A j \in DOMAIN ss[i] : ss[i][j] \in X
  BY DEF IsSeqs
<1>2. IsSeq(d) /\ \A k \in DOMAIN d : d[k] \in X
  <2>1. IsSeq(ss) /\ Len(ss) \in Nat /\ DOMAIN ss = 1 .. Len(ss)
    BY SeqIs DEF IsSeqs
  <2>2. IsSeq(d) /\ ss = [i \in 1 .. Len(ss) |-> ss[i]]
    BY FlattenSeqs
  <2>3. \A i \in 1 .. Len(ss) : IsSeq(ss[i])
    BY <1>1, <2>1
  <2> HIDE DEF X
  <2>4. \A k \in DOMAIN d : \E i \in 1 .. Len(ss) : \E j \in DOMAIN ss[i] : d[k] = ss[i][j]
    BY <2>1, <2>2, <2>3, FlattenIs
  <2> QED BY <1>1, <2>1, <2>2, <2>4
<1> HIDE DEF X, d
<1>3. ASSUME NEW i \in DOMAIN ss PROVE Makes(g, ss[i]) /\ Flat(g, ss[i]) = Each(TextOf, ss[i])
  <2> DEFINE s == ss[i]
  <2>1. IsSeq(s) /\ \A j \in DOMAIN s : s[j] \in X
    BY <1>1
  <2> HIDE DEF s
  <2>2. Makes([x \in X |-> <<x.text>>], s) /\ Flat([x \in X |-> <<x.text>>], s) = Each(TextOf, s)
    BY <2>1, TextsAreFlat DEF Each
  <2> QED BY <2>2 DEF s, g
<1>4. Flat(g, d) = Each(TextOf, d)
  <2>2. Flat([x \in X |-> <<x.text>>], d) = Each(TextOf, d)
    BY <1>2, TextsAreFlat DEF Each
  <2> QED BY <2>2 DEF g
<1> HIDE DEF g
<1>5. Flat(g, FlattenSeq(ss)) = FlattenSeq(t)
  BY <1>3, FlatFlatten
<1>6. t = [i \in DOMAIN ss |-> Each(TextOf, ss[i])]
  BY <1>3
<1> HIDE DEF t
<1> QED BY <1>2, <1>4, <1>5, <1>6 DEF d

\* What OpenAI's parser makes of a message with instructions.
LEMMA InstructionIs ==
  ASSUME NEW m, Sent("openai", m), m.role = "system" => m.blocks[1].text # NoText
  PROVE  Prompt(Instruction(m)) /\ Each(TextOf, Instruction(m)) = InstructionIn(m)
<1>1. CASE m.role = "system"
  <2>1. PICK t : m.blocks = <<TextBlock(t)>>
    BY <1>1 DEF Sent
  <2>2. FirstText(m.blocks) = t
    BY <2>1, FirstTextIs DEF Sent
  <2> DEFINE b == TextBlock(t)
             x == [text |-> t, cached |-> FALSE]
             s == <<x>>
  <2>3. b.text = t
    BY DEF TextBlock
  <2>4. m.blocks[1].text = t
    <3> HIDE DEF b
    <3>1. m.blocks = <<b>>
      BY <2>1 DEF b
    <3> QED BY <2>3, <3>1, OneIs
  <2>5. Instruction(m) = s /\ InstructionIn(m) = <<t>>
    BY <1>1, <2>2, <2>4 DEF Instruction, InstructionIn
  <2>6. x = [text |-> x.text, cached |-> x.cached] /\ x.text = t /\ t # NoText
    BY <1>1, <2>4
  <2> HIDE DEF x
  <2>7. IsSeq(s) /\ DOMAIN s = {1} /\ s[1] = x /\ Len(s) = 1
    BY OneIs
  <2> HIDE DEF s
  <2>8. Prompt(s)
    BY <2>6, <2>7 DEF Prompt, IsSystem
  <2>9. Each(TextOf, s) = <<t>>
    <3> DEFINE c == Each(TextOf, s)
    <3>1. IsSeq(c) /\ DOMAIN c = {1} /\ c[1] = t
      BY <2>6, <2>7, TextsAre DEF Each
    <3> HIDE DEF c
    <3>2. Len(c) = 1 /\ IsSeq(<<t>>) /\ Len(<<t>>) = 1 /\ <<t>>[1] = t
      BY <3>1, SeqIs, OneIs
    <3>3. c = <<t>>
      BY <3>1, <3>2, SameSeq
    <3> QED BY <3>3 DEF c
  <2> QED BY <2>5, <2>8, <2>9 DEF Each
<1>2. CASE m.role # "system"
  <2>1. Instruction(m) = <<>> /\ InstructionIn(m) = <<>>
    BY <1>2 DEF Instruction, InstructionIn
  <2>2. Each(TextOf, <<>>) = <<>>
    <3>1. \A i \in DOMAIN <<>> : FALSE
      BY NoneIs
    <3> QED BY NoneIs DEF Each
  <2>3. Prompt(<<>>)
    BY NoneIs DEF Prompt, IsSystem
  <2> QED BY <2>1, <2>2, <2>3 DEF Each
<1> QED BY <1>1, <1>2

\* The prompt that OpenAI's parser collects is the one the messages hold.
LEMMA InstructionsAre ==
  ASSUME NEW ms, SentAll("openai", ms), \A i \in DOMAIN ms : ms[i].role = "system" => ms[i].blocks[1].text # NoText
  PROVE  /\ Prompt(Gather(Instruction, ms))
         /\ Each(TextOf, Gather(Instruction, ms)) = Gather(InstructionIn, ms)
<1> DEFINE ss == [i \in DOMAIN ms |-> Instruction(ms[i])]
           d == FlattenSeq(ss)
<1>1. ss = [i \in DOMAIN ms |-> ss[i]] /\ \A i \in DOMAIN ms : ss[i] = Instruction(ms[i])
  OBVIOUS
<1>2. Gather(Instruction, ms) = FlattenSeq(ss)
  BY DEF Gather, Each
<1> HIDE DEF ss, d
<1>3. IsSeq(ms) /\ IsSeq(ss) /\ DOMAIN ss = DOMAIN ms /\ Len(ss) = Len(ms)
  BY <1>1, MapIs DEF SentAll
<1>4. ASSUME NEW i \in DOMAIN ms PROVE Prompt(ss[i]) /\ Each(TextOf, ss[i]) = InstructionIn(ms[i])
  <2>1. Sent("openai", ms[i]) /\ (ms[i].role = "system" => ms[i].blocks[1].text # NoText) /\ ss[i] = Instruction(ms[i])
    BY <1>1 DEF SentAll
  <2>2. Prompt(Instruction(ms[i])) /\ Each(TextOf, Instruction(ms[i])) = InstructionIn(ms[i])
    BY <2>1, InstructionIs DEF Each
  <2> QED BY <2>1, <2>2 DEF Each
<1>5. IsSeqs(ss)
  BY <1>3, <1>4 DEF IsSeqs, Prompt, IsSystem
<1>6. IsSeq(d) /\ Each(TextOf, d) = FlattenSeq([i \in DOMAIN ss |-> Each(TextOf, ss[i])])
  BY <1>5, TextsOfFlatten DEF d, Each
<1>7. [i \in DOMAIN ss |-> Each(TextOf, ss[i])] = [i \in DOMAIN ms |-> InstructionIn(ms[i])]
  BY <1>3, <1>4 DEF Each
<1>8. Gather(InstructionIn, ms) = FlattenSeq([i \in DOMAIN ms |-> InstructionIn(ms[i])])
  BY DEF Gather, Each
<1>9. Prompt(d)
  <2>1. \A k \in DOMAIN d : \E i \in DOMAIN ms : \E j \in DOMAIN ss[i] : d[k] = ss[i][j]
    <3>1. \A k \in DOMAIN FlattenSeq(ss) : \E i \in DOMAIN ss : \E j \in DOMAIN ss[i] : FlattenSeq(ss)[k] = ss[i][j]
      BY <1>5, FlattenFrom
    <3> QED BY <1>3, <3>1 DEF d
  <2>2. ASSUME NEW k \in DOMAIN d
        PROVE  d[k] = [text |-> d[k].text, cached |-> d[k].cached] /\ d[k].text # NoText
    <3>1. PICK i \in DOMAIN ms : \E j \in DOMAIN ss[i] : d[k] = ss[i][j]
      BY <2>1
    <3>2. PICK j \in DOMAIN ss[i] : d[k] = ss[i][j]
      BY <3>1
    <3>3. Prompt(ss[i])
      BY <1>4
    <3>4. ss[i][j] = [text |-> ss[i][j].text, cached |-> ss[i][j].cached] /\ ss[i][j].text # NoText
      BY <3>3 DEF Prompt, IsSystem
    <3> QED BY <3>2, <3>4
  <2> QED BY <1>6, <2>2 DEF Prompt, IsSystem
<1>10. Each(TextOf, d) = Gather(InstructionIn, ms)
  BY <1>6, <1>7, <1>8
<1> QED BY <1>2, <1>9, <1>10 DEF d, Each

\* A prompt written in messages before the conversation can be read there.
LEMMA SystemWrittenInMessages ==
  ASSUME NEW system, IsSystem(system), NEW rest, AreMessages(rest), \A i \in DOMAIN rest : rest[i].role # "system"
  PROVE  Gather(InstructionIn, Each(SystemMessage, system) \o rest) = Each(TextOf, system)
<1> DEFINE a == Each(SystemMessage, system)
           X == {a[i] : i \in DOMAIN a} \cup {rest[i] : i \in DOMAIN rest} \cup {(a \o rest)[i] : i \in DOMAIN (a \o rest)}
           g == [m \in X |-> InstructionIn(m)]
           texts == Each(TextOf, system)
<1>1. /\ IsSeq(a) /\ DOMAIN a = DOMAIN system
      /\ \A i \in DOMAIN system : /\ a[i] = SystemMessage(system[i]) /\ SystemMessage(system[i]).role = "system"
                                  /\ SystemMessage(system[i]).blocks = <<TextBlock(system[i].text)>>
  BY SystemMessages DEF Each, AreMessages
<1>2. IsSeq(rest) /\ IsSeq(system)
  BY DEF AreMessages, IsSystem
<1>3. IsSeq(texts) /\ DOMAIN texts = DOMAIN system /\ \A i \in DOMAIN system : texts[i] = system[i].text
  BY <1>2, TextsAre DEF Each
<1>4. /\ \A i \in DOMAIN a : a[i] \in X
      /\ \A i \in DOMAIN rest : rest[i] \in X
      /\ \A i \in DOMAIN (a \o rest) : (a \o rest)[i] \in X
  OBVIOUS
<1> HIDE DEF a, X, texts
<1>5. \A m \in X : g[m] = InstructionIn(m)
  OBVIOUS
<1> HIDE DEF g
<1>6. \A m : IsSeq(InstructionIn(m))
  BY OneIs, NoneIs DEF InstructionIn
<1>7. Makes(g, a) /\ Makes(g, rest)
  BY <1>1, <1>2, <1>4, <1>5, <1>6 DEF Makes
<1>8. Flat(g, a \o rest) = Flat(g, a) \o Flat(g, rest)
  BY <1>7, FlatConcat
<1>9. Flat(g, a) = texts
  <2>1. ASSUME NEW i \in DOMAIN a PROVE g[a[i]] = <<texts[i]>>
    <3> DEFINE b == TextBlock(system[i].text)
    <3>1. b.text = texts[i]
      BY <1>1, <1>3, <2>1 DEF TextBlock
    <3>2. a[i].role = "system" /\ a[i].blocks = <<b>> /\ g[a[i]] = InstructionIn(a[i])
      BY <1>1, <1>4, <1>5
    <3> HIDE DEF b
    <3>3. a[i].blocks[1] = b
      BY <3>2, OneIs
    <3> QED BY <3>1, <3>2, <3>3 DEF InstructionIn
  <2>2. [i \in DOMAIN a |-> g[a[i]]] = [i \in DOMAIN texts |-> <<texts[i]>>]
    BY <1>1, <1>3, <2>1
  <2> QED BY <1>3, <2>2, FlattenOnes DEF Flat, Mapped
<1>10. Flat(g, rest) = <<>>
  <2>1. [i \in DOMAIN rest |-> g[rest[i]]] = [i \in DOMAIN rest |-> InstructionIn(rest[i])]
    BY <1>4, <1>5
  <2>2. Flat(g, rest) = Gather(InstructionIn, rest)
    BY <2>1 DEF Flat, Mapped, Gather, Each
  <2> QED BY <1>2, <2>2, NoInstructions
<1>11. Gather(InstructionIn, a \o rest) = Flat(g, a \o rest)
  <2>1. [i \in DOMAIN (a \o rest) |-> g[(a \o rest)[i]]] = [i \in DOMAIN (a \o rest) |-> InstructionIn((a \o rest)[i])]
    BY <1>4, <1>5
  <2> QED BY <2>1 DEF Flat, Mapped, Gather, Each
<1>12. texts \o <<>> = texts
  BY <1>3, ConcatNone
<1>13. Gather(InstructionIn, a \o rest) = texts
  BY <1>8, <1>9, <1>10, <1>11, <1>12
<1> QED BY <1>13 DEF a, texts, Each

\* Without its marks for the cache a prompt has the same texts.
LEMMA UnmarkedIs ==
  ASSUME NEW system, IsSystem(system)
  PROVE  /\ IsSystem(Each(Unmarked, system)) /\ DOMAIN Each(Unmarked, system) = DOMAIN system
         /\ \A i \in DOMAIN system : Each(Unmarked, system)[i].text = system[i].text
         /\ Each(TextOf, Each(Unmarked, system)) = Each(TextOf, system)
<1> DEFINE c == [i \in DOMAIN system |-> Unmarked(system[i])]
<1>1. c = [i \in DOMAIN system |-> c[i]] /\ \A i \in DOMAIN system : c[i] = Unmarked(system[i])
  OBVIOUS
<1>2. Each(Unmarked, system) = c
  BY DEF Each
<1> HIDE DEF c
<1>3. IsSeq(system) /\ IsSeq(c) /\ DOMAIN c = DOMAIN system
  BY <1>1, MapIs DEF IsSystem
<1>4. ASSUME NEW i \in DOMAIN system
      PROVE  c[i] = [text |-> c[i].text, cached |-> c[i].cached] /\ c[i].text = system[i].text
  <2> DEFINE s == system[i]
             d == Unmarked(s)
  <2>1. s = [text |-> s.text, cached |-> s.cached] /\ c[i] = d
    BY <1>1 DEF IsSystem
  <2>2. d = [s EXCEPT !.cached = FALSE]
    BY DEF Unmarked
  <2> HIDE DEF s, d
  <2>3. d = [text |-> s.text, cached |-> FALSE]
    BY <2>1, <2>2
  <2>4. d = [text |-> d.text, cached |-> d.cached] /\ d.text = s.text
    BY <2>3
  <2> QED BY <2>1, <2>4 DEF s
<1>5. IsSystem(c)
  BY <1>3, <1>4 DEF IsSystem
<1>6. Each(TextOf, c) = Each(TextOf, system)
  <2>1. [i \in DOMAIN c |-> TextOf(c[i])] = [i \in DOMAIN system |-> TextOf(system[i])]
    BY <1>3, <1>4 DEF TextOf
  <2> QED BY <2>1 DEF Each
<1>7. DOMAIN c = DOMAIN system /\ \A i \in DOMAIN system : c[i].text = system[i].text
  BY <1>3, <1>4
<1> QED BY <1>2, <1>5, <1>6, <1>7 DEF Each

\* None of a prompt's texts is left out.
LEMMA WholePrompt ==
  ASSUME NEW system, Prompt(system)
  PROVE  Where(LAMBDA s : s.text # NoText, system) = system
<1>1. IsSeq(system) /\ \A i \in DOMAIN system : system[i].text # NoText
  BY DEF Prompt, IsSystem
<1> DEFINE P == DOMAIN system
<1>2. [i \in DOMAIN system |-> IF system[i].text # NoText THEN <<system[i]>> ELSE <<>>]
        = [i \in DOMAIN system |-> IF i \in P THEN <<system[i]>> ELSE <<>>]
  BY <1>1
<1>3. Where(LAMBDA s : s.text # NoText, system) = Picked(system, P)
  BY <1>2 DEF Where, Gather, Each, Picked
<1>4. Picked(system, P) = system
  <2>1. \A i \in DOMAIN system : i \in P
    OBVIOUS
  <2> HIDE DEF P
  <2> QED BY <1>1, <2>1, PickedIs
<1> QED BY <1>3, <1>4

-----------------------------------------------------------------------------
(* Requests.                                                               *)

\* A request.
IsRequest(r) == r = [model |-> r.model, stream |-> r.stream, system |-> r.system, messages |-> r.messages]

\* A request in the canonical form.
InCanonicalForm(r) == IsRequest(r) /\ Canonicals(r.messages) /\ Prompt(r.system)

\* A request in the form f's client sends.
InForm(f, r) ==
  /\ IsRequest(r) /\ SentAll(f, r.messages) /\ Prompt(r.system)
  /\ f = "openai" => /\ r.system = <<>>
                     /\ \A i \in DOMAIN r.messages : r.messages[i].role = "system" => r.messages[i].blocks[1].text # NoText

\* Where the messages hold no instructions the prompt is all there is.
LEMMA NoMoreInstructions ==
  ASSUME NEW r, IsSystem(r.system), IsSeq(r.messages), \A i \in DOMAIN r.messages : r.messages[i].role # "system"
  PROVE  SystemOf(r) = Each(TextOf, r.system)
<1>1. Gather(InstructionIn, r.messages) = <<>>
  BY NoInstructions
<1> DEFINE texts == Each(TextOf, r.system)
<1>2. IsSeq(texts)
  BY TextsAre DEF IsSystem, Each
<1>3. SystemOf(r) = texts \o Gather(InstructionIn, r.messages)
  BY DEF SystemOf, Each
<1> HIDE DEF texts
<1>4. SystemOf(r) = texts
  BY <1>1, <1>2, <1>3, ConcatNone DEF Gather, Each
<1> QED BY <1>4 DEF texts

\* Only a client of OpenAI sends instructions in messages.
LEMMA RolesSent ==
  ASSUME NEW f \in Formats \ {"openai"}, NEW ms, SentAll(f, ms)
  PROVE  IsSeq(ms) /\ \A i \in DOMAIN ms : ms[i].role # "system"
<1>1. \A i \in DOMAIN ms : Sent(f, ms[i])
  BY DEF SentAll
<1>2. ASSUME NEW i \in DOMAIN ms PROVE ms[i].role # "system"
  <2>1. Sent(f, ms[i])
    BY <1>1
  <2> DEFINE m == ms[i]
  <2> HIDE DEF m
  <2>2. Sent(f, m)
    BY <2>1 DEF m
  <2>3. m.role \in {"user", "assistant", "model"}
    BY <2>2 DEF Sent, Formats
  <2> QED BY <2>3 DEF m
<1> QED BY <1>2 DEF SentAll

\* What the parsers make of a client's request.
LEMMA ToCanonicalTells ==
  ASSUME NEW f \in Formats, NEW b, InForm(f, b)
  PROVE  /\ InCanonicalForm(ToCanonical(f, b)) /\ Each(TextOf, ToCanonical(f, b).system) = SystemOf(b)
         /\ \A w, v : Reads(f, w, v) => ToldOf(w, ToCanonical(f, b).messages) = ToldOf(v, b.messages)
<1> DEFINE r == ToCanonical(f, b)
           ms == b.messages
<1>1. /\ b = [model |-> b.model, stream |-> b.stream, system |-> b.system, messages |-> ms]
      /\ SentAll(f, ms) /\ Prompt(b.system) /\ IsSystem(b.system)
  BY DEF InForm, IsRequest, Prompt
<1>2. f # "openai" => SystemOf(b) = Each(TextOf, b.system)
  BY <1>1, RolesSent, NoMoreInstructions DEF Each
<1>3. CASE f = "claude"
  <2> DEFINE c == Each(ClaudeParsed, ms)
  <2>1. r = [b EXCEPT !.messages = c]
    BY <1>3 DEF ToCanonical, ClaudeToCanonical, Each
  <2>2. \A w, v : Reads("claude", w, v) => Canonicals(c) /\ ToldOf(w, c) = ToldOf(v, ms)
    BY <1>1, <1>3, ClaudeReads DEF Each
  <2>3. Reads("claude", Asks("id"), Asks("id"))
    BY DEF Reads
  <2> HIDE DEF c, r, ms
  <2>4. r = [model |-> b.model, stream |-> b.stream, system |-> b.system, messages |-> c]
    BY <1>1, <2>1
  <2>5. IsRequest(r) /\ r.system = b.system /\ r.messages = c
    BY <2>4 DEF IsRequest
  <2>6. Canonicals(c)
    BY <2>2, <2>3
  <2>7. InCanonicalForm(r)
    BY <1>1, <2>5, <2>6 DEF InCanonicalForm
  <2>8. Each(TextOf, r.system) = SystemOf(b)
    BY <1>2, <1>3, <2>5 DEF Each
  <2>9. \A w, v : Reads(f, w, v) => ToldOf(w, r.messages) = ToldOf(v, ms)
    BY <1>3, <2>2, <2>5
  <2> QED BY <2>7, <2>8, <2>9 DEF r, ms, Each
<1>4. CASE f = "gemini"
  <2> DEFINE c == Each(GeminiParsed, ms)
  <2>0. Where(LAMBDA s : s.text # NoText, b.system) = b.system
    BY <1>1, WholePrompt
  <2>1. r = [b EXCEPT !.system = b.system, !.messages = c]
    <3>1. r = [b EXCEPT !.system = Where(LAMBDA s : s.text # NoText, b.system), !.messages = c]
      BY <1>4 DEF ToCanonical, GeminiToCanonical, Each
    <3> QED BY <2>0, <3>1
  <2>2. \A w, v : Reads("gemini", w, v) => Canonicals(c) /\ ToldOf(w, c) = ToldOf(v, ms)
    BY <1>1, <1>4, GeminiReads DEF Each
  <2>3. Reads("gemini", Asks("id"), Asks("madeId"))
    BY DEF Reads
  <2> HIDE DEF c, r, ms
  <2>4. r = [model |-> b.model, stream |-> b.stream, system |-> b.system, messages |-> c]
    BY <1>1, <2>1
  <2>5. IsRequest(r) /\ r.system = b.system /\ r.messages = c
    BY <2>4 DEF IsRequest
  <2>6. Canonicals(c)
    BY <2>2, <2>3
  <2>7. InCanonicalForm(r)
    BY <1>1, <2>5, <2>6 DEF InCanonicalForm
  <2>8. Each(TextOf, r.system) = SystemOf(b)
    BY <1>2, <1>4, <2>5 DEF Each
  <2>9. \A w, v : Reads(f, w, v) => ToldOf(w, r.messages) = ToldOf(v, ms)
    BY <1>4, <2>2, <2>5
  <2> QED BY <2>7, <2>8, <2>9 DEF r, ms, Each
<1>5. CASE f = "responses"
  <2> DEFINE c == Spoken(ms)
  <2>1. r = [b EXCEPT !.messages = c]
    BY <1>5 DEF ToCanonical, ResponsesToCanonical
  <2>2. \A w, v : Reads("responses", w, v) => Canonicals(c) /\ ToldOf(w, c) = ToldOf(v, ms)
    BY <1>1, <1>5, ResponsesReads
  <2>3. Reads("responses", Asks("id"), Asks("id"))
    BY DEF Reads
  <2> HIDE DEF c, r, ms
  <2>4. r = [model |-> b.model, stream |-> b.stream, system |-> b.system, messages |-> c]
    BY <1>1, <2>1
  <2>5. IsRequest(r) /\ r.system = b.system /\ r.messages = c
    BY <2>4 DEF IsRequest
  <2>6. Canonicals(c)
    BY <2>2, <2>3
  <2>7. InCanonicalForm(r)
    BY <1>1, <2>5, <2>6 DEF InCanonicalForm
  <2>8. Each(TextOf, r.system) = SystemOf(b)
    BY <1>2, <1>5, <2>5 DEF Each
  <2>9. \A w, v : Reads(f, w, v) => ToldOf(w, r.messages) = ToldOf(v, ms)
    BY <1>5, <2>2, <2>5
  <2> QED BY <2>7, <2>8, <2>9 DEF r, ms, Each
<1>6. CASE f = "openai"
  <2> DEFINE c == Gather(OpenAIParsed, ms)
             d == Gather(Instruction, ms)
  <2>1. r = [b EXCEPT !.system = d, !.messages = c]
    BY <1>6 DEF ToCanonical, OpenAIToCanonical
  <2>2. \A w, v : Reads("openai", w, v) => Canonicals(c) /\ ToldOf(w, c) = ToldOf(v, ms)
    BY <1>1, <1>6, OpenAIReads
  <2>3. Reads("openai", Asks("id"), Asks("id"))
    BY DEF Reads
  <2>0. Prompt(d) /\ Each(TextOf, d) = Gather(InstructionIn, ms)
    <3>1. \A i \in DOMAIN ms : ms[i].role = "system" => ms[i].blocks[1].text # NoText
      BY <1>6 DEF InForm
    <3> QED BY <1>1, <1>6, <3>1, InstructionsAre DEF Each
  <2>a. IsSeq(Each(TextOf, d))
    <3>1. IsSeq(d)
      BY <2>0 DEF Prompt, IsSystem
    <3> HIDE DEF d
    <3> QED BY <3>1, TextsAre DEF Each
  <2>b. SystemOf(b) = Each(TextOf, d)
    <3>1. b.system = <<>>
      BY <1>6 DEF InForm
    <3>2. Each(TextOf, <<>>) = <<>>
      BY NoneIs DEF Each
    <3>3. SystemOf(b) = <<>> \o Gather(InstructionIn, ms)
      BY <3>1, <3>2 DEF SystemOf
    <3> HIDE DEF d
    <3> QED BY <2>0, <2>a, <3>3, ConcatNone
  <2> HIDE DEF c, r, ms, d
  <2>4. r = [model |-> b.model, stream |-> b.stream, system |-> d, messages |-> c]
    BY <1>1, <2>1
  <2>5. IsRequest(r) /\ r.system = d /\ r.messages = c
    BY <2>4 DEF IsRequest
  <2>6. Canonicals(c)
    BY <2>2, <2>3
  <2>7. InCanonicalForm(r)
    BY <2>0, <2>5, <2>6 DEF InCanonicalForm
  <2>8. Each(TextOf, r.system) = SystemOf(b)
    BY <2>b, <2>5
  <2>9. \A w, v : Reads(f, w, v) => ToldOf(w, r.messages) = ToldOf(v, ms)
    BY <1>6, <2>2, <2>5
  <2> QED BY <2>7, <2>8, <2>9 DEF r, ms, Each
<1> QED BY <1>3, <1>4, <1>5, <1>6 DEF Formats

\* What is written for a provider.
LEMMA FromCanonicalTells ==
  ASSUME NEW f \in Formats, NEW b, InCanonicalForm(b)
  PROVE  /\ \A w, v : Writes(f, w, v) => ToldOf(w, FromCanonical(f, b).messages) = ToldOf(v, b.messages)
         /\ SystemOf(FromCanonical(f, b)) =
              IF f = "responses" /\ b.system = <<>> THEN <<DefaultInstructions>> ELSE Each(TextOf, b.system)
         /\ f = "claude" => LET m == FromCanonical(f, b).messages
                            IN (m # <<>> => m[1].role = "user") /\ Alternates(m)
<1> DEFINE r == FromCanonical(f, b)
           ms == b.messages
<1>1. /\ b = [model |-> b.model, stream |-> b.stream, system |-> b.system, messages |-> ms]
      /\ Canonicals(ms) /\ Prompt(b.system) /\ IsSystem(b.system)
  BY DEF InCanonicalForm, IsRequest, Prompt
<1>2. CASE f = "claude"
  <2> DEFINE c == Alternating(Merged(Each(ClaudeWritten, ms)))
  <2>1. r = [b EXCEPT !.messages = c]
    BY <1>2 DEF FromCanonical, ClaudeFromCanonical, Each
  <2>2. \A w, v : Writes("claude", w, v) =>
          /\ ToldOf(w, c) = ToldOf(v, ms) /\ AreMessages(c) /\ \A i \in DOMAIN c : c[i].role # "system"
          /\ (c # <<>> => c[1].role = "user") /\ Alternates(c)
    <3> SUFFICES ASSUME NEW w, NEW v, Writes("claude", w, v)
                 PROVE  /\ ToldOf(w, c) = ToldOf(v, ms) /\ AreMessages(c) /\ \A i \in DOMAIN c : c[i].role # "system"
                        /\ (c # <<>> => c[1].role = "user") /\ Alternates(c)
      OBVIOUS
    <3> DEFINE e == c
    <3>1. e = Alternating(Merged(Each(ClaudeWritten, ms)))
      OBVIOUS
    <3> HIDE DEF e
    <3>2. /\ ToldOf(w, e) = ToldOf(v, ms) /\ AreMessages(e) /\ \A i \in DOMAIN e : e[i].role # "system"
          /\ (e # <<>> => e[1].role = "user") /\ Alternates(e)
      BY <1>1, <3>1, ClaudeWrites DEF Each
    <3> QED BY <3>2 DEF e
  <2>3. Writes("claude", Asks("id"), Asks("id"))
    BY DEF Writes
  <2> HIDE DEF c, r, ms
  <2>4. r = [model |-> b.model, stream |-> b.stream, system |-> b.system, messages |-> c]
    BY <1>1, <2>1
  <2>5. r.system = b.system /\ r.messages = c
    BY <2>4
  <2>6. AreMessages(c) /\ (\A i \in DOMAIN c : c[i].role # "system") /\ (c # <<>> => c[1].role = "user") /\ Alternates(c)
    BY <2>2, <2>3
  <2>7. SystemOf(r) = Each(TextOf, b.system)
    <3>1. IsSystem(r.system) /\ IsSeq(r.messages) /\ \A i \in DOMAIN r.messages : r.messages[i].role # "system"
      BY <1>1, <2>5, <2>6 DEF AreMessages
    <3>2. SystemOf(r) = Each(TextOf, r.system)
      BY <3>1, NoMoreInstructions DEF Each
    <3> QED BY <2>5, <3>2 DEF Each
  <2>8. \A w, v : Writes(f, w, v) => ToldOf(w, r.messages) = ToldOf(v, ms)
    BY <1>2, <2>2, <2>5
  <2>9. (r.messages # <<>> => r.messages[1].role = "user") /\ Alternates(r.messages)
    BY <2>5, <2>6
  <2> QED BY <1>2, <2>7, <2>8, <2>9 DEF r, ms, Each
<1>3. CASE f = "gemini"
  <2> DEFINE c == Each(GeminiWritten, ms)
             d == Each(Unmarked, b.system)
  <2>1. r = [b EXCEPT !.system = d, !.messages = c]
    BY <1>3 DEF FromCanonical, GeminiFromCanonical, Each
  <2>2. \A w, v : Writes("gemini", w, v) =>
          ToldOf(w, c) = ToldOf(v, ms) /\ AreMessages(c) /\ \A i \in DOMAIN c : c[i].role # "system"
    <3> SUFFICES ASSUME NEW w, NEW v, Writes("gemini", w, v)
                 PROVE  ToldOf(w, c) = ToldOf(v, ms) /\ AreMessages(c) /\ \A i \in DOMAIN c : c[i].role # "system"
      OBVIOUS
    <3> DEFINE e == c
    <3>1. e = Each(GeminiWritten, ms)
      OBVIOUS
    <3> HIDE DEF e
    <3>2. ToldOf(w, e) = ToldOf(v, ms) /\ AreMessages(e) /\ \A i \in DOMAIN e : e[i].role # "system"
      BY <1>1, <3>1, GeminiWrites DEF Each
    <3> QED BY <3>2 DEF e
  <2>3. Writes("gemini", Asks("name"), Asks("function"))
    BY DEF Writes
  <2>0. IsSystem(d) /\ Each(TextOf, d) = Each(TextOf, b.system)
    BY <1>1, UnmarkedIs DEF Each
  <2> HIDE DEF c, r, ms, d
  <2>4. r = [model |-> b.model, stream |-> b.stream, system |-> d, messages |-> c]
    BY <1>1, <2>1
  <2>5. r.system = d /\ r.messages = c
    BY <2>4
  <2>6. AreMessages(c) /\ \A i \in DOMAIN c : c[i].role # "system"
    BY <2>2, <2>3
  <2>7. SystemOf(r) = Each(TextOf, b.system)
    <3>1. IsSystem(r.system) /\ IsSeq(r.messages) /\ \A i \in DOMAIN r.messages : r.messages[i].role # "system"
      BY <2>0, <2>5, <2>6 DEF AreMessages
    <3>2. SystemOf(r) = Each(TextOf, r.system)
      BY <3>1, NoMoreInstructions DEF Each
    <3> QED BY <2>0, <2>5, <3>2 DEF Each
  <2>8. \A w, v : Writes(f, w, v) => ToldOf(w, r.messages) = ToldOf(v, ms)
    BY <1>3, <2>2, <2>5
  <2> QED BY <1>3, <2>7, <2>8 DEF r, ms, Each
<1>4. CASE f = "responses"
  <2> DEFINE c == Spoken(ms)
             u == Each(Unmarked, b.system)
             said == Where(LAMBDA s : s.text # NoText, u)
             d == IF said = <<>> THEN <<[text |-> DefaultInstructions, cached |-> FALSE]>> ELSE said
  <2>1. r = [b EXCEPT !.system = d, !.messages = c, !.stream = TRUE]
    BY <1>4 DEF FromCanonical, ResponsesFromCanonical, Each, Where, Gather
  <2>2. \A w, v : Writes("responses", w, v) =>
          ToldOf(w, c) = ToldOf(v, ms) /\ AreMessages(c) /\ \A i \in DOMAIN c : c[i].role # "system"
    BY <1>1, ResponsesWrites
  <2>3. Writes("responses", Asks("id"), SaysOf({}))
    BY DEF Writes
  <2>0. IsSystem(u) /\ DOMAIN u = DOMAIN b.system /\ Each(TextOf, u) = Each(TextOf, b.system) /\ said = u
    <3>1. /\ IsSystem(u) /\ DOMAIN u = DOMAIN b.system /\ Each(TextOf, u) = Each(TextOf, b.system)
          /\ \A i \in DOMAIN b.system : u[i].text = b.system[i].text
      BY <1>1, UnmarkedIs DEF Each
    <3> HIDE DEF u
    <3>2. Prompt(u)
      BY <1>1, <3>1 DEF Prompt
    <3>3. said = u
      BY <3>2, WholePrompt
    <3> QED BY <3>1, <3>3
  <2> HIDE DEF c, r, ms, u, said
  <2>4. r = [model |-> b.model, stream |-> TRUE, system |-> d, messages |-> c]
    BY <1>1, <2>1
  <2>5. r.system = d /\ r.messages = c
    BY <2>4
  <2>6. AreMessages(c) /\ \A i \in DOMAIN c : c[i].role # "system"
    BY <2>2, <2>3
  <2>a. u = <<>> <=> b.system = <<>>
    <3>1. IsSeq(u) /\ IsSeq(b.system)
      BY <1>1, <2>0 DEF IsSystem
    <3>2. Len(u) = Len(b.system)
      BY <2>0, <3>1, SeqIs
    <3>3. \A s : IsSeq(s) => (s = <<>> <=> Len(s) = 0)
      BY DEF IsSeq
    <3> QED BY <3>1, <3>2, <3>3
  <2>7. SystemOf(r) = IF b.system = <<>> THEN <<DefaultInstructions>> ELSE Each(TextOf, b.system)
    <3> DEFINE x == [text |-> DefaultInstructions, cached |-> FALSE]
    <3>0. x.text = DefaultInstructions /\ x = [text |-> x.text, cached |-> x.cached]
      OBVIOUS
    <3>1. d = IF u = <<>> THEN <<x>> ELSE u
      BY <2>0
    <3> HIDE DEF d, x
    <3>2. IsSystem(<<x>>) /\ Each(TextOf, <<x>>) = <<DefaultInstructions>>
      <4>1. IsSeq(<<x>>) /\ DOMAIN <<x>> = {1} /\ <<x>>[1] = x
        BY OneIs
      <4> DEFINE t == Each(TextOf, <<x>>)
      <4>2. IsSeq(t) /\ DOMAIN t = {1} /\ t[1] = DefaultInstructions
        BY <3>0, <4>1, TextsAre DEF Each
      <4> HIDE DEF t
      <4>3. Len(t) = 1
        BY <4>2, SeqIs
      <4> DEFINE o == <<DefaultInstructions>>
      <4>4. IsSeq(o) /\ Len(o) = 1 /\ o[1] = DefaultInstructions
        BY OneIs
      <4> HIDE DEF o
      <4>5. t = o
        BY <4>2, <4>3, <4>4, SameSeq
      <4> QED BY <3>0, <4>1, <4>5 DEF IsSystem, t, o
    <3>3. IsSystem(r.system) /\ IsSeq(r.messages) /\ \A i \in DOMAIN r.messages : r.messages[i].role # "system"
      BY <2>0, <2>5, <2>6, <3>1, <3>2 DEF AreMessages
    <3>4. SystemOf(r) = Each(TextOf, r.system)
      BY <3>3, NoMoreInstructions DEF Each
    <3>5. CASE u = <<>>
      BY <2>5, <2>a, <3>1, <3>2, <3>4, <3>5 DEF Each
    <3>6. CASE u # <<>>
      BY <2>0, <2>5, <2>a, <3>1, <3>4, <3>6 DEF Each
    <3> QED BY <3>5, <3>6 DEF Each
  <2>8. \A w, v : Writes(f, w, v) => ToldOf(w, r.messages) = ToldOf(v, ms)
    BY <1>4, <2>2, <2>5
  <2> QED BY <1>4, <2>7, <2>8 DEF r, ms, Each
<1>5. CASE f = "openai"
  <2> DEFINE rest == Gather(OpenAIWritten, ms)
             c == Each(SystemMessage, b.system) \o rest
  <2>1. r = [b EXCEPT !.system = <<>>, !.messages = c]
    BY <1>5 DEF FromCanonical, OpenAIFromCanonical, Each
  <2>2. \A w, v : Writes("openai", w, v) =>
          /\ ToldOf(w, c) = ToldOf(v, ms) /\ AreMessages(rest) /\ \A i \in DOMAIN rest : rest[i].role # "system"
    <3> SUFFICES ASSUME NEW w, NEW v, Writes("openai", w, v)
                 PROVE  /\ ToldOf(w, c) = ToldOf(v, ms) /\ AreMessages(rest)
                        /\ \A i \in DOMAIN rest : rest[i].role # "system"
      OBVIOUS
    <3>1. rest = Conversed(ms) /\ c = Instructed(b.system) \o rest
      BY DEF Conversed, Instructed
    <3> HIDE DEF rest, c
    <3>2. /\ ToldOf(w, Instructed(b.system) \o rest) = ToldOf(v, ms)
          /\ AreMessages(rest) /\ \A i \in DOMAIN rest : rest[i].role # "system"
      BY <1>1, <3>1, OpenAIWrites
    <3> QED BY <3>1, <3>2
  <2>3. Writes("openai", Asks("id"), Asks("id"))
    BY DEF Writes
  <2> HIDE DEF rest
  <2>0. Gather(InstructionIn, c) = Each(TextOf, b.system)
    BY <1>1, <2>2, <2>3, SystemWrittenInMessages DEF Each
  <2> HIDE DEF c, r, ms
  <2>4. r = [model |-> b.model, stream |-> b.stream, system |-> <<>>, messages |-> c]
    BY <1>1, <2>1
  <2>5. r.system = <<>> /\ r.messages = c
    BY <2>4
  <2>7. SystemOf(r) = Each(TextOf, b.system)
    <3>1. Each(TextOf, <<>>) = <<>>
      BY NoneIs DEF Each
    <3> DEFINE t == Each(TextOf, b.system)
    <3>2. IsSeq(t)
      BY <1>1, TextsAre DEF IsSystem, Each
    <3>3. SystemOf(r) = <<>> \o t
      BY <2>0, <2>5, <3>1 DEF SystemOf
    <3> HIDE DEF t
    <3>4. SystemOf(r) = t
      BY <3>2, <3>3, ConcatNone
    <3> QED BY <3>4 DEF t
  <2>8. \A w, v : Writes(f, w, v) => ToldOf(w, r.messages) = ToldOf(v, ms)
    BY <1>5, <2>2, <2>5
  <2> QED BY <1>5, <2>7, <2>8 DEF r, ms, Each
<1> QED BY <1>2, <1>3, <1>4, <1>5 DEF Formats

-----------------------------------------------------------------------------
(* The client's requests.                                                  *)

\* What the assumption on Conversations says of one.
LEMMA ConversationIs ==
  ASSUME NEW c \in Conversations
  PROVE  /\ IsSeq(c)
         /\ \A i \in DOMAIN c :
              /\ c[i].role \in {"user", "assistant"} /\ IsSeq(c[i].kinds) /\ \A j \in DOMAIN c[i].kinds : c[i].kinds[j] \in Kinds
              /\ \A j, k \in DOMAIN c[i].kinds : j < k =>
                   /\ c[i].kinds[k] = "result" => c[i].kinds[j] = "result"
                   /\ c[i].kinds[j] = "call" => c[i].kinds[k] = "call"
              /\ \A j \in DOMAIN c[i].kinds : c[i].kinds[j] = "result" => i > 1 /\ j \in DOMAIN CallsOf(c[i - 1].kinds)
<1> DEFINE T == [role : {"user", "assistant"}, kinds : Seq(Kinds)]
<1>1. c \in Seq(T)
  BY ConversationsAssumption
<1>2. IsSeq(c) /\ \A i \in DOMAIN c : c[i] \in T
  <2> HIDE DEF T
  <2> QED BY <1>1 DEF IsSeq
<1>3. \A i \in DOMAIN c : c[i].role \in {"user", "assistant"} /\ c[i].kinds \in Seq(Kinds)
  BY <1>2
<1>4. \A s \in Seq(Kinds) : IsSeq(s) /\ \A j \in DOMAIN s : s[j] \in Kinds
  BY DEF IsSeq
<1> QED BY <1>2, <1>3, <1>4, ConversationsAssumption

\* The text written at a place.
LEMMA TextIs ==
  ASSUME NEW at
  PROVE  Text(at) = [at |-> Text(at).at, short |-> Text(at).short] /\ Text(at).at = at
BY DEF Text

\* A block of a turn: a call is known by its id and its name, an answer by
\* those of its call in the turn before.
LEMMA BlockAtIs ==
  ASSUME NEW c \in Conversations, NEW i \in DOMAIN c, NEW j \in DOMAIN c[i].kinds
  PROVE  /\ IsBlock(BlockAt(c, i, j)) /\ BlockAt(c, i, j).kind = c[i].kinds[j]
         /\ c[i].kinds[j] = "call" => BlockAt(c, i, j).id = CallId(i, j) /\ BlockAt(c, i, j).name = <<"f", j>>
         /\ c[i].kinds[j] = "result" =>
              /\ BlockAt(c, i, j).id = CallId(i - 1, CallsOf(c[i - 1].kinds)[j])
              /\ BlockAt(c, i, j).name = <<"f", CallsOf(c[i - 1].kinds)[j]>>
<1> DEFINE kind == c[i].kinds[j]
           t == Text(<<i, j>>)
           e == CallsOf(c[i - 1].kinds)[j]
           id == CASE kind = "call" -> CallId(i, j)
                   [] kind = "result" -> CallId(i - 1, e)
                   [] OTHER -> NoId
           name == CASE kind = "call" -> <<"f", j>>
                     [] kind = "result" -> <<"f", e>>
                     [] OTHER -> <<>>
           b == BlockAt(c, i, j)
<1>1. b = [kind |-> kind, text |-> t, id |-> id, name |-> name]
  BY DEF BlockAt
<1>2. kind \in Kinds
  BY ConversationIs
<1>3. t = [at |-> t.at, short |-> t.short]
  BY TextIs
<1>4. kind = "call" => id = CallId(i, j) /\ name = <<"f", j>>
  OBVIOUS
<1>5. kind = "result" => id = CallId(i - 1, e) /\ name = <<"f", e>>
  OBVIOUS
<1> HIDE DEF b, t, id, name
<1>6. b.kind = kind /\ b.text = t /\ b.id = id /\ b.name = name
  BY <1>1
<1>7. IsBlock(b)
  BY <1>1, <1>2, <1>3, <1>6 DEF IsBlock
<1> QED BY <1>4, <1>5, <1>6, <1>7 DEF b

\* A turn is a message, its blocks in order.
LEMMA TurnIs ==
  ASSUME NEW c \in Conversations, NEW i \in DOMAIN c
  PROVE  /\ IsMessage(Turns(c)[i]) /\ Turns(c)[i].role = c[i].role
         /\ Turns(c)[i].role \in {"user", "assistant"}
         /\ DOMAIN Turns(c)[i].blocks = DOMAIN c[i].kinds
         /\ \A j \in DOMAIN c[i].kinds : Turns(c)[i].blocks[j] = BlockAt(c, i, j)
         /\ Blocks(Turns(c)[i].blocks) /\ InOrder(Turns(c)[i].blocks)
<1> DEFINE s == [j \in DOMAIN c[i].kinds |-> BlockAt(c, i, j)]
           m == Turns(c)[i]
<1>1. m = Message(c[i].role, s)
  BY DEF Turns
<1>2. s = [j \in DOMAIN c[i].kinds |-> s[j]] /\ \A j \in DOMAIN c[i].kinds : s[j] = BlockAt(c, i, j)
  OBVIOUS
<1> HIDE DEF s, m
<1>3. IsSeq(c[i].kinds) /\ c[i].role \in {"user", "assistant"}
  BY ConversationIs
<1>4. IsSeq(s) /\ DOMAIN s = DOMAIN c[i].kinds
  BY <1>2, <1>3, MapIs
<1>5. IsMessage(m) /\ m.role = c[i].role /\ m.blocks = s
  BY <1>1, <1>4, MessageIs
<1>6. \A j \in DOMAIN s : IsBlock(s[j]) /\ s[j].kind = c[i].kinds[j]
  BY <1>2, <1>4, BlockAtIs
<1>7. \A j, k \in DOMAIN s : j < k => /\ c[i].kinds[k] = "result" => c[i].kinds[j] = "result"
                                      /\ c[i].kinds[j] = "call" => c[i].kinds[k] = "call"
  BY <1>4, ConversationIs
<1>8. Blocks(s) /\ InOrder(s)
  BY <1>4, <1>6, <1>7 DEF Blocks, InOrder
<1> QED BY <1>2, <1>3, <1>4, <1>5, <1>8 DEF m

\* The turns of a conversation.
LEMMA TurnsAre ==
  ASSUME NEW c \in Conversations
  PROVE  AreMessages(Turns(c)) /\ DOMAIN Turns(c) = DOMAIN c
<1>1. Turns(c) = [i \in DOMAIN c |-> Turns(c)[i]]
  BY DEF Turns
<1>2. IsSeq(Turns(c)) /\ DOMAIN Turns(c) = DOMAIN c
  BY <1>1, ConversationIs, MapIs
<1> QED BY <1>2, TurnIs DEF AreMessages

-----------------------------------------------------------------------------
(* Answers and calls.                                                      *)

\* A call of a turn is one of its blocks.
LEMMA CallsOfIs ==
  ASSUME NEW kinds, IsSeq(kinds), NEW j \in DOMAIN CallsOf(kinds)
  PROVE  CallsOf(kinds)[j] \in DOMAIN kinds /\ kinds[CallsOf(kinds)[j]] = "call"
<1> DEFINE s == [i \in DOMAIN kinds |-> i]
           P == {i \in DOMAIN kinds : kinds[i] = "call"}
<1>1. s = [i \in DOMAIN kinds |-> s[i]] /\ \A i \in DOMAIN kinds : s[i] = i
  OBVIOUS
<1>2. CallsOf(kinds) = Picked(s, P)
  <2>1. CallsOf(kinds) = FlattenSeq([i \in DOMAIN s |-> IF kinds[s[i]] = "call" THEN <<s[i]>> ELSE <<>>])
    BY DEF CallsOf, Where, Gather, Each
  <2>2. [i \in DOMAIN s |-> IF kinds[s[i]] = "call" THEN <<s[i]>> ELSE <<>>] = [i \in DOMAIN s |-> IF i \in P THEN <<s[i]>> ELSE <<>>]
    OBVIOUS
  <2> QED BY <2>1, <2>2 DEF Picked
<1>3. \A i \in P : i \in DOMAIN kinds /\ kinds[i] = "call"
  OBVIOUS
<1> HIDE DEF s, P
<1>4. IsSeq(s) /\ DOMAIN s = DOMAIN kinds
  BY <1>1, MapIs
<1>5. \A k \in DOMAIN Picked(s, P) : \E i \in DOMAIN s : i \in P /\ Picked(s, P)[k] = s[i]
  BY <1>4, PickedIs
<1> QED BY <1>1, <1>2, <1>3, <1>4, <1>5

\* Each answer is to a call of the turn before.
LEMMA AnsweredByTurns ==
  ASSUME NEW ss, IsSeqs(ss),
         \A i \in DOMAIN ss : \A p \in DOMAIN ss[i] : ss[i][p].kind = "result" =>
           i > 1 /\ \E q \in DOMAIN ss[i - 1] : ss[i - 1][q].kind = "call" /\ ss[i - 1][q].of = ss[i][p].of
  PROVE  Answered(FlattenSeq(ss))
<1> DEFINE n == Len(ss)
<1>1. PICK f : IsChain(f, ss)
  BY FlattenChain
<1>2. n \in Nat /\ DOMAIN ss = 1 .. n /\ \A i \in 1 .. n : IsSeq(ss[i])
  BY SeqIs DEF IsSeqs
<1>3. /\ f[0] = <<>> /\ f[n] = FlattenSeq(ss)
      /\ \A k \in 0 .. n : IsSeq(f[k])
      /\ \A k \in 1 .. n : f[k] = f[k - 1] \o ss[k]
  BY <1>1 DEF IsChain
<1> HIDE DEF n
<1> DEFINE B == {k \in 0 .. n : ~ Answered(f[k])}
<1>4. ASSUME NEW k \in 1 .. n, Answered(f[k - 1]) PROVE Answered(f[k])
  <2> DEFINE a == f[k - 1]
             b == ss[k]
             c == f[k]
  <2>1. k - 1 \in 0 .. n /\ k \in Nat
    BY <1>2
  <2>2. IsSeq(a) /\ IsSeq(b) /\ c = a \o b /\ Answered(a)
    BY <1>2, <1>3, <1>4, <2>1
  <2>3. /\ IsSeq(c) /\ Len(c) = Len(a) + Len(b)
        /\ \A i \in 1 .. Len(a) + Len(b) : c[i] = IF i <= Len(a) THEN a[i] ELSE b[i - Len(a)]
    <3> HIDE DEF a, b, c
    <3> QED BY <2>2, ConcatIs
  <2>4. /\ Len(a) \in Nat /\ Len(b) \in Nat /\ DOMAIN a = 1 .. Len(a) /\ DOMAIN b = 1 .. Len(b)
        /\ DOMAIN c = 1 .. Len(a) + Len(b)
    BY <2>2, <2>3, SeqIs
  <2>5. \A p \in DOMAIN b : b[p].kind = "result" =>
          \E e \in DOMAIN a : a[e].kind = "call" /\ a[e].of = b[p].of
    <3> SUFFICES ASSUME NEW p \in DOMAIN b, b[p].kind = "result"
                 PROVE  \E e \in DOMAIN a : a[e].kind = "call" /\ a[e].of = b[p].of
      OBVIOUS
    <3> DEFINE d == ss[k - 1]
    <3>1. k > 1 /\ \E q \in DOMAIN d : d[q].kind = "call" /\ d[q].of = b[p].of
      BY <1>2
    <3>2. PICK q \in DOMAIN d : d[q].kind = "call" /\ d[q].of = b[p].of
      BY <3>1
    <3> DEFINE o == f[k - 2]
    <3>3. k - 1 \in 1 .. n /\ k - 2 \in 0 .. n /\ (k - 1) - 1 = k - 2
      BY <1>2, <2>1, <3>1
    <3>4. a = o \o d /\ IsSeq(o) /\ IsSeq(d)
      <4>1. f[k - 1] = f[(k - 1) - 1] \o ss[k - 1]
        BY <1>3, <3>3
      <4> QED BY <1>2, <1>3, <3>3, <4>1
    <3> HIDE DEF o, d, a, b
    <3>5. /\ Len(a) = Len(o) + Len(d)
          /\ \A i \in 1 .. Len(o) + Len(d) : a[i] = IF i <= Len(o) THEN o[i] ELSE d[i - Len(o)]
      BY <3>4, ConcatIs
    <3>6. Len(o) \in Nat /\ Len(d) \in Nat /\ DOMAIN d = 1 .. Len(d)
      BY <3>4, SeqIs
    <3>7. q + Len(o) \in 1 .. Len(o) + Len(d) /\ ~ (q + Len(o) <= Len(o)) /\ (q + Len(o)) - Len(o) = q
      BY <3>2, <3>6
    <3>8. a[q + Len(o)] = d[q] /\ q + Len(o) \in DOMAIN a
      BY <2>4, <3>5, <3>7
    <3> QED BY <3>2, <3>8
  <2>6. \A e \in DOMAIN a : a[e].kind = "result" => \E x \in 1 .. e - 1 : a[x].kind = "call" /\ a[x].of = a[e].of
    BY <2>2 DEF Answered
  <2> HIDE DEF a, b, c
  <2>7. ASSUME NEW e \in DOMAIN c, c[e].kind = "result"
        PROVE  \E x \in 1 .. e - 1 : c[x].kind = "call" /\ c[x].of = c[e].of
    <3>1. CASE e <= Len(a)
      <4>1. e \in DOMAIN a /\ c[e] = a[e]
        BY <2>3, <2>4, <3>1
      <4>2. PICK x \in 1 .. e - 1 : a[x].kind = "call" /\ a[x].of = a[e].of
        BY <2>6, <2>7, <4>1
      <4>3. c[x] = a[x]
        BY <2>3, <2>4, <4>1, <4>2
      <4> QED BY <4>1, <4>2, <4>3
    <3>2. CASE ~ (e <= Len(a))
      <4>1. e - Len(a) \in DOMAIN b /\ c[e] = b[e - Len(a)]
        BY <2>3, <2>4, <3>2
      <4>2. PICK x \in DOMAIN a : a[x].kind = "call" /\ a[x].of = c[e].of
        BY <2>5, <2>7, <4>1
      <4>3. x \in 1 .. e - 1 /\ c[x] = a[x]
        BY <2>3, <2>4, <3>2, <4>2
      <4> QED BY <4>2, <4>3
    <3> QED BY <3>1, <3>2
  <2>8. Answered(c)
    BY <2>7 DEF Answered
  <2> QED BY <2>8 DEF c
<1>5. B = {}
  <2> SUFFICES ASSUME B # {} PROVE FALSE
    OBVIOUS
  <2>1. B \in SUBSET Nat
    BY <1>2
  <2>2. PICK k \in B : \A j \in B : k <= j
    <3> HIDE DEF B
    <3> QED BY <2>1, SmallestNatIn
  <2>3. k \in 0 .. n /\ ~ Answered(f[k])
    OBVIOUS
  <2>4. k # 0
    <3>1. Answered(<<>>)
      BY NoneIs DEF Answered
    <3> QED BY <1>3, <2>3, <3>1
  <2>5. k \in 1 .. n /\ k - 1 \in 0 .. n /\ ~ (k <= k - 1)
    BY <1>2, <2>3, <2>4
  <2>6. k - 1 \notin B
    <3> HIDE DEF B
    <3> QED BY <2>2, <2>5
  <2>7. Answered(f[k - 1])
    BY <2>5, <2>6
  <2> HIDE DEF B
  <2> QED BY <1>4, <2>3, <2>5, <2>7
<1>6. Answered(f[n])
  <2>1. n \in 0 .. n
    BY <1>2
  <2> QED BY <1>5, <2>1
<1> QED BY <1>3, <1>6

\* What the blocks of a turn are known by.
NameOf(how, b) == CASE how = "id" -> b.id [] how = "madeId" -> GeminiId(b.name) [] how = "name" -> b.name

\* Asked for calls and answers, a block tells whether it is one.
LEMMA ActOfBlock ==
  ASSUME NEW how \in {"id", "madeId", "name"}, NEW m, m.role \in {"user", "assistant", "model"}, NEW b
  PROVE  Tells(Asks(how), m, b) =
           IF b.kind \in {"call", "result"} THEN <<[kind |-> b.kind, of |-> NameOf(how, b)]>> ELSE <<>>
<1> DEFINE v == Asks(how)
<1>1. v.asks = how
  BY DEF Asks
<1> HIDE DEF v
<1>2. KindIn(m, b) = b.kind
  BY DEF KindIn
<1>3. Known(v, m, b) = NameOf(how, b)
  BY <1>1 DEF Known, NameOf
<1>4. Tells(v, m, b) = ActKnown(v, m, b)
  BY <1>1 DEF Tells
<1> QED BY <1>2, <1>3, <1>4 DEF ActKnown, v

\* In a conversation every answer has its call before it.
LEMMA TurnsAnswered ==
  ASSUME NEW c \in Conversations, NEW how \in {"id", "madeId", "name"}
  PROVE  Answered(ToldOf(Asks(how), Turns(c)))
<1> DEFINE v == Asks(how)
           ss == [i \in DOMAIN c |-> ToldIn(v, Turns(c)[i])]
<1>1. AreMessages(Turns(c)) /\ DOMAIN Turns(c) = DOMAIN c /\ IsSeq(c)
  BY TurnsAre, ConversationIs
<1>2. ToldOf(v, Turns(c)) = FlattenSeq(ss)
  BY <1>1 DEF ToldOf
<1>3. ss = [i \in DOMAIN c |-> ss[i]] /\ \A i \in DOMAIN c : ss[i] = ToldIn(v, Turns(c)[i])
  OBVIOUS
<1> HIDE DEF ss
<1>4. IsSeq(ss) /\ DOMAIN ss = DOMAIN c
  BY <1>1, <1>3, MapIs
<1>5. ASSUME NEW i \in DOMAIN c
      PROVE  /\ IsSeq(ss[i])
             /\ \A p \in DOMAIN ss[i] : \E j \in DOMAIN c[i].kinds :
                  /\ c[i].kinds[j] \in {"call", "result"}
                  /\ ss[i][p] = [kind |-> c[i].kinds[j], of |-> NameOf(how, BlockAt(c, i, j))]
             /\ \A j \in DOMAIN c[i].kinds : c[i].kinds[j] = "call" =>
                  \E p \in DOMAIN ss[i] : ss[i][p] = [kind |-> "call", of |-> NameOf(how, BlockAt(c, i, j))]
  <2> DEFINE m == Turns(c)[i]
             s == m.blocks
             t == ToldEach(v, m, s)
             act(j) == [kind |-> c[i].kinds[j], of |-> NameOf(how, BlockAt(c, i, j))]
  <2>1. /\ IsMessage(m) /\ m.role \in {"user", "assistant"} /\ DOMAIN s = DOMAIN c[i].kinds /\ IsSeq(s)
        /\ \A j \in DOMAIN c[i].kinds : s[j] = BlockAt(c, i, j)
    BY TurnIs DEF Blocks
  <2>2. \A j \in DOMAIN c[i].kinds : BlockAt(c, i, j).kind = c[i].kinds[j]
    BY BlockAtIs
  <2> HIDE DEF m
  <2>3. /\ IsSeqs(t) /\ DOMAIN t = DOMAIN s /\ Len(t) = Len(s) /\ Told(v, m, s) = FlattenSeq(t)
        /\ \A j \in DOMAIN s : t[j] = Tells(v, m, s[j])
    BY <2>1, ToldEachIs
  <2>4. ASSUME NEW j \in DOMAIN s
        PROVE  t[j] = IF c[i].kinds[j] \in {"call", "result"} THEN <<act(j)>> ELSE <<>>
    <3> DEFINE b == BlockAt(c, i, j)
    <3>1. t[j] = Tells(v, m, b) /\ b.kind = c[i].kinds[j]
      BY <2>1, <2>2, <2>3
    <3>2. m.role \in {"user", "assistant", "model"}
      BY <2>1
    <3> HIDE DEF b, t
    <3>3. Tells(Asks(how), m, b) = IF b.kind \in {"call", "result"} THEN <<[kind |-> b.kind, of |-> NameOf(how, b)]>> ELSE <<>>
      BY <3>2, ActOfBlock
    <3> QED BY <3>1, <3>3 DEF b
  <2>5. ss[i] = FlattenSeq(t)
    BY <1>3, <2>3 DEF ToldIn, m
  <2> HIDE DEF t, act, s, v
  <2>6. IsSeq(ss[i]) /\ t = [j \in 1 .. Len(t) |-> t[j]] /\ Len(t) \in Nat /\ DOMAIN t = 1 .. Len(t)
    BY <2>3, <2>5, FlattenSeqs, SeqIs DEF IsSeqs
  <2>7. ASSUME NEW p \in DOMAIN ss[i]
        PROVE  \E j \in DOMAIN c[i].kinds : c[i].kinds[j] \in {"call", "result"} /\ ss[i][p] = act(j)
    <3>1. \A j \in 1 .. Len(t) : IsSeq(t[j])
      BY <2>3, <2>6 DEF IsSeqs
    <3>2. \A k \in DOMAIN FlattenSeq(t) : \E j \in 1 .. Len(t) : \E q \in DOMAIN t[j] : FlattenSeq(t)[k] = t[j][q]
      BY <2>6, <3>1, FlattenIs
    <3>3. PICK j \in DOMAIN t : \E q \in DOMAIN t[j] : ss[i][p] = t[j][q]
      BY <2>5, <2>6, <3>2
    <3>4. PICK q \in DOMAIN t[j] : ss[i][p] = t[j][q]
      BY <3>3
    <3>5. c[i].kinds[j] \in {"call", "result"} /\ t[j] = <<act(j)>>
      BY <2>3, <2>4, <3>4, NoneIs
    <3>6. ss[i][p] = act(j)
      BY <3>4, <3>5, OneIs
    <3> QED BY <2>1, <2>3, <3>5, <3>6
  <2>8. ASSUME NEW j \in DOMAIN c[i].kinds, c[i].kinds[j] = "call"
        PROVE  \E p \in DOMAIN ss[i] : ss[i][p] = act(j)
    <3>1. j \in DOMAIN t /\ t[j] = <<act(j)>>
      BY <2>1, <2>3, <2>4, <2>8
    <3>2. 1 \in DOMAIN t[j] /\ t[j][1] = act(j)
      BY <3>1, OneIs
    <3> QED BY <2>3, <2>5, <3>1, <3>2, FlattenHas
  <2> QED BY <2>6, <2>7, <2>8 DEF act
<1>6. ASSUME NEW i \in DOMAIN ss, NEW p \in DOMAIN ss[i], ss[i][p].kind = "result"
      PROVE  i > 1 /\ \E q \in DOMAIN ss[i - 1] : ss[i - 1][q].kind = "call" /\ ss[i - 1][q].of = ss[i][p].of
  <2>1. PICK j \in DOMAIN c[i].kinds :
          /\ c[i].kinds[j] \in {"call", "result"}
          /\ ss[i][p] = [kind |-> c[i].kinds[j], of |-> NameOf(how, BlockAt(c, i, j))]
    BY <1>4, <1>5
  <2>2. i \in DOMAIN c /\ c[i].kinds[j] = "result" /\ ss[i][p].of = NameOf(how, BlockAt(c, i, j))
    BY <1>4, <1>6, <2>1
  <2> DEFINE h == i - 1
             e == CallsOf(c[h].kinds)[j]
  <2>3. i > 1 /\ j \in DOMAIN CallsOf(c[h].kinds)
    BY <2>2, ConversationIs
  <2>4. h \in DOMAIN c
    <3>1. DOMAIN c = 1 .. Len(c) /\ Len(c) \in Nat
      BY <1>1, SeqIs
    <3> QED BY <2>2, <2>3, <3>1
  <2>5. BlockAt(c, i, j).id = CallId(h, e) /\ BlockAt(c, i, j).name = <<"f", e>>
    BY <2>2, BlockAtIs
  <2>6. e \in DOMAIN c[h].kinds /\ c[h].kinds[e] = "call"
    <3> HIDE DEF h
    <3>1. IsSeq(c[h].kinds)
      BY <2>4, ConversationIs
    <3> QED BY <2>3, <3>1, CallsOfIs
  <2> HIDE DEF h, e
  <2>7. BlockAt(c, h, e).id = CallId(h, e) /\ BlockAt(c, h, e).name = <<"f", e>>
    BY <2>4, <2>6, BlockAtIs
  <2>8. NameOf(how, BlockAt(c, h, e)) = NameOf(how, BlockAt(c, i, j))
    BY <2>5, <2>7 DEF NameOf
  <2>9. PICK q \in DOMAIN ss[h] : ss[h][q] = [kind |-> "call", of |-> NameOf(how, BlockAt(c, h, e))]
    BY <1>5, <2>4, <2>6
  <2>10. ss[h][q].kind = "call" /\ ss[h][q].of = ss[i][p].of
    BY <2>2, <2>8, <2>9
  <2> QED BY <2>3, <2>9, <2>10 DEF h
<1>7. IsSeqs(ss)
  BY <1>4, <1>5 DEF IsSeqs
<1>8. Answered(FlattenSeq(ss))
  BY <1>6, <1>7, AnsweredByTurns
<1> QED BY <1>2, <1>8 DEF v

-----------------------------------------------------------------------------
(* The bodies of the four APIs.                                            *)

\* Turns with each block rewritten, for APIs that send them one by one.
LEMMA RewrittenTurn ==
  ASSUME NEW c \in Conversations, NEW i \in DOMAIN c, NEW role \in {"user", "assistant", "model"},
         NEW s, s = [j \in DOMAIN c[i].kinds |-> s[j]], NEW how \in {"id", "madeId", "name"},
         \A j \in DOMAIN c[i].kinds :
           /\ IsBlock(s[j]) /\ s[j].kind = c[i].kinds[j]
           /\ NameOf(how, s[j]) = NameOf(how, BlockAt(c, i, j)),
         NEW l, l = Message(role, s)
  PROVE  /\ IsMessage(l) /\ l.role = role /\ l.blocks = s /\ Blocks(s) /\ InOrder(s)
         /\ DOMAIN s = DOMAIN c[i].kinds
         /\ ToldIn(Asks(how), l) = ToldIn(Asks(how), Turns(c)[i])
<1> DEFINE m == Turns(c)[i]
<1>1. IsSeq(s) /\ DOMAIN s = DOMAIN c[i].kinds
  <2>1. IsSeq(c[i].kinds)
    BY ConversationIs
  <2> QED BY <2>1, MapIs
<1>2. IsMessage(l) /\ l.role = role /\ l.blocks = s
  BY <1>1, MessageIs
<1>3. /\ m.role \in {"user", "assistant"} /\ DOMAIN m.blocks = DOMAIN c[i].kinds
      /\ \A j \in DOMAIN c[i].kinds : m.blocks[j] = BlockAt(c, i, j)
  BY TurnIs
<1> HIDE DEF m
<1>4. Blocks(s) /\ InOrder(s)
  <2>1. \A j, k \in DOMAIN s : j < k => /\ c[i].kinds[k] = "result" => c[i].kinds[j] = "result"
                                        /\ c[i].kinds[j] = "call" => c[i].kinds[k] = "call"
    BY <1>1, ConversationIs
  <2> QED BY <1>1, <2>1 DEF Blocks, InOrder
<1>5. ASSUME NEW j \in DOMAIN m.blocks
      PROVE  Tells(Asks(how), l, s[j]) = Tells(Asks(how), m, m.blocks[j])
  <2> DEFINE b == BlockAt(c, i, j)
             x == s[j]
  <2>1. m.blocks[j] = b /\ x.kind = c[i].kinds[j] /\ NameOf(how, x) = NameOf(how, b) /\ b.kind = c[i].kinds[j]
    BY <1>3, BlockAtIs
  <2>2. l.role \in {"user", "assistant", "model"} /\ m.role \in {"user", "assistant", "model"}
    BY <1>2, <1>3
  <2> HIDE DEF b, x
  <2>3. Tells(Asks(how), l, x) = IF x.kind \in {"call", "result"} THEN <<[kind |-> x.kind, of |-> NameOf(how, x)]>> ELSE <<>>
    BY <2>2, ActOfBlock
  <2>4. Tells(Asks(how), m, b) = IF b.kind \in {"call", "result"} THEN <<[kind |-> b.kind, of |-> NameOf(how, b)]>> ELSE <<>>
    BY <2>2, ActOfBlock
  <2>5. Tells(Asks(how), l, x) = Tells(Asks(how), m, b)
    BY <2>1, <2>3, <2>4
  <2> QED BY <2>1, <2>5 DEF x
<1>6. Told(Asks(how), l, s) = Told(Asks(how), m, m.blocks)
  BY <1>1, <1>3, <1>5, ToldMapped
<1> QED BY <1>1, <1>2, <1>4, <1>6 DEF ToldIn, m

\* A block without a name is known by its id.
LEMMA UnnamedIs ==
  ASSUME NEW b, IsBlock(b)
  PROVE  IsBlock(Unnamed(b)) /\ Unnamed(b).kind = b.kind /\ Unnamed(b).id = b.id
<1> DEFINE c == Unnamed(b)
<1>1. b = [kind |-> b.kind, text |-> b.text, id |-> b.id, name |-> b.name]
  BY DEF IsBlock
<1>2. CASE b.kind = "result"
  <2>1. c = [b EXCEPT !.name = <<>>]
    BY <1>2 DEF Unnamed
  <2> HIDE DEF c
  <2>2. c = [kind |-> b.kind, text |-> b.text, id |-> b.id, name |-> <<>>]
    BY <1>1, <2>1
  <2>3. IsBlock(c) /\ c.kind = b.kind /\ c.id = b.id
    BY <2>2 DEF IsBlock
  <2> QED BY <2>3 DEF c
<1>3. CASE b.kind # "result"
  BY <1>3 DEF Unnamed
<1> QED BY <1>2, <1>3

\* A block without an id is known by its name.
LEMMA WithoutIdIs ==
  ASSUME NEW b, IsBlock(b)
  PROVE  IsBlock(WithoutId(b)) /\ WithoutId(b).kind = b.kind /\ WithoutId(b).name = b.name
<1> DEFINE c == WithoutId(b)
<1>1. b = [kind |-> b.kind, text |-> b.text, id |-> b.id, name |-> b.name]
  BY DEF IsBlock
<1>2. c = [b EXCEPT !.id = NoId]
  BY DEF WithoutId
<1> HIDE DEF c
<1>3. c = [kind |-> b.kind, text |-> b.text, id |-> NoId, name |-> b.name]
  BY <1>1, <1>2
<1>4. IsBlock(c) /\ c.kind = b.kind /\ c.name = b.name
  BY <1>3 DEF IsBlock
<1> QED BY <1>4 DEF c

\* What a client of Claude or Responses sends.
LEMMA WithIdsBody ==
  ASSUME NEW c \in Conversations, NEW f \in {"claude", "responses"},
         f = "responses" => \A i \in DOMAIN c : \A j \in DOMAIN c[i].kinds : c[i].kinds[j] \in Carries(f)
  PROVE  /\ SentAll(f, Each(WithIds, Turns(c)))
         /\ ToldOf(Asks("id"), Each(WithIds, Turns(c))) = ToldOf(Asks("id"), Turns(c))
<1> DEFINE t == Turns(c)
           ms == [i \in DOMAIN t |-> WithIds(t[i])]
<1>1. ms = [i \in DOMAIN t |-> ms[i]] /\ \A i \in DOMAIN t : ms[i] = WithIds(t[i])
  OBVIOUS
<1>2. Each(WithIds, t) = ms
  BY DEF Each
<1> HIDE DEF ms
<1>3. IsSeq(t) /\ DOMAIN t = DOMAIN c
  BY TurnsAre DEF AreMessages
<1>4. IsSeq(ms) /\ DOMAIN ms = DOMAIN c
  BY <1>1, <1>3, MapIs
<1>5. ASSUME NEW i \in DOMAIN c
      PROVE  Sent(f, ms[i]) /\ ToldIn(Asks("id"), ms[i]) = ToldIn(Asks("id"), t[i])
  <2> DEFINE m == t[i]
             l == ms[i]
             s == [j \in DOMAIN m.blocks |-> Unnamed(m.blocks[j])]
  <2>1. l = Message(m.role, s)
    BY <1>1, <1>3 DEF WithIds, Each
  <2>2. /\ m.role \in {"user", "assistant"} /\ DOMAIN m.blocks = DOMAIN c[i].kinds /\ Blocks(m.blocks)
        /\ \A j \in DOMAIN c[i].kinds : m.blocks[j] = BlockAt(c, i, j)
    BY TurnIs
  <2>3. s = [j \in DOMAIN c[i].kinds |-> s[j]] /\ \A j \in DOMAIN c[i].kinds : s[j] = Unnamed(BlockAt(c, i, j))
    BY <2>2
  <2> HIDE DEF l, s
  <2>4. ASSUME NEW j \in DOMAIN c[i].kinds
        PROVE  IsBlock(s[j]) /\ s[j].kind = c[i].kinds[j] /\ NameOf("id", s[j]) = NameOf("id", BlockAt(c, i, j))
    <3> DEFINE b == BlockAt(c, i, j)
    <3>1. IsBlock(b) /\ b.kind = c[i].kinds[j] /\ s[j] = Unnamed(b)
      BY <2>3, BlockAtIs
    <3> HIDE DEF b
    <3>2. IsBlock(s[j]) /\ s[j].kind = c[i].kinds[j] /\ s[j].id = b.id
      BY <3>1, UnnamedIs
    <3> QED BY <3>2 DEF NameOf, b
  <2>5. /\ IsMessage(l) /\ l.role = m.role /\ l.blocks = s /\ Blocks(s) /\ InOrder(s)
        /\ DOMAIN s = DOMAIN c[i].kinds
        /\ ToldIn(Asks("id"), l) = ToldIn(Asks("id"), Turns(c)[i])
    <3> HIDE DEF m
    <3> QED BY <2>1, <2>2, <2>3, <2>4, RewrittenTurn
  <2>6. Sent(f, l)
    <3>1. f = "responses" => \A j \in DOMAIN s : s[j].kind \in Carries(f)
      BY <2>4, <2>5
    <3> HIDE DEF m
    <3> QED BY <2>2, <2>5, <3>1 DEF Sent
  <2> QED BY <2>5, <2>6 DEF l
<1>6. SentAll(f, ms)
  BY <1>4, <1>5 DEF SentAll
<1>7. ToldOf(Asks("id"), ms) = ToldOf(Asks("id"), t)
  BY <1>3, <1>4, <1>5, ToldOfMapped
<1> QED BY <1>2, <1>6, <1>7 DEF Each

\* What a client of Gemini sends.
LEMMA ForGeminiBody ==
  ASSUME NEW c \in Conversations, NEW how \in {"madeId", "name"},
         \A i \in DOMAIN c : \A j \in DOMAIN c[i].kinds : c[i].kinds[j] \in Carries("gemini")
  PROVE  /\ SentAll("gemini", Each(ForGemini, Turns(c)))
         /\ ToldOf(Asks(how), Each(ForGemini, Turns(c))) = ToldOf(Asks(how), Turns(c))
<1> DEFINE t == Turns(c)
           ms == [i \in DOMAIN t |-> ForGemini(t[i])]
<1>1. ms = [i \in DOMAIN t |-> ms[i]] /\ \A i \in DOMAIN t : ms[i] = ForGemini(t[i])
  OBVIOUS
<1>2. Each(ForGemini, t) = ms
  BY DEF Each
<1> HIDE DEF ms
<1>3. IsSeq(t) /\ DOMAIN t = DOMAIN c
  BY TurnsAre DEF AreMessages
<1>4. IsSeq(ms) /\ DOMAIN ms = DOMAIN c
  BY <1>1, <1>3, MapIs
<1>5. ASSUME NEW i \in DOMAIN c
      PROVE  Sent("gemini", ms[i]) /\ ToldIn(Asks(how), ms[i]) = ToldIn(Asks(how), t[i])
  <2> DEFINE m == t[i]
             l == ms[i]
             role == IF m.role = "assistant" THEN "model" ELSE "user"
             s == [j \in DOMAIN m.blocks |-> WithoutId(m.blocks[j])]
  <2>1. l = Message(role, s)
    BY <1>1, <1>3 DEF ForGemini, Each
  <2>2. /\ DOMAIN m.blocks = DOMAIN c[i].kinds /\ Blocks(m.blocks)
        /\ \A j \in DOMAIN c[i].kinds : m.blocks[j] = BlockAt(c, i, j)
    BY TurnIs
  <2>3. s = [j \in DOMAIN c[i].kinds |-> s[j]] /\ \A j \in DOMAIN c[i].kinds : s[j] = WithoutId(BlockAt(c, i, j))
    BY <2>2
  <2>r. role \in {"user", "model"}
    OBVIOUS
  <2> HIDE DEF l, s, role
  <2>4. ASSUME NEW j \in DOMAIN c[i].kinds
        PROVE  IsBlock(s[j]) /\ s[j].kind = c[i].kinds[j] /\ NameOf(how, s[j]) = NameOf(how, BlockAt(c, i, j))
    <3> DEFINE b == BlockAt(c, i, j)
    <3>1. IsBlock(b) /\ b.kind = c[i].kinds[j] /\ s[j] = WithoutId(b)
      BY <2>3, BlockAtIs
    <3> HIDE DEF b
    <3>2. IsBlock(s[j]) /\ s[j].kind = c[i].kinds[j] /\ s[j].name = b.name
      BY <3>1, WithoutIdIs
    <3> QED BY <3>2 DEF NameOf, b
  <2>5. /\ IsMessage(l) /\ l.role = role /\ l.blocks = s /\ Blocks(s) /\ InOrder(s)
        /\ DOMAIN s = DOMAIN c[i].kinds
        /\ ToldIn(Asks(how), l) = ToldIn(Asks(how), Turns(c)[i])
    <3>1. role \in {"user", "assistant", "model"} /\ how \in {"id", "madeId", "name"}
      BY <2>r
    <3> HIDE DEF m
    <3> QED BY <2>1, <2>3, <2>4, <3>1, RewrittenTurn
  <2>6. Sent("gemini", l)
    <3>1. \A j \in DOMAIN s : s[j].kind \in Carries("gemini")
      BY <2>4, <2>5
    <3> HIDE DEF m
    <3> QED BY <2>r, <2>5, <3>1 DEF Sent
  <2> QED BY <2>5, <2>6 DEF l
<1>6. SentAll("gemini", ms)
  BY <1>4, <1>5 DEF SentAll
<1>7. ToldOf(Asks(how), ms) = ToldOf(Asks(how), t)
  BY <1>3, <1>4, <1>5, ToldOfMapped
<1> QED BY <1>2, <1>6, <1>7 DEF Each

\* The answers of a message first, then the rest: what a client of OpenAI
\* sends of a turn.
LEMMA AnswersFirst ==
  ASSUME NEW w, NEW m, NEW s, Blocks(s), InOrder(s)
  PROVE  Told(w, m, s) = Told(w, m, Of({"result"}, s)) \o Told(w, m, Of(Kinds \ {"result"}, s))
<1> DEFINE t == ToldEach(w, m, s)
           P == Places(s, {"result"})
           R == Places(s, Kinds \ {"result"})
<1>1. IsSeq(s) /\ \A j \in DOMAIN s : s[j].kind \in Kinds
  BY DEF Blocks, IsBlock
<1>2. /\ IsSeqs(t) /\ DOMAIN t = DOMAIN s /\ Told(w, m, s) = FlattenSeq(t)
  BY <1>1, ToldEachIs
<1>3. /\ Told(w, m, Of({"result"}, s)) = FlattenSeq(OnlyAt(t, P))
      /\ Told(w, m, Of(Kinds \ {"result"}, s)) = FlattenSeq(OnlyAt(t, R))
  BY <1>1, OfIsPicked, ToldPicked
<1>4. \A i, j \in DOMAIN s : i < j /\ j \in P => i \in P
  BY DEF Places, InOrder
<1>5. \A i \in DOMAIN s : i \in R <=> i \notin P
  BY <1>1 DEF Places
<1> HIDE DEF t, P, R
<1>6. FlattenSeq(t) = FlattenSeq(OnlyAt(t, P)) \o FlattenSeq(ButAt(t, P))
  BY <1>2, <1>4, FlattenParts
<1>7. ButAt(t, P) = OnlyAt(t, R)
  BY <1>2, <1>5 DEF ButAt, OnlyAt
<1> QED BY <1>2, <1>3, <1>6, <1>7

\* An answer in a message of its own.
LEMMA ToolMessageIs ==
  ASSUME NEW b, IsBlock(b)
  PROVE  Sent("openai", ToolMessage(b)) /\ ToolMessage(b).role = "tool"
<1> DEFINE l == ToolMessage(b)
           x == TextBlock(b.text)
<1>1. l = [role |-> "tool", blocks |-> <<x>>, answers |-> b.id]
  BY DEF ToolMessage
<1>2. l.blocks = <<TextBlock(b.text)>> /\ l.role = "tool"
  BY <1>1
<1>3. x = [kind |-> "text", text |-> b.text, id |-> NoId, name |-> <<>>] /\ b.text = [at |-> b.text.at, short |-> b.text.short]
  BY DEF TextBlock, IsBlock
<1> HIDE DEF x, l
<1>4. IsBlock(x) /\ x.kind = "text"
  BY <1>3 DEF IsBlock, Kinds
<1>5. IsSeq(<<x>>) /\ DOMAIN <<x>> = {1} /\ <<x>>[1] = x
  BY OneIs
<1>6. l.blocks = <<x>>
  BY <1>1
<1>7. Blocks(l.blocks) /\ InOrder(l.blocks)
  BY <1>4, <1>5, <1>6 DEF Blocks, InOrder
<1>8. IsMessage(l)
  BY <1>1, <1>5 DEF IsMessage
<1>9. \E t : l.blocks = <<TextBlock(t)>>
  BY <1>2
<1>10. Sent("openai", l)
  BY <1>2, <1>7, <1>8, <1>9 DEF Sent
<1> QED BY <1>2, <1>10 DEF l

\* Instructions in a message of their own.
LEMMA SystemMessageIs ==
  ASSUME NEW s, NEW at, s.text = Text(at)
  PROVE  /\ Sent("openai", SystemMessage(s)) /\ SystemMessage(s).role = "system"
         /\ SystemMessage(s).blocks[1].text = s.text
<1> DEFINE l == SystemMessage(s)
           x == TextBlock(s.text)
<1>1. l = Message("system", <<x>>)
  BY DEF SystemMessage
<1>2. s.text = [at |-> s.text.at, short |-> s.text.short]
  BY TextIs
<1>3. x = [kind |-> "text", text |-> s.text, id |-> NoId, name |-> <<>>]
  BY DEF TextBlock
<1>0. <<x>> = <<TextBlock(s.text)>>
  OBVIOUS
<1> HIDE DEF x, l
<1>4. IsBlock(x) /\ x.kind = "text" /\ x.text = s.text
  BY <1>2, <1>3 DEF IsBlock, Kinds
<1>5. IsSeq(<<x>>) /\ DOMAIN <<x>> = {1} /\ <<x>>[1] = x
  BY OneIs
<1>6. IsMessage(l) /\ l.role = "system" /\ l.blocks = <<x>>
  BY <1>1, <1>5, MessageIs
<1>7. Blocks(l.blocks) /\ InOrder(l.blocks)
  BY <1>4, <1>5, <1>6 DEF Blocks, InOrder
<1>8. \E t : l.blocks = <<TextBlock(t)>>
  BY <1>0, <1>6
<1>9. Sent("openai", l)
  BY <1>6, <1>7, <1>8 DEF Sent
<1>10. l.blocks[1].text = s.text
  BY <1>4, <1>5, <1>6
<1> QED BY <1>6, <1>9, <1>10 DEF l

\* What a client of OpenAI sends of a turn.
LEMMA ForOpenAITurn ==
  ASSUME NEW m, IsMessage(m), m.role \in {"user", "assistant"}, Blocks(m.blocks), InOrder(m.blocks),
         \A j \in DOMAIN m.blocks : m.blocks[j].kind # "thinking"
  PROVE  /\ SentAll("openai", ForOpenAI(m)) /\ \A i \in DOMAIN ForOpenAI(m) : ForOpenAI(m)[i].role # "system"
         /\ AreMessages(ForOpenAI(m))
         /\ ToldOf(Asks("id"), ForOpenAI(m)) = ToldIn(Asks("id"), m)
<1> DEFINE w == Asks("id")
           s == m.blocks
           results == Of({"result"}, s)
           rest == Of(Kinds \ {"result"}, s)
           tools == Each(ToolMessage, results)
           l == Message(m.role, rest)
           last == IF rest = <<>> THEN <<>> ELSE <<l>>
           r == ForOpenAI(m)
<1>1. r = tools \o last
  BY DEF ForOpenAI, Each
<1>2. /\ Blocks(results) /\ IsSeq(results) /\ Blocks(rest) /\ IsSeq(rest)
      /\ \A k \in DOMAIN results : results[k].kind = "result"
      /\ \A k \in DOMAIN rest : rest[k].kind \in Kinds \ {"result"} /\ \E i \in DOMAIN s : rest[k] = s[i]
  <2> DEFINE K == Kinds \ {"result"}
  <2>1. Blocks(s)
    OBVIOUS
  <2> HIDE DEF s, K
  <2>2. /\ Blocks(Of(K, s)) /\ IsSeq(Of(K, s))
        /\ \A k \in DOMAIN Of(K, s) : Of(K, s)[k].kind \in K /\ \E i \in DOMAIN s : Of(K, s)[k] = s[i]
    BY <2>1, OfIs
  <2>3. /\ Blocks(Of({"result"}, s)) /\ IsSeq(Of({"result"}, s))
        /\ \A k \in DOMAIN Of({"result"}, s) : Of({"result"}, s)[k].kind \in {"result"}
    BY <2>1, OfIs
  <2> QED BY <2>2, <2>3 DEF K
<1>3. InOrder(rest)
  <2> DEFINE R == {<<s[i], s[j]>> : i \in DOMAIN s, j \in DOMAIN s}
             Q == {p \in R : (p[2].kind = "result" => p[1].kind = "result") /\ (p[1].kind = "call" => p[2].kind = "call")}
             P == Places(s, Kinds \ {"result"})
  <2>1. IsSeq(s)
    BY DEF Blocks
  <2>2. \A i, j \in DOMAIN s : i < j => <<s[i], s[j]>> \in Q
    BY DEF InOrder
  <2>3. rest = Picked(s, P)
    BY OfIsPicked
  <2>4. \A x, y : <<x, y>> \in Q => (y.kind = "result" => x.kind = "result") /\ (x.kind = "call" => y.kind = "call")
    OBVIOUS
  <2> HIDE DEF Q, P, s, rest
  <2>5. \A i, j \in DOMAIN Picked(s, P) : i < j => <<Picked(s, P)[i], Picked(s, P)[j]>> \in Q
    BY <2>1, <2>2, PickedOrder
  <2> QED BY <2>3, <2>4, <2>5 DEF InOrder
<1>4. Told(w, m, s) = Told(w, m, results) \o Told(w, m, rest)
  BY AnswersFirst
<1>5. w.asks = "says" \/ w = Asks("id")
  OBVIOUS
<1>6. AreMessages(tools) /\ ToldOf(w, tools) = Told(w, m, results)
  <2> HIDE DEF results, w
  <2> QED BY <1>2, <1>5, ToolMessages DEF Each
<1>7. DOMAIN tools = DOMAIN results /\ \A i \in DOMAIN results : tools[i] = ToolMessage(results[i])
  <2> HIDE DEF results
  <2> QED BY DEF Each
<1>0. \A j \in DOMAIN s : s[j].kind # "thinking"
  OBVIOUS
<1>r. Told(w, m, s) = ToldIn(w, m)
  BY DEF ToldIn
<1> HIDE DEF w, s, results, rest, tools, l, r, last
<1>8. \A i \in DOMAIN tools : Sent("openai", tools[i]) /\ tools[i].role = "tool"
  BY <1>2, <1>7, ToolMessageIs DEF Blocks
<1>9. IsMessage(l) /\ l.role = m.role /\ l.blocks = rest
  BY <1>2, MessageIs DEF l
<1>10. Sent("openai", l)
  <2>1. \A j \in DOMAIN l.blocks : l.blocks[j].kind \notin {"result", "thinking"}
    BY <1>0, <1>2, <1>9
  <2> QED BY <1>2, <1>3, <1>9, <2>1 DEF Sent
<1>11. ToldIn(w, l) = Told(w, m, rest)
  <2>1. Told(w, l, rest) = Told(w, m, rest)
    BY <1>9, ToldSame
  <2> QED BY <1>9, <2>1 DEF ToldIn
<1>12. /\ AreMessages(last) /\ ToldOf(w, last) = Told(w, m, rest)
       /\ \A i \in DOMAIN last : last[i] = l
  <2>1. CASE rest = <<>>
    <3>1. last = <<>> /\ Told(w, m, rest) = <<>>
      BY <2>1, ToldNone DEF last
    <3>2. AreMessages(<<>>) /\ \A i \in DOMAIN <<>> : FALSE
      BY NoneIs DEF AreMessages
    <3> QED BY <3>1, <3>2, ToldOfNone
  <2>2. CASE rest # <<>>
    <3>1. last = <<l>>
      BY <2>2 DEF last
    <3>2. AreMessages(<<l>>) /\ ToldOf(w, <<l>>) = ToldIn(w, l)
      BY <1>9, ToldOfOne
    <3>3. \A i \in DOMAIN <<l>> : <<l>>[i] = l
      BY OneIs
    <3> QED BY <1>11, <3>1, <3>2, <3>3
  <2> QED BY <2>1, <2>2
<1>13. AreMessages(r) /\ ToldOf(w, r) = ToldIn(w, m)
  <2>1. AreMessages(tools \o last) /\ ToldOf(w, tools \o last) = ToldOf(w, tools) \o ToldOf(w, last)
    BY <1>6, <1>12, ToldOfConcat
  <2> QED BY <1>1, <1>4, <1>6, <1>12, <1>r, <2>1
<1>14. ASSUME NEW i \in DOMAIN r PROVE Sent("openai", r[i]) /\ r[i].role # "system"
  <2>1. IsSeq(tools) /\ IsSeq(last)
    BY <1>6, <1>12 DEF AreMessages
  <2>2. /\ IsSeq(tools \o last) /\ Len(tools \o last) = Len(tools) + Len(last)
        /\ \A k \in 1 .. Len(tools) + Len(last) : (tools \o last)[k] = IF k <= Len(tools) THEN tools[k] ELSE last[k - Len(tools)]
    BY <2>1, ConcatIs
  <2>3. /\ Len(tools) \in Nat /\ Len(last) \in Nat /\ DOMAIN tools = 1 .. Len(tools) /\ DOMAIN last = 1 .. Len(last)
        /\ DOMAIN (tools \o last) = 1 .. Len(tools) + Len(last)
    BY <2>1, <2>2, SeqIs
  <2>4. i \in 1 .. Len(tools) + Len(last) /\ r[i] = IF i <= Len(tools) THEN tools[i] ELSE last[i - Len(tools)]
    BY <1>1, <2>2, <2>3
  <2>5. CASE i <= Len(tools)
    <3>1. r[i] = tools[i] /\ i \in DOMAIN tools
      BY <2>3, <2>4, <2>5
    <3> QED BY <1>8, <3>1
  <2>6. CASE ~ (i <= Len(tools))
    <3>1. r[i] = last[i - Len(tools)] /\ i - Len(tools) \in DOMAIN last
      BY <2>3, <2>4, <2>6
    <3>2. r[i] = l
      BY <1>12, <3>1
    <3> QED BY <1>9, <1>10, <3>2
  <2> QED BY <2>5, <2>6
<1>15. SentAll("openai", r)
  BY <1>13, <1>14 DEF SentAll, AreMessages
<1> QED BY <1>13, <1>14, <1>15 DEF r, w

\* The messages a client of OpenAI sends of a conversation.
Parted(c) == Gather(ForOpenAI, Turns(c))

\* A conversation without thoughts.
Unthought(c) == \A i \in DOMAIN c : \A j \in DOMAIN c[i].kinds : c[i].kinds[j] # "thinking"

\* They are messages of OpenAI, and tell the calls and answers of the turns.
LEMMA PartedIs ==
  ASSUME NEW c \in Conversations, Unthought(c)
  PROVE  /\ SentAll("openai", Parted(c)) /\ \A k \in DOMAIN Parted(c) : Parted(c)[k].role # "system"
         /\ AreMessages(Parted(c)) /\ ToldOf(Asks("id"), Parted(c)) = ToldOf(Asks("id"), Turns(c))
<1> DEFINE t == Turns(c)
           ss == [i \in DOMAIN t |-> ForOpenAI(t[i])]
           w == Asks("id")
           d == Parted(c)
           n == Len(ss)
<1>1. ss = [i \in DOMAIN t |-> ss[i]] /\ \A i \in DOMAIN t : ss[i] = ForOpenAI(t[i])
  OBVIOUS
<1>2. d = FlattenSeq(ss)
  BY DEF Parted, Gather, Each
<1> HIDE DEF ss, d
<1>3. IsSeq(t) /\ DOMAIN t = DOMAIN c /\ IsSeq(ss) /\ DOMAIN ss = DOMAIN c
  BY <1>1, TurnsAre, MapIs DEF AreMessages
<1>4. ASSUME NEW i \in DOMAIN c
      PROVE  /\ SentAll("openai", ss[i]) /\ (\A k \in DOMAIN ss[i] : ss[i][k].role # "system")
             /\ AreMessages(ss[i]) /\ ToldOf(w, ss[i]) = ToldIn(w, t[i])
  <2> DEFINE m == t[i]
  <2>1. /\ IsMessage(m) /\ m.role \in {"user", "assistant"} /\ DOMAIN m.blocks = DOMAIN c[i].kinds
        /\ Blocks(m.blocks) /\ InOrder(m.blocks)
        /\ \A j \in DOMAIN c[i].kinds : m.blocks[j] = BlockAt(c, i, j)
    BY TurnIs
  <2>2. ss[i] = ForOpenAI(m)
    BY <1>1, <1>3
  <2> HIDE DEF m
  <2>3. \A j \in DOMAIN m.blocks : m.blocks[j].kind # "thinking"
    BY <2>1, BlockAtIs DEF Unthought
  <2>4. /\ SentAll("openai", ForOpenAI(m)) /\ \A k \in DOMAIN ForOpenAI(m) : ForOpenAI(m)[k].role # "system"
        /\ AreMessages(ForOpenAI(m)) /\ ToldOf(w, ForOpenAI(m)) = ToldIn(w, m)
    BY <2>1, <2>3, ForOpenAITurn
  <2> QED BY <2>2, <2>4 DEF m
<1>5. IsSeqs(ss)
  BY <1>3, <1>4 DEF IsSeqs, AreMessages
<1>6. AreMessages(d) /\ ToldOf(w, d) = FlattenSeq([i \in DOMAIN ss |-> ToldOf(w, ss[i])])
  BY <1>2, <1>3, <1>4, <1>5, ToldOfFlatten
<1>7. ToldOf(w, d) = ToldOf(w, t)
  <2>1. [i \in DOMAIN ss |-> ToldOf(w, ss[i])] = [i \in DOMAIN t |-> ToldIn(w, t[i])]
    BY <1>3, <1>4
  <2> QED BY <1>6, <2>1 DEF ToldOf
<1>8. ASSUME NEW k \in DOMAIN d PROVE Sent("openai", d[k]) /\ d[k].role # "system"
  <2>1. \A l \in DOMAIN FlattenSeq(ss) : \E i \in DOMAIN ss : \E j \in DOMAIN ss[i] : FlattenSeq(ss)[l] = ss[i][j]
    BY <1>5, FlattenFrom
  <2>2. PICK i \in DOMAIN c : \E j \in DOMAIN ss[i] : d[k] = ss[i][j]
    BY <1>2, <1>3, <2>1
  <2>3. PICK j \in DOMAIN ss[i] : d[k] = ss[i][j]
    BY <2>2
  <2> QED BY <1>4, <2>3 DEF SentAll
<1>9. SentAll("openai", d)
  BY <1>6, <1>8 DEF SentAll, AreMessages
<1> QED BY <1>6, <1>7, <1>8, <1>9 DEF d, w

\* A prompt each part of which is a text of its own.
Worded(system) == Prompt(system) /\ \A i \in DOMAIN system : \E at : system[i].text = Text(at)

\* So is the whole body, its instructions first.
LEMMA OpenAIBody ==
  ASSUME NEW c \in Conversations, Unthought(c), NEW system, Worded(system),
         NEW ms, ms = Instructed(system) \o Parted(c)
  PROVE  /\ SentAll("openai", ms)
         /\ \A i \in DOMAIN ms : ms[i].role = "system" => ms[i].blocks[1].text # NoText
         /\ ToldOf(Asks("id"), ms) = ToldOf(Asks("id"), Turns(c))
<1> DEFINE w == Asks("id")
           a == Instructed(system)
           b == Parted(c)
<1>1. /\ IsSystem(system) /\ \A i \in DOMAIN system : system[i].text # NoText
      /\ \A i \in DOMAIN system : \E at : system[i].text = Text(at)
  BY DEF Worded, Prompt
<1>2. AreMessages(a) /\ ToldOf(w, a) = <<>> /\ DOMAIN a = DOMAIN system /\ \A i \in DOMAIN system : a[i] = SystemMessage(system[i])
  <2>1. /\ AreMessages(Each(SystemMessage, system)) /\ ToldOf(w, Each(SystemMessage, system)) = <<>>
        /\ DOMAIN Each(SystemMessage, system) = DOMAIN system
        /\ \A i \in DOMAIN system : Each(SystemMessage, system)[i] = SystemMessage(system[i])
    BY <1>1, SystemMessages DEF Each
  <2> QED BY <2>1 DEF Instructed, Each
<1>3. /\ SentAll("openai", b) /\ (\A k \in DOMAIN b : b[k].role # "system")
      /\ AreMessages(b) /\ ToldOf(w, b) = ToldOf(w, Turns(c))
  BY PartedIs
<1> HIDE DEF a, b, w
<1>4. AreMessages(a \o b) /\ ToldOf(w, a \o b) = ToldOf(w, a) \o ToldOf(w, b)
  BY <1>2, <1>3, ToldOfConcat
<1>5. ToldOf(w, ms) = ToldOf(w, Turns(c))
  <2>1. IsSeq(ToldOf(w, b))
    BY <1>3, ToldOfIsSeq
  <2>2. <<>> \o ToldOf(w, b) = ToldOf(w, b)
    BY <2>1, ConcatNone
  <2> QED BY <1>2, <1>3, <1>4, <2>2 DEF a, b
<1>6. ms = a \o b
  BY DEF a, b
<1>7. ASSUME NEW i \in DOMAIN ms
      PROVE  Sent("openai", ms[i]) /\ (ms[i].role = "system" => ms[i].blocks[1].text # NoText)
  <2>1. IsSeq(a) /\ IsSeq(b)
    BY <1>2, <1>3 DEF AreMessages
  <2>2. /\ IsSeq(a \o b) /\ Len(a \o b) = Len(a) + Len(b)
        /\ \A k \in 1 .. Len(a) + Len(b) : (a \o b)[k] = IF k <= Len(a) THEN a[k] ELSE b[k - Len(a)]
    BY <2>1, ConcatIs
  <2>3. /\ Len(a) \in Nat /\ Len(b) \in Nat /\ DOMAIN a = 1 .. Len(a) /\ DOMAIN b = 1 .. Len(b)
        /\ DOMAIN (a \o b) = 1 .. Len(a) + Len(b)
    BY <2>1, <2>2, SeqIs
  <2>4. i \in 1 .. Len(a) + Len(b) /\ ms[i] = IF i <= Len(a) THEN a[i] ELSE b[i - Len(a)]
    BY <1>6, <2>2, <2>3
  <2>5. CASE i <= Len(a)
    <3>1. i \in DOMAIN system /\ ms[i] = SystemMessage(system[i])
      BY <1>2, <2>3, <2>4, <2>5
    <3>2. PICK at : system[i].text = Text(at)
      BY <1>1, <3>1
    <3> DEFINE s == system[i]
    <3>3. s.text # NoText /\ s.text = Text(at) /\ ms[i] = SystemMessage(s)
      BY <1>1, <3>1, <3>2
    <3> HIDE DEF s
    <3>4. Sent("openai", SystemMessage(s)) /\ SystemMessage(s).blocks[1].text = s.text
      BY <3>3, SystemMessageIs
    <3> QED BY <3>3, <3>4
  <2>6. CASE ~ (i <= Len(a))
    <3>1. ms[i] = b[i - Len(a)] /\ i - Len(a) \in DOMAIN b
      BY <2>3, <2>4, <2>6
    <3> QED BY <1>3, <3>1 DEF SentAll
  <2> QED BY <2>5, <2>6
<1>8. SentAll("openai", ms)
  BY <1>4, <1>6, <1>7 DEF SentAll, AreMessages
<1> QED BY <1>5, <1>7, <1>8 DEF w

\* The prompts of a client have no empty text.
LEMMA SystemTextsAre ==
  ASSUME NEW n \in 0 .. 2, NEW marked \in BOOLEAN
  PROVE  Worded(SystemTexts(n, marked))
<1> DEFINE s == SystemTexts(n, marked)
<1>0. n \in Nat
  OBVIOUS
<1>1. s = [i \in 1 .. n |-> s[i]] /\ DOMAIN s = 1 .. n
      /\ \A i \in 1 .. n : s[i] = [text |-> Text(<<"system", i>>), cached |-> marked /\ i = n]
  BY DEF SystemTexts
<1> HIDE DEF s
<1>2. IsSeq(s)
  BY <1>0, <1>1, ListIsSeq
<1>3. ASSUME NEW i \in DOMAIN s
      PROVE  s[i] = [text |-> s[i].text, cached |-> s[i].cached] /\ s[i].text = Text(<<"system", i>>)
  <2> DEFINE t == Text(<<"system", i>>)
             x == marked /\ i = n
  <2>1. s[i] = [text |-> t, cached |-> x]
    BY <1>1
  <2> HIDE DEF t, x
  <2>2. s[i] = [text |-> s[i].text, cached |-> s[i].cached] /\ s[i].text = t
    BY <2>1
  <2> QED BY <2>2 DEF t
<1>4. ASSUME NEW i \in DOMAIN s PROVE s[i].text # NoText
  <2>1. s[i].text.at = <<"system", i>> /\ NoText.at = <<>>
    BY <1>3, TextIs DEF NoText
  <2>2. <<"system", i>> # <<>>
    <3>1. Len(<<"system", i>>) = 2 /\ Len(<<>>) = 0
      OBVIOUS
    <3> QED BY <3>1
  <2> QED BY <2>1, <2>2
<1>5. \A i \in DOMAIN s : \E at : s[i].text = Text(at)
  BY <1>3
<1> QED BY <1>2, <1>3, <1>4, <1>5 DEF s, Worded, Prompt, IsSystem

\* What the client knows its calls by.
Hows(f) == IF f = "gemini" THEN {"madeId", "name"} ELSE {"id"}

\* What a client sends is in the form of its API, and every answer in it
\* has its call before it.
LEMMA BodyIs ==
  ASSUME NEW f \in Formats, NEW c \in Conversations, NEW n \in 0 .. 2, NEW marked \in BOOLEAN,
         \A i \in DOMAIN c : ToSet(c[i].kinds) \subseteq Carries(f) \cup {"imageurl"},
         f \in {"gemini", "responses"} => \A i \in DOMAIN c : "imageurl" \notin ToSet(c[i].kinds),
         NEW b, b = Body(f, c, SystemTexts(n, marked))
  PROVE  InForm(f, b) /\ \A how \in Hows(f) : Answered(ToldOf(Asks(how), b.messages))
<1> DEFINE s == SystemTexts(n, marked)
           ms == CASE f = "openai" -> Each(SystemMessage, s) \o Gather(ForOpenAI, Turns(c))
                   [] f = "gemini" -> Each(ForGemini, Turns(c))
                   [] OTHER -> Each(WithIds, Turns(c))
           sys == IF f = "openai" THEN <<>> ELSE s
<1>1. b = [model |-> "alias", stream |-> FALSE, system |-> sys, messages |-> ms]
  BY DEF Body, Each, Gather
<1>2. Worded(s) /\ Prompt(s)
  BY SystemTextsAre DEF Worded
<1>3. /\ f = "openai" => ms = Instructed(s) \o Parted(c)
      /\ f = "gemini" => ms = Each(ForGemini, Turns(c))
      /\ f \in {"claude", "responses"} => ms = Each(WithIds, Turns(c))
  BY DEF Instructed, Parted, Each, Gather
<1>4. f = "openai" => sys = <<>>
  OBVIOUS
<1>5. f # "openai" => sys = s
  OBVIOUS
<1> HIDE DEF s, ms, sys
<1>6. b.system = sys /\ b.messages = ms /\ IsRequest(b)
  BY <1>1 DEF IsRequest
<1>7. Prompt(sys)
  <2>1. Prompt(<<>>)
    BY NoneIs DEF Prompt, IsSystem
  <2> QED BY <1>2, <1>4, <1>5, <2>1
<1>8. \A i \in DOMAIN c : \A j \in DOMAIN c[i].kinds :
        /\ c[i].kinds[j] \in Carries(f) \cup {"imageurl"}
        /\ f \in {"gemini", "responses"} => c[i].kinds[j] \in Carries(f)
  BY DEF ToSet
<1>9. \A how \in {"id", "madeId", "name"} : Answered(ToldOf(Asks(how), Turns(c)))
  BY TurnsAnswered
<1>10. CASE f = "openai"
  <2>1. Unthought(c)
    BY <1>8, <1>10 DEF Carries, Unthought
  <2>2. ms = Instructed(s) \o Parted(c)
    BY <1>3, <1>10
  <2>3. /\ SentAll("openai", ms)
        /\ \A i \in DOMAIN ms : ms[i].role = "system" => ms[i].blocks[1].text # NoText
        /\ ToldOf(Asks("id"), ms) = ToldOf(Asks("id"), Turns(c))
    BY <1>2, <2>1, <2>2, OpenAIBody
  <2>4. InForm(f, b)
    BY <1>4, <1>6, <1>7, <1>10, <2>3 DEF InForm
  <2>5. Answered(ToldOf(Asks("id"), b.messages))
    BY <1>6, <1>9, <2>3
  <2> QED BY <1>10, <2>4, <2>5 DEF Hows
<1>11. CASE f = "gemini"
  <2>1. \A i \in DOMAIN c : \A j \in DOMAIN c[i].kinds : c[i].kinds[j] \in Carries("gemini")
    BY <1>8, <1>11
  <2>2. \A how \in {"madeId", "name"} : SentAll("gemini", ms) /\ ToldOf(Asks(how), ms) = ToldOf(Asks(how), Turns(c))
    BY <1>3, <1>11, <2>1, ForGeminiBody DEF Each
  <2>3. SentAll("gemini", ms)
    BY <2>2
  <2>4. InForm(f, b)
    BY <1>6, <1>7, <1>11, <2>3 DEF InForm
  <2>5. \A how \in {"madeId", "name"} : Answered(ToldOf(Asks(how), b.messages))
    BY <1>6, <1>9, <2>2
  <2> QED BY <1>11, <2>4, <2>5 DEF Hows
<1>12. CASE f \in {"claude", "responses"}
  <2>1. f = "responses" => \A i \in DOMAIN c : \A j \in DOMAIN c[i].kinds : c[i].kinds[j] \in Carries(f)
    BY <1>8
  <2>2. SentAll(f, ms) /\ ToldOf(Asks("id"), ms) = ToldOf(Asks("id"), Turns(c))
    BY <1>3, <1>12, <2>1, WithIdsBody DEF Each
  <2>4. InForm(f, b)
    BY <1>6, <1>7, <1>12, <2>2 DEF InForm
  <2>5. Answered(ToldOf(Asks("id"), b.messages))
    BY <1>6, <1>9, <2>2
  <2> QED BY <1>12, <2>4, <2>5 DEF Hows
<1> QED BY <1>10, <1>11, <1>12 DEF Formats

-----------------------------------------------------------------------------
(* The stages.                                                             *)

\* Asked anything, the canonical request tells what the client's does.
SameConversation ==
  \A w, v : Reads(source, w, v) => ToldOf(w, canon.messages) = ToldOf(v, body.messages)

\* The canonical prompt is that of the client, behind the bridge if there is
\* one.
SamePrompt == Each(TextOf, canon.system) = (IF bridged THEN <<BridgeText>> ELSE <<>>) \o SystemOf(body)

\* The body stays what the client sent.
BodyInv == InForm(source, body) /\ \A how \in Hows(source) : Answered(ToldOf(Asks(how), body.messages))

\* Once translated, the request is in canonical form, is that of the client,
\* and what is sent is written from it.
CanonInv == InCanonicalForm(canon) /\ upstream = FromCanonical(target, canon) /\ SameConversation /\ SamePrompt

\* The inductive invariant.
TranslationInv ==
  /\ stage \in Nat \ {0} /\ source \in Formats /\ target \in Formats
  /\ BodyInv
  /\ stage <= 4 => bridged = FALSE
  /\ stage > 1 => CanonInv

\* The stages by number.
LEMMA StageIs ==
  ASSUME stage \in Nat \ {0}
  PROVE  /\ At("translate") => stage = 1
         /\ At("compress") => stage = 2
         /\ At("hint") => stage = 3
         /\ At("bridge") => stage = 4
<1>1. Len(Stages) = 5 /\ Stages[1] = "translate" /\ Stages[2] = "compress" /\ Stages[3] = "hint" /\ Stages[4] = "bridge" /\ Stages[5] = "send"
  BY DEF Stages
<1>2. stage <= 5 => stage = 1 \/ stage = 2 \/ stage = 3 \/ stage = 4 \/ stage = 5
  OBVIOUS
<1> QED BY <1>1, <1>2 DEF At

\* The prompt in a body is a sequence.
LEMMA SystemOfIsSeq ==
  ASSUME NEW f \in Formats, NEW b, InForm(f, b)
  PROVE  IsSeq(SystemOf(b))
<1> DEFINE s == ToCanonical(f, b).system
<1>1. IsSeq(s) /\ Each(TextOf, s) = SystemOf(b)
  BY ToCanonicalTells DEF InCanonicalForm, Prompt, IsSystem, Each
<1> HIDE DEF s
<1>2. IsSeq(Each(TextOf, s))
  BY <1>1, TextsAre DEF Each
<1> QED BY <1>1, <1>2

\* What the client sends.
LEMMA TranslationInit ==
  ASSUME Init
  PROVE  TranslationInv
<1>1. PICK c \in Conversations, n \in 0 .. 2, marked \in BOOLEAN :
        /\ \A i \in DOMAIN c : ToSet(c[i].kinds) \subseteq Carries(source) \cup {"imageurl"}
        /\ source \in {"gemini", "responses"} => \A i \in DOMAIN c : "imageurl" \notin ToSet(c[i].kinds)
        /\ body = Body(source, c, SystemTexts(n, marked))
  BY DEF Init
<1>2. source \in Formats /\ target \in Formats /\ stage = 1 /\ bridged = FALSE
  BY DEF Init
<1>3. InForm(source, body) /\ \A how \in Hows(source) : Answered(ToldOf(Asks(how), body.messages))
  BY <1>1, <1>2, BodyIs
<1> QED BY <1>2, <1>3 DEF TranslationInv, BodyInv

\* A stage that rewrites the canonical request.
LEMMA Rewritten ==
  ASSUME TranslationInv, stage' \in Nat \ {0}, UNCHANGED <<source, target, body>>,
         stage' <= 4 => bridged' = FALSE,
         InCanonicalForm(canon'), upstream' = FromCanonical(target, canon'),
         \A w, v : Reads(source, w, v) => ToldOf(w, canon'.messages) = ToldOf(v, body.messages),
         Each(TextOf, canon'.system) = (IF bridged' THEN <<BridgeText>> ELSE <<>>) \o SystemOf(body)
  PROVE  TranslationInv'
<1>1. SameConversation'
  BY DEF SameConversation
<1>2. SamePrompt'
  BY DEF SamePrompt, Each
<1>3. CanonInv'
  BY <1>1, <1>2 DEF CanonInv
<1>4. BodyInv'
  BY DEF TranslationInv, BodyInv
<1> QED BY <1>3, <1>4 DEF TranslationInv

\* The translation parses the body.
LEMMA TranslateStep ==
  ASSUME TranslationInv, Translate
  PROVE  TranslationInv'
<1> DEFINE r == ToCanonical(source, body)
<1>1. /\ stage = 1 /\ stage' = 2 /\ bridged = FALSE /\ bridged' = bridged /\ UNCHANGED <<source, target, body>>
      /\ canon' = [r EXCEPT !.model = "resolved"] /\ upstream' = FromCanonical(target, canon')
  BY StageIs DEF TranslationInv, Translate, Write
<1>2. /\ InCanonicalForm(r) /\ Each(TextOf, r.system) = SystemOf(body)
      /\ \A w, v : Reads(source, w, v) => ToldOf(w, r.messages) = ToldOf(v, body.messages)
  BY ToCanonicalTells DEF TranslationInv, BodyInv, Each
<1> HIDE DEF r
<1>3. canon' = [model |-> "resolved", stream |-> r.stream, system |-> r.system, messages |-> r.messages]
  BY <1>1, <1>2 DEF InCanonicalForm, IsRequest
<1>4. canon'.system = r.system /\ canon'.messages = r.messages /\ IsRequest(canon')
  BY <1>3 DEF IsRequest
<1>5. InCanonicalForm(canon')
  BY <1>2, <1>4 DEF InCanonicalForm
<1>6. IsSeq(SystemOf(body))
  BY SystemOfIsSeq DEF TranslationInv, BodyInv
<1>7. Each(TextOf, canon'.system) = (IF bridged' THEN <<BridgeText>> ELSE <<>>) \o SystemOf(body)
  <2>1. <<>> \o SystemOf(body) = SystemOf(body)
    BY <1>6, ConcatNone
  <2> QED BY <1>1, <1>2, <1>4, <2>1 DEF Each
<1>8. \A w, v : Reads(source, w, v) => ToldOf(w, canon'.messages) = ToldOf(v, body.messages)
  BY <1>2, <1>4
<1>9. stage' \in Nat \ {0} /\ (stage' <= 4 => bridged' = FALSE)
  BY <1>1
<1> QED BY <1>1, <1>5, <1>7, <1>8, <1>9, Rewritten DEF Each

\* The compression shortens answers.
LEMMA CompressStep ==
  ASSUME TranslationInv, Compress
  PROVE  TranslationInv'
<1> DEFINE c == Each(Abridged, canon.messages)
<1>1. /\ stage = 2 /\ stage' = 3 /\ bridged = FALSE /\ bridged' = bridged /\ UNCHANGED <<source, target, body>>
      /\ canon' = [canon EXCEPT !.messages = c] /\ upstream' = FromCanonical(target, canon')
  BY StageIs DEF TranslationInv, Compress, Write, Each
<1>2. InCanonicalForm(canon) /\ SameConversation /\ SamePrompt
  BY <1>1 DEF TranslationInv, CanonInv
<1>3. \A w : Canonicals(c) /\ ToldOf(w, c) = ToldOf(w, canon.messages)
  BY <1>2, AbridgedTells DEF InCanonicalForm, Each
<1> HIDE DEF c
<1>4. canon' = [model |-> canon.model, stream |-> canon.stream, system |-> canon.system, messages |-> c]
  BY <1>1, <1>2 DEF InCanonicalForm, IsRequest
<1>5. canon'.system = canon.system /\ canon'.messages = c /\ IsRequest(canon')
  BY <1>4 DEF IsRequest
<1>6. InCanonicalForm(canon')
  BY <1>2, <1>3, <1>5 DEF InCanonicalForm
<1>7. Each(TextOf, canon'.system) = (IF bridged' THEN <<BridgeText>> ELSE <<>>) \o SystemOf(body)
  BY <1>1, <1>2, <1>5 DEF SamePrompt, Each
<1>8. \A w, v : Reads(source, w, v) => ToldOf(w, canon'.messages) = ToldOf(v, body.messages)
  BY <1>2, <1>3, <1>5 DEF SameConversation
<1>9. stage' \in Nat \ {0} /\ (stage' <= 4 => bridged' = FALSE)
  BY <1>1
<1> QED BY <1>1, <1>6, <1>7, <1>8, <1>9, Rewritten DEF Each

\* The hint marks the last text of the prompt.
LEMMA HintStep ==
  ASSUME TranslationInv, Hint
  PROVE  TranslationInv'
<1> DEFINE s == canon.system
           k == Len(s)
           c == [s EXCEPT ![k].cached = TRUE]
<1>1. /\ stage = 3 /\ stage' = 4 /\ bridged = FALSE /\ bridged' = bridged /\ UNCHANGED <<source, target, body>>
      /\ canon' = [canon EXCEPT !.system = c] /\ upstream' = FromCanonical(target, canon') /\ s # <<>>
  BY StageIs DEF TranslationInv, Hint, Write
<1>2. InCanonicalForm(canon) /\ SameConversation /\ SamePrompt
  BY <1>1 DEF TranslationInv, CanonInv
<1>3. Prompt(s)
  BY <1>2 DEF InCanonicalForm
<1>e. c = [s EXCEPT ![k] = [s[k] EXCEPT !.cached = TRUE]]
  OBVIOUS
<1> HIDE DEF c, k
<1>4. Prompt(c) /\ Each(TextOf, c) = Each(TextOf, s)
  <2> HIDE DEF s
  <2>1. IsSeq(s) /\ \A i \in DOMAIN s : s[i] = [text |-> s[i].text, cached |-> s[i].cached] /\ s[i].text # NoText
    BY <1>3 DEF Prompt, IsSystem
  <2> DEFINE x == s[k]
             y == [x EXCEPT !.cached = TRUE]
  <2>2. c = [i \in DOMAIN s |-> IF i = k THEN y ELSE s[i]]
    BY <1>e
  <2>3. k \in DOMAIN s
    BY <1>1, <2>1, LastOf DEF k
  <2>4. x = [text |-> x.text, cached |-> x.cached] /\ x.text # NoText
    BY <2>1, <2>3
  <2> HIDE DEF x
  <2>5. y = [text |-> x.text, cached |-> TRUE]
    <3> DEFINE text == x.text
               cached == x.cached
    <3>1. x = [text |-> text, cached |-> cached] /\ y = [x EXCEPT !.cached = TRUE]
      BY <2>4
    <3> HIDE DEF text, cached, y
    <3>2. y = [text |-> text, cached |-> TRUE]
      BY <3>1
    <3> QED BY <3>2 DEF text
  <2> HIDE DEF y
  <2>6. y = [text |-> y.text, cached |-> y.cached] /\ y.text = x.text
    BY <2>5
  <2>7. c = [i \in DOMAIN s |-> c[i]] /\ \A i \in DOMAIN s : c[i] = IF i = k THEN y ELSE s[i]
    BY <2>2
  <2>8. IsSeq(c) /\ DOMAIN c = DOMAIN s
    BY <2>1, <2>7, MapIs
  <2>9. \A i \in DOMAIN s : c[i] = [text |-> c[i].text, cached |-> c[i].cached] /\ c[i].text = s[i].text
    BY <2>1, <2>6, <2>7 DEF x
  <2>10. Prompt(c)
    BY <2>1, <2>8, <2>9 DEF Prompt, IsSystem
  <2>11. [i \in DOMAIN c |-> TextOf(c[i])] = [i \in DOMAIN s |-> TextOf(s[i])]
    BY <2>8, <2>9 DEF TextOf
  <2> QED BY <2>10, <2>11 DEF Each
<1>5. canon' = [model |-> canon.model, stream |-> canon.stream, system |-> c, messages |-> canon.messages]
  BY <1>1, <1>2 DEF InCanonicalForm, IsRequest
<1>6. canon'.system = c /\ canon'.messages = canon.messages /\ IsRequest(canon')
  BY <1>5 DEF IsRequest
<1>7. InCanonicalForm(canon')
  BY <1>2, <1>4, <1>6 DEF InCanonicalForm
<1>8. Each(TextOf, canon'.system) = (IF bridged' THEN <<BridgeText>> ELSE <<>>) \o SystemOf(body)
  BY <1>1, <1>2, <1>4, <1>6 DEF SamePrompt, Each
<1>9. \A w, v : Reads(source, w, v) => ToldOf(w, canon'.messages) = ToldOf(v, body.messages)
  BY <1>2, <1>6 DEF SameConversation
<1>10. stage' \in Nat \ {0} /\ (stage' <= 4 => bridged' = FALSE)
  BY <1>1
<1> QED BY <1>1, <1>7, <1>8, <1>9, <1>10, Rewritten DEF Each

\* The bridge is put before the prompt.
LEMMA BridgeStep ==
  ASSUME TranslationInv, Bridge
  PROVE  TranslationInv'
<1> DEFINE s == canon.system
           x == [text |-> BridgeText, cached |-> FALSE]
           c == <<x>> \o s
<1>1. /\ stage = 4 /\ stage' = 5 /\ bridged = FALSE /\ bridged' = TRUE /\ UNCHANGED <<source, target, body>>
      /\ canon' = [canon EXCEPT !.system = c] /\ upstream' = FromCanonical(target, canon')
  BY StageIs DEF TranslationInv, Bridge, Write
<1>2. InCanonicalForm(canon) /\ SameConversation /\ SamePrompt
  BY <1>1 DEF TranslationInv, CanonInv
<1>3. Prompt(s)
  BY <1>2 DEF InCanonicalForm
<1>4. x = [text |-> x.text, cached |-> x.cached] /\ x.text = BridgeText
  OBVIOUS
<1> HIDE DEF c, x
<1>5. BridgeText # NoText
  <2>1. BridgeText.at = <<"bridge">> /\ NoText.at = <<>>
    BY TextIs DEF BridgeText, NoText
  <2>2. Len(<<"bridge">>) = 1 /\ Len(<<>>) = 0
    OBVIOUS
  <2> QED BY <2>1, <2>2
<1>6. Prompt(c) /\ Each(TextOf, c) = <<BridgeText>> \o Each(TextOf, s)
  <2> HIDE DEF s
  <2>1. IsSeq(s) /\ \A i \in DOMAIN s : s[i] = [text |-> s[i].text, cached |-> s[i].cached] /\ s[i].text # NoText
    BY <1>3 DEF Prompt, IsSystem
  <2> DEFINE b == <<BridgeText>>
             t == Each(TextOf, s)
             u == Each(TextOf, c)
  <2>4. IsSeq(c) /\ Len(c) = 1 + Len(s) /\ \A i \in 1 .. 1 + Len(s) : c[i] = IF i <= 1 THEN x ELSE s[i - 1]
    BY <2>1, PrefixedIs DEF c
  <2>5. Len(s) \in Nat /\ DOMAIN s = 1 .. Len(s) /\ DOMAIN c = 1 .. 1 + Len(s)
    BY <2>1, <2>4, SeqIs
  <2>6. /\ c[1] = x
        /\ \A i \in DOMAIN c : i # 1 => i - 1 \in DOMAIN s /\ c[i] = s[i - 1]
    BY <2>4, <2>5
  <2>7. Prompt(c)
    <3>1. \A i \in DOMAIN c : c[i] = [text |-> c[i].text, cached |-> c[i].cached] /\ c[i].text # NoText
      BY <1>4, <1>5, <2>1, <2>6
    <3> QED BY <2>4, <3>1 DEF Prompt, IsSystem
  <2>8. IsSeq(t) /\ DOMAIN t = DOMAIN s /\ \A i \in DOMAIN s : t[i] = s[i].text
    BY <2>1, TextsAre DEF Each
  <2>9. IsSeq(u) /\ DOMAIN u = DOMAIN c /\ \A i \in DOMAIN c : u[i] = c[i].text
    BY <2>4, TextsAre DEF Each
  <2> HIDE DEF t, u
  <2>10. Len(t) = Len(s) /\ Len(u) = Len(c)
    <3>1. DOMAIN t = 1 .. Len(t) /\ Len(t) \in Nat /\ DOMAIN u = 1 .. Len(u) /\ Len(u) \in Nat
      BY <2>8, <2>9, SeqIs
    <3> QED BY <2>4, <2>5, <2>8, <2>9, <3>1
  <2>11. IsSeq(b \o t) /\ Len(b \o t) = 1 + Len(s) /\ \A i \in 1 .. 1 + Len(s) : (b \o t)[i] = IF i <= 1 THEN BridgeText ELSE t[i - 1]
    BY <2>8, <2>10, PrefixedIs
  <2>12. \A i \in 1 .. 1 + Len(s) : u[i] = (b \o t)[i]
    <3> SUFFICES ASSUME NEW i \in 1 .. 1 + Len(s) PROVE u[i] = (b \o t)[i]
      OBVIOUS
    <3>1. CASE i = 1
      <4>1. i \in DOMAIN c
        BY <2>5
      <4> QED BY <1>4, <2>5, <2>6, <2>9, <2>11, <3>1, <4>1
    <3>2. CASE i # 1
      <4>1. i \in DOMAIN c /\ ~ (i <= 1)
        BY <2>5, <3>2
      <4> QED BY <2>6, <2>8, <2>9, <2>11, <3>2, <4>1
    <3> QED BY <3>1, <3>2
  <2>13. u = b \o t
    BY <2>4, <2>9, <2>10, <2>11, <2>12, SameSeq
  <2> QED BY <2>7, <2>13 DEF u, b, t
<1>7. canon' = [model |-> canon.model, stream |-> canon.stream, system |-> c, messages |-> canon.messages]
  BY <1>1, <1>2 DEF InCanonicalForm, IsRequest
<1>8. canon'.system = c /\ canon'.messages = canon.messages /\ IsRequest(canon')
  BY <1>7 DEF IsRequest
<1>9. InCanonicalForm(canon')
  BY <1>2, <1>6, <1>8 DEF InCanonicalForm
<1>10. Each(TextOf, canon'.system) = (IF bridged' THEN <<BridgeText>> ELSE <<>>) \o SystemOf(body)
  <2>1. IsSeq(SystemOf(body))
    BY SystemOfIsSeq DEF TranslationInv, BodyInv
  <2>2. <<>> \o SystemOf(body) = SystemOf(body)
    BY <2>1, ConcatNone
  <2>3. Each(TextOf, s) = SystemOf(body)
    BY <1>1, <1>2, <2>2 DEF SamePrompt, Each
  <2> HIDE DEF s
  <2> QED BY <1>1, <1>6, <1>8, <2>3 DEF Each
<1>11. \A w, v : Reads(source, w, v) => ToldOf(w, canon'.messages) = ToldOf(v, body.messages)
  BY <1>2, <1>8 DEF SameConversation
<1>12. stage' \in Nat \ {0} /\ (stage' <= 4 => bridged' = FALSE)
  BY <1>1
<1> QED BY <1>1, <1>9, <1>10, <1>11, <1>12, Rewritten DEF Each

\* A stage that is skipped changes nothing else.
LEMMA SkipStep ==
  ASSUME TranslationInv, Skip
  PROVE  TranslationInv'
<1>1. stage \in {2, 3, 4} /\ stage' = stage + 1 /\ UNCHANGED <<source, target, body, canon, upstream, bridged>>
  BY StageIs DEF TranslationInv, Skip
<1>2. BodyInv'
  BY <1>1 DEF TranslationInv, BodyInv
<1>3. CanonInv'
  BY <1>1 DEF TranslationInv, CanonInv, SameConversation, SamePrompt
<1> QED BY <1>1, <1>2, <1>3 DEF TranslationInv

\* Whatever stages run, once translated the canonical request is in the form
\* the writers expect, tells what the client's body does, and what is sent is
\* written from the last of it: no stage (compression, cache hint, bridge)
\* leaves the body of the stage before it behind.
THEOREM TranslationInvHolds == Spec => []TranslationInv
<1>1. Init => TranslationInv
  BY TranslationInit
<1>2. TranslationInv /\ [Next]_vars => TranslationInv'
  <2> SUFFICES ASSUME TranslationInv, [Next]_vars PROVE TranslationInv'
    OBVIOUS
  <2>1. CASE Translate
    BY <2>1, TranslateStep
  <2>2. CASE Compress
    BY <2>2, CompressStep
  <2>3. CASE Hint
    BY <2>3, HintStep
  <2>4. CASE Bridge
    BY <2>4, BridgeStep
  <2>5. CASE Skip
    BY <2>5, SkipStep
  <2>6. CASE UNCHANGED vars
    BY <2>6 DEF vars, TranslationInv, BodyInv, CanonInv, SameConversation, SamePrompt
  <2> QED BY <2>1, <2>2, <2>3, <2>4, <2>5, <2>6 DEF Next
<1> QED BY <1>1, <1>2, PTL DEF Spec

-----------------------------------------------------------------------------
(* What the provider is sent.                                              *)

\* An API has places for kinds only.
LEMMA CarriesKinds ==
  ASSUME NEW f \in Formats
  PROVE  Carries(f) \subseteq Kinds
BY DEF Formats, Carries, Kinds

\* Asked w, the provider is told what the client says asked v.
LEMMA CarriedThrough ==
  ASSUME TranslationInv, Translated, NEW w, NEW u, NEW v, Writes(target, w, u), Reads(source, u, v)
  PROVE  ToldOf(w, upstream.messages) = ToldOf(v, body.messages)
<1>1. InCanonicalForm(canon) /\ upstream = FromCanonical(target, canon) /\ SameConversation /\ target \in Formats
  BY DEF TranslationInv, CanonInv, Translated
<1>2. ToldOf(w, upstream.messages) = ToldOf(u, canon.messages)
  BY <1>1, FromCanonicalTells
<1>3. ToldOf(u, canon.messages) = ToldOf(v, body.messages)
  BY <1>1 DEF SameConversation
<1> QED BY <1>2, <1>3

\* The provider is sent the prompt of the client, behind the bridge.
LEMMA SystemCarried ==
  ASSUME TranslationInv, Translated
  PROVE  SystemOf(upstream) =
           LET texts == (IF bridged THEN <<BridgeText>> ELSE <<>>) \o SystemOf(body)
           IN IF target = "responses" /\ texts = <<>> THEN <<DefaultInstructions>> ELSE texts
<1> DEFINE texts == (IF bridged THEN <<BridgeText>> ELSE <<>>) \o SystemOf(body)
           s == canon.system
           t == Each(TextOf, s)
<1>1. InCanonicalForm(canon) /\ upstream = FromCanonical(target, canon) /\ SamePrompt /\ target \in Formats
  BY DEF TranslationInv, CanonInv, Translated
<1>2. SystemOf(upstream) = IF target = "responses" /\ s = <<>> THEN <<DefaultInstructions>> ELSE t
  BY <1>1, FromCanonicalTells DEF Each
<1>3. t = texts
  BY <1>1 DEF SamePrompt, Each
<1>4. IsSeq(s)
  BY <1>1 DEF InCanonicalForm, Prompt, IsSystem
<1>5. s = <<>> <=> t = <<>>
  <2> HIDE DEF s
  <2>1. IsSeq(t) /\ DOMAIN t = DOMAIN s
    BY <1>4, TextsAre DEF Each
  <2> HIDE DEF t
  <2>2. ASSUME NEW x, IsSeq(x) PROVE x = <<>> <=> DOMAIN x = {}
    <3>1. IsSeq(<<>>) /\ DOMAIN <<>> = {}
      BY NoneIs
    <3>2. DOMAIN x = {} => x = <<>>
      BY <2>2, <3>1 DEF IsSeq
    <3> QED BY <3>1, <3>2
  <2> QED BY <1>4, <2>1, <2>2
<1> HIDE DEF t, s, texts
<1>6. SystemOf(upstream) = IF target = "responses" /\ texts = <<>> THEN <<DefaultInstructions>> ELSE texts
  BY <1>2, <1>3, <1>5
<1> QED BY <1>6 DEF texts

\* For every conversation a client may hold, between any two of the four APIs
\* and whatever stages run, what the provider is sent says all that the client
\* said and its API has a place for, in the client's order, and nothing else,
\* and the system prompt is whole, behind the bridge (Registry.TranslateRequest
\* and the stages of executeRequest).
THEOREM ContentIsCarriedHolds == Spec => []ContentIsCarried
<1>1. TranslationInv => ContentIsCarried
  <2> SUFFICES ASSUME TranslationInv, Translated PROVE ContentIsCarried
    BY DEF ContentIsCarried
  <2> DEFINE K == Kinds \cap Carries(target)
             L == K \cap Carries(source)
  <2>1. Writes(target, SaysOf(Kinds), SaysOf(K)) /\ Reads(source, SaysOf(K), SaysOf(L))
    BY DEF Writes, Reads, SaysInBoth
  <2>2. L = Carries(source) \cap Carries(target)
    <3>1. Carries(source) \subseteq Kinds /\ Carries(target) \subseteq Kinds
      BY CarriesKinds DEF TranslationInv
    <3> QED BY <3>1
  <2> HIDE DEF K, L
  <2>3. ToldOf(SaysOf(Kinds), upstream.messages) = ToldOf(SaysOf(L), body.messages)
    BY <2>1, CarriedThrough
  <2>4. Substance(Kinds, upstream.messages) = Substance(Carries(source) \cap Carries(target), body.messages)
    BY <2>2, <2>3, SubstanceIs
  <2>5. SystemOf(upstream) =
          LET texts == (IF bridged THEN <<BridgeText>> ELSE <<>>) \o SystemOf(body)
          IN IF target = "responses" /\ texts = <<>> THEN <<DefaultInstructions>> ELSE texts
    BY SystemCarried
  <2> QED BY <2>4, <2>5 DEF ContentIsCarried
<1> QED BY <1>1, TranslationInvHolds, PTL

\* What Claude is sent begins with the user and no two messages in a row have
\* the same role, whatever the client's API and however it grouped its turns
\* (mergeConsecutiveMessages, ensureAlternating).
THEOREM ClaudeAlternatesHolds == Spec => []ClaudeAlternates
<1>1. TranslationInv => ClaudeAlternates
  <2> SUFFICES ASSUME TranslationInv, Translated, target = "claude" PROVE ClaudeAlternates
    BY DEF ClaudeAlternates
  <2>1. InCanonicalForm(canon) /\ upstream = FromCanonical(target, canon) /\ target \in Formats
    BY DEF TranslationInv, CanonInv, Translated
  <2> DEFINE m == upstream.messages
  <2>2. (m # <<>> => m[1].role = "user") /\ Alternates(m)
    BY <2>1, FromCanonicalTells
  <2> QED BY <2>2 DEF ClaudeAlternates, Alternates
<1> QED BY <1>1, TranslationInvHolds, PTL

\* Of a provider without tools nothing is asked.
LEMMA NothingTold ==
  ASSUME NEW ms, AreMessages(ms)
  PROVE  ToldOf(SaysOf({}), ms) = <<>>
<1> DEFINE v == SaysOf({})
           ss == [i \in DOMAIN ms |-> ToldIn(v, ms[i])]
<1>1. \A m, b : Tells(v, m, b) = <<>>
  BY DEF Tells, SaysOf, Says
<1>2. IsSeq(ms) /\ \A i \in DOMAIN ms : IsSeq(ms[i].blocks)
  BY DEF AreMessages, IsMessage
<1>3. ASSUME NEW i \in DOMAIN ms PROVE ToldIn(v, ms[i]) = <<>>
  <2> DEFINE m == ms[i]
             s == m.blocks
             t == ToldEach(v, m, s)
  <2>1. IsSeq(s)
    BY <1>2
  <2> HIDE DEF m, s, v
  <2>2. IsSeqs(t) /\ DOMAIN t = DOMAIN s /\ Told(v, m, s) = FlattenSeq(t) /\ \A j \in DOMAIN s : t[j] = Tells(v, m, s[j])
    BY <2>1, ToldEachIs
  <2> HIDE DEF t
  <2>3. \A j \in DOMAIN t : t[j] = <<>>
    BY <1>1, <2>2 DEF v
  <2>4. FlattenSeq(t) = <<>>
    BY <2>2, <2>3, FlattenEmpty
  <2> QED BY <2>2, <2>4 DEF ToldIn, m, s
<1>4. ss = [i \in DOMAIN ms |-> ss[i]] /\ \A i \in DOMAIN ms : ss[i] = <<>>
  BY <1>3
<1>5. ToldOf(v, ms) = FlattenSeq(ss)
  BY DEF ToldOf
<1> HIDE DEF ss, v
<1>6. IsSeq(ss) /\ DOMAIN ss = DOMAIN ms
  BY <1>2, <1>4, MapIs
<1>7. IsSeqs(ss)
  BY <1>4, <1>6, NoneIs DEF IsSeqs
<1>8. FlattenSeq(ss) = <<>>
  BY <1>4, <1>6, <1>7, FlattenEmpty
<1> QED BY <1>5, <1>8 DEF v

\* Whatever stages run, every answer of a tool that a provider is sent refers
\* to a call it is sent before it, by the id or, between two ends that speak
\* Gemini's API, by the name of the function (the ids GeminiToCanonical makes,
\* the names GeminiFromCanonical takes from them).
THEOREM AnswersKeepTheirCallsHolds == Spec => []AnswersKeepTheirCalls
<1>1. TranslationInv => AnswersKeepTheirCalls
  <2> SUFFICES ASSUME TranslationInv, Translated, target = "gemini" => source = "gemini"
               PROVE  Answered(Acts(target, upstream.messages))
    BY DEF AnswersKeepTheirCalls
  <2> DEFINE w == Asks(IF target = "gemini" THEN "name" ELSE "id")
             ms == upstream.messages
  <2>1. source \in Formats /\ target \in Formats /\ \A how \in Hows(source) : Answered(ToldOf(Asks(how), body.messages))
    BY DEF TranslationInv, BodyInv
  <2>2. Acts(target, ms) = ToldOf(w, ms)
    BY <2>1, ActsAre
  <2>3. CASE target = "gemini"
    <3>1. Writes(target, w, Asks("function")) /\ Reads(source, Asks("function"), Asks("name"))
      BY <2>3 DEF Writes, Reads
    <3>2. ToldOf(w, ms) = ToldOf(Asks("name"), body.messages)
      BY <3>1, CarriedThrough
    <3>3. "name" \in Hows(source)
      BY <2>3 DEF Hows
    <3> QED BY <2>1, <2>2, <3>2, <3>3
  <2>4. CASE target \in {"claude", "openai"}
    <3>1. Writes(target, w, Asks("id"))
      BY <2>4 DEF Writes
    <3>2. CASE source = "gemini"
      <4>1. Reads(source, Asks("id"), Asks("madeId")) /\ "madeId" \in Hows(source)
        BY <3>2 DEF Reads, Hows
      <4>2. ToldOf(w, ms) = ToldOf(Asks("madeId"), body.messages)
        BY <3>1, <4>1, CarriedThrough
      <4> QED BY <2>1, <2>2, <4>1, <4>2
    <3>3. CASE source # "gemini"
      <4>1. Reads(source, Asks("id"), Asks("id")) /\ "id" \in Hows(source)
        BY <2>1, <3>3 DEF Reads, Hows, Formats
      <4>2. ToldOf(w, ms) = ToldOf(Asks("id"), body.messages)
        BY <3>1, <4>1, CarriedThrough
      <4> QED BY <2>1, <2>2, <4>1, <4>2
    <3> QED BY <3>2, <3>3
  <2>5. CASE target = "responses"
    <3>1. Writes(target, w, SaysOf({}))
      BY <2>5 DEF Writes
    <3>2. InCanonicalForm(canon) /\ upstream = FromCanonical(target, canon)
      BY DEF TranslationInv, CanonInv, Translated
    <3>3. ToldOf(w, ms) = ToldOf(SaysOf({}), canon.messages)
      BY <2>1, <3>1, <3>2, FromCanonicalTells
    <3>4. AreMessages(canon.messages)
      BY <3>2, CanonicalsAreMessages DEF InCanonicalForm
    <3>5. ToldOf(w, ms) = <<>>
      BY <3>3, <3>4, NothingTold
    <3> QED BY <2>2, <3>5, NoneIs DEF Answered
  <2> QED BY <2>1, <2>3, <2>4, <2>5 DEF Formats
<1> QED BY <1>1, TranslationInvHolds, PTL

=============================================================================
