----------------------------- MODULE FoldLemmas -----------------------------
(***************************************************************************)
(* What the folds of the community modules compute, for the proofs of      *)
(* several components: the sums over finite sets of SumFunctionOnSet (the  *)
(* charges of a month in Metering, the size of the conversations in        *)
(* SmartRouting), and the sequences that FlattenSeq lays end to end (what  *)
(* the lines of a stream say in Exchange, the blocks of a request in       *)
(* Translation).  They are recursive functions.  What they compute is      *)
(* shown without induction over an operator: of the arguments for which a  *)
(* claim fails there would be a smallest one, and it holds for that.       *)
(***************************************************************************)
EXTENDS SequencesExt, Integers, FiniteSetTheorems, SequenceTheorems, WellFoundedInduction, TLAPS

-----------------------------------------------------------------------------
(* Smallest sets and numbers.                                              *)

\* Of any sets of elements of a finite set one has none of the others in it:
\* what the sums and the folds of the other modules are argued by.
LEMMA SmallestSubset ==
  ASSUME NEW S, IsFiniteSet(S), NEW B \in SUBSET SUBSET S, B # {}
  PROVE  \E m \in B : \A b \in B : b \subseteq m => b = m
<1>1. IsWellFoundedOn(StrictSubsetOrdering(S), SUBSET S)
  BY FS_StrictSubsetOrderingWellFounded, FS_FiniteSubsetsOfFinite
<1>2. PICK m \in B : \A b \in B : ~ <<b, m>> \in StrictSubsetOrdering(S)
  BY <1>1, WFMin
<1>3. \A b \in B : b \subseteq m => b = m
  BY <1>2 DEF StrictSubsetOrdering
<1> QED BY <1>3

\* Of any numbers one is the least: where a loop that counts up stops.
LEMMA SmallestNatIn ==
  ASSUME NEW B \in SUBSET Nat, B # {}
  PROVE  \E m \in B : \A b \in B : m <= b
<1>2. PICK m \in B : \A b \in B : ~ <<b, m>> \in OpToRel(<, Nat)
  BY NatLessThanWellFounded, WFMin
<1>3. \A b \in B : ~ (b < m)
  BY <1>2 DEF OpToRel
<1> QED BY <1>3

-----------------------------------------------------------------------------
(* SumFunctionOnSet, unfolded.                                             *)

\* The element that is added next.
Chosen(s) == CHOOSE x \in s : TRUE

\* What g makes of a set when it adds that element to the sum of the others.
SumStep(f, g, s) == IF s = {} THEN 0 ELSE f[Chosen(s)] + g[s \ {Chosen(s)}]
Computes(f, g, S) == \A s \in SUBSET S : g[s] = SumStep(f, g, s)

\* The recursive function behind SumFunctionOnSet.
Sums(f, S) == CHOOSE g : g = [s \in SUBSET S |-> SumStep(f, g, s)]

\* A sum is the value of that function.
LEMMA SumIs ==
  ASSUME NEW f, NEW S
  PROVE  SumFunctionOnSet(f, S) = Sums(f, S)[S]
BY DEF SumFunctionOnSet, FoldFunctionOnSet, MapThenFoldSet, Sums, SumStep, Chosen

\* Two functions that add up in this way agree wherever both are defined.
LEMMA SumStepUnique ==
  ASSUME NEW f, NEW S, IsFiniteSet(S), NEW T \in SUBSET S,
         NEW g, NEW h, Computes(f, g, S), Computes(f, h, T)
  PROVE  \A s \in SUBSET T : g[s] = h[s]
<1> DEFINE B == {s \in SUBSET T : g[s] # h[s]}
<1>1. SUFFICES ASSUME B # {} PROVE FALSE
  OBVIOUS
<1>2. IsFiniteSet(T)
  BY FS_Subset
<1>3. PICK m \in B : \A b \in B : b \subseteq m => b = m
  <2>1. B \in SUBSET SUBSET T
    OBVIOUS
  <2> HIDE DEF B
  <2> QED BY <1>1, <1>2, <2>1, SmallestSubset
<1>4. m # {}
  BY DEF SumStep, Computes
<1>5. Chosen(m) \in m
  BY <1>4 DEF Chosen
<1>6. g[m \ {Chosen(m)}] = h[m \ {Chosen(m)}]
  BY <1>3, <1>5
<1> QED BY <1>4, <1>6 DEF SumStep, Computes

\* The sum is defined on every finite set.
LEMMA SumsDefined ==
  ASSUME NEW f, NEW S, IsFiniteSet(S)
  PROVE  Computes(f, Sums(f, S), S)
<1> DEFINE Defined(T) == Sums(f, T) = [s \in SUBSET T |-> SumStep(f, Sums(f, T), s)]
           B == {T \in SUBSET S : ~ Defined(T)}
<1>1. SUFFICES ASSUME B # {} PROVE FALSE
  <2>1. Defined(S) => Computes(f, Sums(f, S), S)
    BY DEF Computes
  <2> QED BY <2>1
<1>2. PICK T \in B : \A U \in B : U \subseteq T => U = T
  <2>1. B \in SUBSET SUBSET S
    OBVIOUS
  <2> HIDE DEF B
  <2> QED BY <1>1, <2>1, SmallestSubset
<1>3. \A U \in SUBSET T : U # T => Defined(U)
  BY <1>2
<1> HIDE DEF B
<1> DEFINE Total(u) == Sums(f, u)[u]
           g == [s \in SUBSET T |-> IF s = {} THEN 0 ELSE f[Chosen(s)] + Total(s \ {Chosen(s)})]
<1>4. T \in SUBSET S /\ IsFiniteSet(T)
  BY FS_Subset DEF B
<1>5. \A u \in SUBSET T : u # T => g[u] = Total(u)
  <2> SUFFICES ASSUME NEW u \in SUBSET T, u # T PROVE g[u] = Total(u)
    OBVIOUS
  <2>1. Defined(u)
    BY <1>3
  <2>2. Total(u) = SumStep(f, Sums(f, u), u)
    BY <2>1
  <2>3. CASE u = {}
    BY <2>2, <2>3 DEF SumStep
  <2>4. CASE u # {}
    <3> DEFINE v == u \ {Chosen(u)}
    <3>1. v \in SUBSET u /\ v \in SUBSET T /\ v # T
      BY <2>4
    <3>2. Defined(v)
      BY <1>3, <3>1
    <3>3. IsFiniteSet(u)
      BY <1>4, FS_Subset
    <3>4. Sums(f, u)[v] = Sums(f, v)[v]
      <4>1. Computes(f, Sums(f, u), u)
        BY <2>1 DEF Computes
      <4>2. Computes(f, Sums(f, v), v)
        BY <3>2 DEF Computes
      <4>3. v \in SUBSET u /\ v \in SUBSET v
        BY <3>1
      <4> HIDE DEF v
      <4> QED BY <3>3, <4>1, <4>2, <4>3, SumStepUnique
    <3> QED BY <2>2, <2>4, <3>4 DEF SumStep
  <2> QED BY <2>3, <2>4
<1>6. g = [s \in SUBSET T |-> SumStep(f, g, s)]
  <2> SUFFICES ASSUME NEW s \in SUBSET T PROVE g[s] = SumStep(f, g, s)
    OBVIOUS
  <2>1. CASE s = {}
    BY <2>1 DEF SumStep
  <2>2. CASE s # {}
    <3>1. Chosen(s) \in s
      BY <2>2 DEF Chosen
    <3>2. s \ {Chosen(s)} \in SUBSET T /\ s \ {Chosen(s)} # T
      BY <3>1
    <3>3. g[s \ {Chosen(s)}] = Total(s \ {Chosen(s)})
      BY <1>5, <3>2
    <3> QED BY <2>2, <3>3 DEF SumStep
  <2> QED BY <2>1, <2>2
<1>7. Defined(T)
  <2> HIDE DEF g
  <2> QED BY <1>6 DEF Sums
<1> QED BY <1>2, <1>7 DEF B

-----------------------------------------------------------------------------
(* What the sums are.                                                      *)

\* No rows cost nothing.
LEMMA SumOfNothing ==
  ASSUME NEW f
  PROVE  SumFunctionOnSet(f, {}) = 0
<1>1. Computes(f, Sums(f, {}), {})
  BY SumsDefined, FS_EmptySet
<1> QED BY <1>1, SumIs DEF Computes, SumStep

\* The sum over a part, taken on the way to the whole, is the part's own.
LEMMA SumOfPart ==
  ASSUME NEW f, NEW S, IsFiniteSet(S), NEW T \in SUBSET S
  PROVE  Sums(f, S)[T] = SumFunctionOnSet(f, T)
<1>1. Computes(f, Sums(f, S), S)
  BY SumsDefined
<1>2. Computes(f, Sums(f, T), T)
  BY FS_Subset, SumsDefined
<1>3. T \in SUBSET T
  OBVIOUS
<1>4. Sums(f, S)[T] = Sums(f, T)[T]
  BY <1>1, <1>2, <1>3, SumStepUnique
<1> QED BY <1>4, SumIs

\* One step of the sum.
LEMMA SumWithoutChosen ==
  ASSUME NEW f, NEW S, IsFiniteSet(S), S # {}
  PROVE  SumFunctionOnSet(f, S) = f[Chosen(S)] + SumFunctionOnSet(f, S \ {Chosen(S)})
<1>1. Computes(f, Sums(f, S), S)
  BY SumsDefined
<1>2. Sums(f, S)[S] = f[Chosen(S)] + Sums(f, S)[S \ {Chosen(S)}]
  BY <1>1 DEF Computes, SumStep
<1>3. S \ {Chosen(S)} \in SUBSET S
  OBVIOUS
<1> QED BY <1>2, <1>3, SumIs, SumOfPart

\* Costs and turns add up to a number.
LEMMA SumIsNat ==
  ASSUME NEW f, NEW S, IsFiniteSet(S), \A x \in S : f[x] \in Nat
  PROVE  SumFunctionOnSet(f, S) \in Nat
<1> DEFINE B == {s \in SUBSET S : SumFunctionOnSet(f, s) \notin Nat}
<1>1. SUFFICES ASSUME B # {} PROVE FALSE
  OBVIOUS
<1>2. PICK m \in B : \A b \in B : b \subseteq m => b = m
  <2>1. B \in SUBSET SUBSET S
    OBVIOUS
  <2> HIDE DEF B
  <2> QED BY <1>1, <2>1, SmallestSubset
<1>3. m # {}
  BY SumOfNothing
<1>4. Chosen(m) \in m /\ IsFiniteSet(m)
  BY <1>3, FS_Subset DEF Chosen
<1>5. SumFunctionOnSet(f, m \ {Chosen(m)}) \in Nat
  BY <1>2, <1>4
<1> QED BY <1>3, <1>4, <1>5, SumWithoutChosen

\* The element that is taken out of the sum first does not matter.
LEMMA SumWithout ==
  ASSUME NEW f, NEW S, IsFiniteSet(S), \A x \in S : f[x] \in Nat, NEW e \in S
  PROVE  SumFunctionOnSet(f, S) = f[e] + SumFunctionOnSet(f, S \ {e})
<1> DEFINE Total(s) == SumFunctionOnSet(f, s)
           B == {s \in SUBSET S : \E x \in s : Total(s) # f[x] + Total(s \ {x})}
<1>1. SUFFICES ASSUME B # {} PROVE FALSE
  OBVIOUS
<1>2. PICK m \in B : \A b \in B : b \subseteq m => b = m
  <2>1. B \in SUBSET SUBSET S
    OBVIOUS
  <2> HIDE DEF B
  <2> QED BY <1>1, <2>1, SmallestSubset
<1>3. PICK x \in m : Total(m) # f[x] + Total(m \ {x})
  OBVIOUS
<1> DEFINE c == Chosen(m)
<1>4. c \in m
  BY DEF Chosen
<1>5. IsFiniteSet(m) /\ \A s \in SUBSET m : IsFiniteSet(s) /\ Total(s) \in Nat
  BY FS_Subset, SumIsNat
<1>6. Total(m) = f[c] + Total(m \ {c})
  BY <1>4, <1>5, SumWithoutChosen
<1>7. x # c
  BY <1>3, <1>6
<1>8. Total(m \ {c}) = f[x] + Total((m \ {c}) \ {x})
  <2>1. m \ {c} \notin B
    BY <1>2, <1>4
  <2> QED BY <1>7, <2>1
<1>9. Total(m \ {x}) = f[c] + Total((m \ {x}) \ {c})
  <2>1. m \ {x} \notin B
    BY <1>2
  <2> QED BY <1>4, <1>7, <2>1
<1>10. (m \ {c}) \ {x} = (m \ {x}) \ {c}
  OBVIOUS
<1>11. f[x] \in Nat /\ f[c] \in Nat /\ Total((m \ {c}) \ {x}) \in Nat
  BY <1>4, <1>5
<1> HIDE DEF Total
<1> QED BY <1>3, <1>6, <1>8, <1>9, <1>10, <1>11

\* A sum over a set is that over a part of it and that over the rest.
LEMMA SumSplits ==
  ASSUME NEW f, NEW S, IsFiniteSet(S), \A x \in S : f[x] \in Nat, NEW T \in SUBSET S
  PROVE  SumFunctionOnSet(f, S) = SumFunctionOnSet(f, T) + SumFunctionOnSet(f, S \ T)
<1> DEFINE Total(s) == SumFunctionOnSet(f, s)
<1>1. \A s \in SUBSET S : IsFiniteSet(s) /\ Total(s) \in Nat
  BY FS_Subset, SumIsNat
<1> DEFINE C == {s \in SUBSET T : Total(S) # Total(s) + Total(S \ s)}
<1>2. SUFFICES ASSUME C # {} PROVE FALSE
  OBVIOUS
<1>3. PICK m \in C : \A b \in C : b \subseteq m => b = m
  <2>1. C \in SUBSET SUBSET S
    OBVIOUS
  <2> HIDE DEF C
  <2> QED BY <1>2, <2>1, SmallestSubset
<1>4. m # {}
  <2>1. Total({}) = 0 /\ S \ {} = S /\ Total(S) \in Nat
    BY <1>1, SumOfNothing
  <2> QED BY <2>1
<1>5. PICK e \in m : TRUE
  BY <1>4
<1>6. Total(S) = Total(m \ {e}) + Total(S \ (m \ {e}))
  BY <1>3
<1>7. Total(m) = f[e] + Total(m \ {e})
  BY <1>1, SumWithout
<1>8. Total(S \ (m \ {e})) = f[e] + Total(S \ m)
  <2>1. (S \ (m \ {e})) \ {e} = S \ m /\ e \in S \ (m \ {e}) /\ S \ (m \ {e}) \in SUBSET S
    OBVIOUS
  <2> QED BY <1>1, <2>1, SumWithout
<1>9. f[e] \in Nat /\ Total(m \ {e}) \in Nat /\ Total(S \ m) \in Nat
  BY <1>1
<1>10. Total(S) # Total(m) + Total(S \ m)
  OBVIOUS
<1> HIDE DEF Total
<1> QED BY <1>6, <1>7, <1>8, <1>9, <1>10

\* More rows do not cost less.
LEMMA SumGrows ==
  ASSUME NEW f, NEW S, IsFiniteSet(S), \A x \in S : f[x] \in Nat, NEW T \in SUBSET S
  PROVE  SumFunctionOnSet(f, T) <= SumFunctionOnSet(f, S)
<1>1. IsFiniteSet(T) /\ IsFiniteSet(S \ T)
  BY FS_Subset
<1>2. SumFunctionOnSet(f, T) \in Nat /\ SumFunctionOnSet(f, S \ T) \in Nat
  BY <1>1, SumIsNat
<1> QED BY <1>2, SumSplits

\* Only what the function says of the set's elements matters.
LEMMA SumAgrees ==
  ASSUME NEW f, NEW g, NEW S, IsFiniteSet(S), \A x \in S : f[x] = g[x]
  PROVE  SumFunctionOnSet(f, S) = SumFunctionOnSet(g, S)
<1> DEFINE B == {s \in SUBSET S : SumFunctionOnSet(f, s) # SumFunctionOnSet(g, s)}
<1>1. SUFFICES ASSUME B # {} PROVE FALSE
  OBVIOUS
<1>2. PICK m \in B : \A b \in B : b \subseteq m => b = m
  <2>1. B \in SUBSET SUBSET S
    OBVIOUS
  <2> HIDE DEF B
  <2> QED BY <1>1, <2>1, SmallestSubset
<1>3. m # {}
  BY SumOfNothing
<1>4. Chosen(m) \in m /\ IsFiniteSet(m)
  BY <1>3, FS_Subset DEF Chosen
<1>5. SumFunctionOnSet(f, m \ {Chosen(m)}) = SumFunctionOnSet(g, m \ {Chosen(m)})
  BY <1>2, <1>4
<1> QED BY <1>3, <1>4, <1>5, SumWithoutChosen

-----------------------------------------------------------------------------
(* Sequences of any elements, and what the recursions over them return.    *)

\* A sequence, of whatever elements.
IsSeq(s) == \E S : s \in Seq(S)

\* What a sequence is.
LEMMA SeqIs ==
  ASSUME NEW s, IsSeq(s)
  PROVE  /\ Len(s) \in Nat /\ DOMAIN s = 1 .. Len(s)
         /\ \A S : (\A i \in DOMAIN s : s[i] \in S) => s \in Seq(S)
<1>1. PICK T : s \in Seq(T)
  BY DEF IsSeq
<1>2. Len(s) \in Nat /\ DOMAIN s = 1 .. Len(s)
  BY <1>1
<1>3. ASSUME NEW S, \A i \in DOMAIN s : s[i] \in S PROVE s \in Seq(S)
  <2>1. s = [i \in 1 .. Len(s) |-> s[i]]
    BY <1>1
  <2> QED BY <1>2, <1>3, <2>1, IsASeq
<1> QED BY <1>2, <1>3

\* A function on an interval from 1 is a sequence.
LEMMA ListIsSeq ==
  ASSUME NEW n \in Nat, NEW s, s = [i \in 1 .. n |-> s[i]]
  PROVE  IsSeq(s) /\ Len(s) = n
<1> DEFINE S == {s[i] : i \in 1 .. n}
<1>1. s \in Seq(S)
  <2>1. \A i \in 1 .. n : s[i] \in S
    OBVIOUS
  <2> HIDE DEF S
  <2> QED BY <2>1, IsASeq
<1>2. DOMAIN s = 1 .. n
  OBVIOUS
<1> HIDE DEF S
<1>3. Len(s) = n
  BY <1>1, <1>2
<1> QED BY <1>1, <1>3 DEF IsSeq

\* Concatenation puts the second after the first.
LEMMA ConcatIs ==
  ASSUME NEW a, NEW b, IsSeq(a), IsSeq(b)
  PROVE  /\ IsSeq(a \o b) /\ Len(a \o b) = Len(a) + Len(b)
         /\ \A i \in 1 .. Len(a) + Len(b) : (a \o b)[i] = IF i <= Len(a) THEN a[i] ELSE b[i - Len(a)]
<1>1. PICK S : a \in Seq(S)
  BY DEF IsSeq
<1>2. PICK T : b \in Seq(T)
  BY DEF IsSeq
<1> DEFINE U == S \cup T
<1>3. a \in Seq(U) /\ b \in Seq(U)
  BY <1>1, <1>2, SeqMonotonic, S \subseteq U, T \subseteq U
<1> HIDE DEF U
<1>4. a \o b \in Seq(U)
  BY <1>3
<1> QED BY <1>3, <1>4 DEF IsSeq

\* A sequence of one.
LEMMA OneIs ==
  ASSUME NEW x
  PROVE  IsSeq(<<x>>) /\ Len(<<x>>) = 1 /\ <<x>>[1] = x /\ DOMAIN <<x>> = {1}
<1>1. <<x>> \in Seq({x}) /\ Len(<<x>>) = 1 /\ DOMAIN <<x>> = 1 .. 1
  OBVIOUS
<1>2. 1 .. 1 = {1}
  OBVIOUS
<1>3. IsSeq(<<x>>)
  BY <1>1 DEF IsSeq
<1> QED BY <1>1, <1>2, <1>3

\* A sequence of none.
LEMMA NoneIs == IsSeq(<<>>) /\ Len(<<>>) = 0 /\ DOMAIN <<>> = {}
<1>1. <<>> \in Seq({})
  OBVIOUS
<1> QED BY <1>1 DEF IsSeq

\* Appending adds the last.
LEMMA AppendIs ==
  ASSUME NEW s, NEW x, IsSeq(s)
  PROVE  /\ IsSeq(Append(s, x)) /\ Len(Append(s, x)) = Len(s) + 1
         /\ \A i \in 1 .. Len(s) + 1 : Append(s, x)[i] = IF i <= Len(s) THEN s[i] ELSE x
<1>1. PICK S : s \in Seq(S)
  BY DEF IsSeq
<1> DEFINE U == S \cup {x}
<1>2. s \in Seq(U) /\ x \in U
  BY <1>1, SeqMonotonic, S \subseteq U
<1> HIDE DEF U
<1>3. Append(s, x) \in Seq(U)
  BY <1>2
<1> QED BY <1>2, <1>3 DEF IsSeq

\* The tail has all but the head.
LEMMA TailIs ==
  ASSUME NEW s, IsSeq(s), s # <<>>
  PROVE  /\ Len(s) > 0 /\ Head(s) = s[1]
         /\ IsSeq(Tail(s)) /\ Len(Tail(s)) = Len(s) - 1
         /\ \A i \in 1 .. Len(s) - 1 : Tail(s)[i] = s[i + 1]
<1>1. PICK S : s \in Seq(S)
  BY DEF IsSeq
<1>2. Len(s) > 0
  BY <1>1
<1>3. Tail(s) \in Seq(S) /\ Len(Tail(s)) = Len(s) - 1
  BY <1>1, <1>2
<1> QED BY <1>1, <1>2, <1>3 DEF IsSeq

\* The recursion of FlattenSeq defines a function: by the smallest length at
\* which it would not.
LEMMA FlattenDefined ==
  ASSUME NEW n \in Nat, NEW s
  PROVE  \E g : g = [i \in 1 .. n |-> IF i = 1 THEN s[i] ELSE g[i - 1] \o s[i]]
<1> DEFINE Flat(g, m) == g = [i \in 1 .. m |-> IF i = 1 THEN s[i] ELSE g[i - 1] \o s[i]]
           B == {m \in Nat : ~ \E g : Flat(g, m)}
<1>1. SUFFICES ASSUME B # {} PROVE FALSE
  <2>1. n \notin B => \E g : Flat(g, n)
    OBVIOUS
  <2> QED BY <2>1
<1>2. PICK m \in B : \A b \in B : m <= b
  <2>1. B \in SUBSET Nat
    OBVIOUS
  <2> HIDE DEF B
  <2> QED BY <1>1, <2>1, SmallestNatIn
<1>3. m \in Nat /\ ~ \E g : Flat(g, m)
  OBVIOUS
<1>4. CASE m = 0
  <2>1. Flat([i \in 1 .. 0 |-> 0], 0)
    OBVIOUS
  <2> QED BY <1>3, <1>4, <2>1
<1>5. CASE m # 0
  <2>1. m - 1 \in Nat /\ m - 1 \notin B
    <3> HIDE DEF B
    <3> QED BY <1>2, <1>3, <1>5
  <2>2. PICK f : Flat(f, m - 1)
    BY <2>1
  <2> DEFINE g == [i \in 1 .. m |-> IF i < m THEN f[i] ELSE IF m = 1 THEN s[m] ELSE f[m - 1] \o s[m]]
  <2>3. ASSUME NEW i \in 1 .. m PROVE g[i] = IF i = 1 THEN s[i] ELSE g[i - 1] \o s[i]
    <3>1. CASE i < m
      <4>1. i \in 1 .. m - 1 /\ (i # 1 => i - 1 \in 1 .. m - 1)
        BY <1>3, <3>1
      <4>2. g[i] = f[i] /\ (i # 1 => g[i - 1] = f[i - 1])
        BY <1>3, <3>1, <4>1
      <4>3. f[i] = IF i = 1 THEN s[i] ELSE f[i - 1] \o s[i]
        BY <2>2, <4>1
      <4> HIDE DEF g
      <4> QED BY <4>2, <4>3
    <3>2. CASE i = m
      <4>1. i # 1 => i - 1 \in 1 .. m /\ i - 1 < m
        BY <1>3, <3>2
      <4>2. i # 1 => g[i - 1] = f[i - 1]
        BY <4>1
      <4>3. g[i] = IF i = 1 THEN s[i] ELSE f[i - 1] \o s[i]
        BY <3>2
      <4> HIDE DEF g
      <4> QED BY <4>2, <4>3
    <3> QED BY <1>3, <3>1, <3>2
  <2>4. g = [i \in 1 .. m |-> g[i]]
    OBVIOUS
  <2> HIDE DEF g
  <2>5. Flat(g, m)
    BY <2>3, <2>4
  <2> QED BY <1>3, <2>5
<1> QED BY <1>4, <1>5

\* Flattening sequences gives a sequence, each of whose elements is in one of
\* them: by the smallest prefix of which that would not hold.
LEMMA FlattenIs ==
  ASSUME NEW n \in Nat, NEW s, s = [i \in 1 .. n |-> s[i]], \A i \in 1 .. n : IsSeq(s[i])
  PROVE  /\ IsSeq(FlattenSeq(s))
         /\ \A k \in DOMAIN FlattenSeq(s) :
              \E i \in 1 .. n : \E j \in DOMAIN s[i] : FlattenSeq(s)[k] = s[i][j]
<1> DEFINE S == {x \in UNION {{s[i][j] : j \in DOMAIN s[i]} : i \in 1 .. n} : TRUE}
           flat == CHOOSE g : g = [i \in 1 .. n |-> IF i = 1 THEN s[i] ELSE g[i - 1] \o s[i]]
<1>1. Len(s) = n
  BY ListIsSeq
<1>2. ASSUME FlattenSeq(s) \in Seq(S)
      PROVE  /\ IsSeq(FlattenSeq(s))
             /\ \A k \in DOMAIN FlattenSeq(s) :
                  \E i \in 1 .. n : \E j \in DOMAIN s[i] : FlattenSeq(s)[k] = s[i][j]
  <2>1. \A x \in S : \E i \in 1 .. n : \E j \in DOMAIN s[i] : x = s[i][j]
    OBVIOUS
  <2> HIDE DEF S
  <2>2. \A k \in DOMAIN FlattenSeq(s) : FlattenSeq(s)[k] \in S
    BY <1>2
  <2> QED BY <1>2, <2>1, <2>2 DEF IsSeq
<1>3. CASE n = 0
  <2>1. FlattenSeq(s) = s
    BY <1>1, <1>3 DEF FlattenSeq
  <2>2. s = <<>>
    BY <1>3
  <2>3. s \in Seq(S)
    BY <2>2
  <2> QED BY <1>2, <2>1, <2>3
<1>4. CASE n # 0
  <2>1. FlattenSeq(s) = flat[n]
    BY <1>1, <1>4 DEF FlattenSeq
  <2>2. flat = [i \in 1 .. n |-> IF i = 1 THEN s[i] ELSE flat[i - 1] \o s[i]]
    BY FlattenDefined
  <2> HIDE DEF flat
  <2>3. \A i \in 1 .. n : s[i] \in Seq(S)
    <3> SUFFICES ASSUME NEW i \in 1 .. n PROVE s[i] \in Seq(S)
      OBVIOUS
    <3>1. \A j \in DOMAIN s[i] : s[i][j] \in S
      OBVIOUS
    <3> HIDE DEF S
    <3> QED BY <3>1, SeqIs
  <2> HIDE DEF S
  <2> DEFINE B == {i \in 1 .. n : flat[i] \notin Seq(S)}
  <2>4. B = {}
    <3> SUFFICES ASSUME B # {} PROVE FALSE
      OBVIOUS
    <3>1. PICK m \in B : \A b \in B : m <= b
      <4>1. B \in SUBSET Nat
        OBVIOUS
      <4> HIDE DEF B
      <4> QED BY <4>1, SmallestNatIn
    <3>2. m \in 1 .. n /\ flat[m] \notin Seq(S)
      OBVIOUS
    <3>3. m # 1
      BY <2>2, <2>3, <3>2
    <3>4. m - 1 \in 1 .. n /\ m - 1 \notin B
      BY <3>1, <3>2, <3>3
    <3>5. flat[m - 1] \in Seq(S)
      BY <3>4
    <3>6. flat[m] = flat[m - 1] \o s[m]
      BY <2>2, <3>2, <3>3
    <3> QED BY <2>3, <3>2, <3>5, <3>6
  <2>5. flat[n] \in Seq(S)
    BY <1>4, <2>4
  <2> QED BY <1>2, <2>1, <2>5
<1> QED BY <1>3, <1>4

-----------------------------------------------------------------------------
(* Sequences laid end to end.                                              *)

\* Concatenation is associative.
LEMMA ConcatAssoc ==
  ASSUME NEW a, NEW b, NEW c, IsSeq(a), IsSeq(b), IsSeq(c)
  PROVE  (a \o b) \o c = a \o (b \o c)
<1>1. PICK S : a \in Seq(S)
  BY DEF IsSeq
<1>2. PICK T : b \in Seq(T)
  BY DEF IsSeq
<1>3. PICK R : c \in Seq(R)
  BY DEF IsSeq
<1> DEFINE U == S \cup T \cup R
<1>4. a \in Seq(U) /\ b \in Seq(U) /\ c \in Seq(U)
  BY <1>1, <1>2, <1>3, SeqMonotonic, S \subseteq U, T \subseteq U, R \subseteq U
<1> HIDE DEF U
<1> QED BY <1>4, ConcatAssociative

\* Nothing before or after.
LEMMA ConcatNone ==
  ASSUME NEW a, IsSeq(a)
  PROVE  <<>> \o a = a /\ a \o <<>> = a
<1>1. PICK S : a \in Seq(S)
  BY DEF IsSeq
<1> QED BY <1>1, ConcatEmptySeq

\* Sequences with the same elements are equal.
LEMMA SameSeq ==
  ASSUME NEW a, NEW b, IsSeq(a), IsSeq(b), Len(a) = Len(b), \A i \in 1 .. Len(a) : a[i] = b[i]
  PROVE  a = b
<1>1. PICK S : a \in Seq(S)
  BY DEF IsSeq
<1>2. PICK T : b \in Seq(T)
  BY DEF IsSeq
<1> DEFINE U == S \cup T
<1>3. a \in Seq(U) /\ b \in Seq(U)
  BY <1>1, <1>2, SeqMonotonic, S \subseteq U, T \subseteq U
<1> HIDE DEF U
<1> QED BY <1>3, SeqEqual

\* The recursion of FlattenSeq.
Flattened(flat, s, n) ==
  /\ FlattenSeq(s) = flat[n]
  /\ \A i \in 1 .. n : flat[i] = IF i = 1 THEN s[i] ELSE flat[i - 1] \o s[i]

\* To lay sequences end to end is to do so one after the other.
LEMMA FlattenBy ==
  ASSUME NEW n \in Nat, n # 0, NEW s, s = [i \in 1 .. n |-> s[i]]
  PROVE  \E flat : Flattened(flat, s, n)
<1> DEFINE flat == CHOOSE g : g = [i \in 1 .. n |-> IF i = 1 THEN s[i] ELSE g[i - 1] \o s[i]]
<1>1. Len(s) = n
  BY ListIsSeq
<1>2. FlattenSeq(s) = flat[n]
  BY <1>1 DEF FlattenSeq
<1>3. flat = [i \in 1 .. n |-> IF i = 1 THEN s[i] ELSE flat[i - 1] \o s[i]]
  BY FlattenDefined
<1> HIDE DEF flat
<1>4. \A i \in 1 .. n : flat[i] = IF i = 1 THEN s[i] ELSE flat[i - 1] \o s[i]
  BY <1>3
<1>5. Flattened(flat, s, n)
  BY <1>2, <1>4 DEF Flattened
<1> QED BY <1>5

\* One sequence more is put last.
LEMMA FlattenStep ==
  ASSUME NEW n \in Nat, n # 0, NEW s, NEW t, s = [i \in 1 .. n |-> s[i]], t = [i \in 1 .. n - 1 |-> s[i]],
         IsSeq(s[n])
  PROVE  FlattenSeq(s) = FlattenSeq(t) \o s[n]
<1>0. PICK flatS : Flattened(flatS, s, n)
  BY FlattenBy
<1>1. /\ FlattenSeq(s) = flatS[n]
      /\ \A i \in 1 .. n : flatS[i] = IF i = 1 THEN s[i] ELSE flatS[i - 1] \o s[i]
  BY <1>0 DEF Flattened
<1>2. CASE n = 1
  <2>1. t = <<>>
    BY <1>2
  <2>2. FlattenSeq(t) = <<>>
    BY <2>1, NoneIs DEF FlattenSeq
  <2>3. FlattenSeq(s) = s[n]
    BY <1>1, <1>2
  <2> QED BY <2>2, <2>3, ConcatNone
<1>3. CASE n # 1
  <2> DEFINE k == n - 1
  <2>1. k \in Nat /\ k # 0 /\ k \in 1 .. k /\ k + 1 = n
    BY <1>3
  <2>2. t = [i \in 1 .. k |-> t[i]] /\ \A i \in 1 .. k : t[i] = s[i] /\ i \in 1 .. n
    BY <2>1
  <2> HIDE DEF k
  <2>7. PICK flatT : Flattened(flatT, t, k)
    BY <2>1, <2>2, FlattenBy
  <2>3. /\ FlattenSeq(t) = flatT[k]
        /\ \A i \in 1 .. k : flatT[i] = IF i = 1 THEN t[i] ELSE flatT[i - 1] \o t[i]
    BY <2>7 DEF Flattened
  <2>4. \A i \in 1 .. k : flatS[i] = flatT[i]
    <3> DEFINE B == {i \in 1 .. k : flatS[i] # flatT[i]}
    <3>1. SUFFICES ASSUME B # {} PROVE FALSE
      OBVIOUS
    <3>2. PICK m \in B : \A b \in B : m <= b
      <4>1. B \in SUBSET Nat
        OBVIOUS
      <4> HIDE DEF B
      <4> QED BY <3>1, <4>1, SmallestNatIn
    <3>3. m \in 1 .. k /\ flatS[m] # flatT[m]
      OBVIOUS
    <3>4. m # 1 => flatS[m - 1] = flatT[m - 1]
      <4> SUFFICES ASSUME m # 1 PROVE flatS[m - 1] = flatT[m - 1]
        OBVIOUS
      <4>1. m - 1 \in 1 .. k /\ ~ (m <= m - 1)
        BY <2>1, <3>3
      <4>2. m - 1 \notin B
        <5> HIDE DEF B
        <5> QED BY <3>2, <4>1
      <4> QED BY <4>1, <4>2
    <3> HIDE DEF B
    <3>5. flatS[m] = IF m = 1 THEN s[m] ELSE flatS[m - 1] \o s[m]
      BY <1>1, <2>2, <3>3
    <3>6. flatT[m] = IF m = 1 THEN s[m] ELSE flatT[m - 1] \o s[m]
      BY <2>2, <2>3, <3>3
    <3> QED BY <3>3, <3>4, <3>5, <3>6
  <2>5. flatS[n] = flatS[n - 1] \o s[n]
    <3>1. n \in 1 .. n
      OBVIOUS
    <3> QED BY <1>1, <1>3, <3>1
  <2>6. n - 1 = k
    BY DEF k
  <2> QED BY <1>1, <2>1, <2>3, <2>4, <2>5, <2>6
<1> QED BY <1>2, <1>3

\* Sequences of sequences.
IsSeqs(s) == IsSeq(s) /\ \A i \in DOMAIN s : IsSeq(s[i])

\* Of no sequences nothing is made.
LEMMA FlattenNone == FlattenSeq(<<>>) = <<>>
BY NoneIs DEF FlattenSeq

\* Sequences laid end to end are one.
LEMMA FlattenSeqs ==
  ASSUME NEW s, IsSeqs(s)
  PROVE  IsSeq(FlattenSeq(s)) /\ s = [i \in 1 .. Len(s) |-> s[i]] /\ Len(s) \in Nat
<1>1. PICK S : s \in Seq(S)
  BY DEF IsSeqs, IsSeq
<1>2. s = [i \in 1 .. Len(s) |-> s[i]] /\ Len(s) \in Nat /\ DOMAIN s = 1 .. Len(s)
  BY <1>1
<1> QED BY <1>2, FlattenIs DEF IsSeqs

\* What is flattened comes from one of the sequences.
LEMMA FlattenFrom ==
  ASSUME NEW s, IsSeqs(s)
  PROVE  \A k \in DOMAIN FlattenSeq(s) : \E i \in DOMAIN s : \E j \in DOMAIN s[i] : FlattenSeq(s)[k] = s[i][j]
<1>1. s = [i \in 1 .. Len(s) |-> s[i]] /\ Len(s) \in Nat
  BY FlattenSeqs
<1>2. DOMAIN s = 1 .. Len(s) /\ \A i \in 1 .. Len(s) : IsSeq(s[i])
  BY SeqIs DEF IsSeqs
<1>3. \A k \in DOMAIN FlattenSeq(s) : \E i \in 1 .. Len(s) : \E j \in DOMAIN s[i] : FlattenSeq(s)[k] = s[i][j]
  BY <1>1, <1>2, FlattenIs
<1> QED BY <1>2, <1>3

\* Sequences flattened in turn.
LEMMA FlattenConcat ==
  ASSUME NEW s, NEW t, IsSeqs(s), IsSeqs(t)
  PROVE  FlattenSeq(s \o t) = FlattenSeq(s) \o FlattenSeq(t)
<1> DEFINE n == Len(s)
           part(m) == [i \in 1 .. m |-> t[i]]
           whole(m) == [i \in 1 .. n + m |-> (s \o t)[i]]
           B == {m \in 0 .. Len(t) : FlattenSeq(whole(m)) # FlattenSeq(s) \o FlattenSeq(part(m))}
<1>1. /\ n \in Nat /\ Len(t) \in Nat /\ DOMAIN s = 1 .. n /\ DOMAIN t = 1 .. Len(t)
      /\ s = [i \in 1 .. n |-> s[i]] /\ t = part(Len(t))
  BY SeqIs, FlattenSeqs DEF IsSeqs
<1>2. /\ IsSeq(s \o t) /\ Len(s \o t) = n + Len(t)
      /\ \A i \in 1 .. n + Len(t) : (s \o t)[i] = IF i <= n THEN s[i] ELSE t[i - n]
  BY ConcatIs DEF IsSeqs
<1>3. s \o t = whole(Len(t))
  <2>1. PICK S : s \o t \in Seq(S)
    BY <1>2 DEF IsSeq
  <2> DEFINE u == s \o t
  <2>2. Len(u) = n + Len(t) /\ u \in Seq(S)
    BY <1>2, <2>1
  <2> HIDE DEF u
  <2>3. u = [i \in 1 .. Len(u) |-> u[i]]
    BY <2>2
  <2>4. u = [i \in 1 .. n + Len(t) |-> u[i]]
    BY <2>2, <2>3
  <2> QED BY <2>4 DEF u
<1>4. B = {}
  <2> SUFFICES ASSUME B # {} PROVE FALSE
    OBVIOUS
  <2>1. PICK m \in B : \A b \in B : m <= b
    <3>1. B \in SUBSET Nat
      BY <1>1
    <3> HIDE DEF B
    <3> QED BY <3>1, SmallestNatIn
  <2>2. m \in 0 .. Len(t) /\ FlattenSeq(whole(m)) # FlattenSeq(s) \o FlattenSeq(part(m))
    OBVIOUS
  <2>3. CASE m = 0
    <3>1. part(m) = <<>>
      BY <2>3
    <3>2. whole(m) = s
      <4>1. \A i \in 1 .. n : (s \o t)[i] = s[i]
        BY <1>1, <1>2
      <4>2. whole(m) = [i \in 1 .. n |-> s[i]]
        BY <1>1, <2>3, <4>1
      <4> QED BY <1>1, <4>2
    <3> QED BY <2>2, <3>1, <3>2, FlattenNone, FlattenSeqs, ConcatNone
  <2>4. CASE m # 0
    <3> DEFINE k == m - 1
    <3>1. k \in Nat /\ k \in 0 .. Len(t) /\ m \in Nat /\ m # 0 /\ m - 1 = k /\ m \in 1 .. Len(t)
      BY <1>1, <2>2, <2>4
    <3>2. FlattenSeq(whole(k)) = FlattenSeq(s) \o FlattenSeq(part(k))
      <4>1. k \notin B
        <5> HIDE DEF B
        <5> QED BY <1>1, <2>1, <3>1
      <4> QED BY <3>1, <4>1
    <3> HIDE DEF k, B
    <3>3. FlattenSeq(part(m)) = FlattenSeq(part(k)) \o t[m]
      <4> DEFINE p == part(m)
                 q == part(k)
      <4>1. p = [i \in 1 .. m |-> p[i]] /\ q = [i \in 1 .. m - 1 |-> p[i]] /\ p[m] = t[m] /\ IsSeq(p[m])
        BY <1>1, <3>1 DEF IsSeqs
      <4> HIDE DEF p, q
      <4>2. FlattenSeq(p) = FlattenSeq(q) \o p[m]
        BY <3>1, <4>1, FlattenStep
      <4> QED BY <4>1, <4>2 DEF p, q
    <3>4. FlattenSeq(whole(m)) = FlattenSeq(whole(k)) \o t[m]
      <4> DEFINE p == whole(m)
                 q == whole(k)
                 j == n + m
      <4>1. j \in Nat /\ j # 0 /\ j - 1 = n + k /\ j \in 1 .. n + Len(t) /\ ~ (j <= n) /\ j - n = m
        BY <1>1, <3>1
      <4>2. p = [i \in 1 .. j |-> p[i]] /\ q = [i \in 1 .. j - 1 |-> p[i]] /\ p[j] = (s \o t)[j]
        BY <1>1, <3>1, <4>1
      <4>3. (s \o t)[j] = t[m] /\ IsSeq(t[m])
        BY <1>1, <1>2, <3>1, <4>1 DEF IsSeqs
      <4> HIDE DEF p, q, j
      <4>4. FlattenSeq(p) = FlattenSeq(q) \o p[j]
        BY <4>1, <4>2, <4>3, FlattenStep
      <4> QED BY <4>2, <4>3, <4>4 DEF p, q
    <3>5. IsSeq(FlattenSeq(part(k))) /\ IsSeq(t[m]) /\ IsSeq(FlattenSeq(s))
      <4> DEFINE q == part(k)
      <4>1. q = [i \in 1 .. k |-> q[i]] /\ \A i \in 1 .. k : IsSeq(q[i])
        BY <1>1, <3>1 DEF IsSeqs
      <4> HIDE DEF q
      <4>2. IsSeq(FlattenSeq(q))
        BY <3>1, <4>1, FlattenIs
      <4>3. IsSeq(t[m])
        BY <1>1, <3>1 DEF IsSeqs
      <4> QED BY <4>2, <4>3, FlattenSeqs DEF q
    <3> HIDE DEF part, whole
    <3>6. (FlattenSeq(s) \o FlattenSeq(part(k))) \o t[m] = FlattenSeq(s) \o (FlattenSeq(part(k)) \o t[m])
      <4> DEFINE x == FlattenSeq(s)
                 y == FlattenSeq(part(k))
                 z == t[m]
      <4>1. IsSeq(x) /\ IsSeq(y) /\ IsSeq(z)
        BY <3>5
      <4> HIDE DEF x, y, z
      <4>2. (x \o y) \o z = x \o (y \o z)
        BY <4>1, ConcatAssoc
      <4> QED BY <4>2 DEF x, y, z
    <3>7. FlattenSeq(whole(m)) = FlattenSeq(s) \o FlattenSeq(part(m))
      BY <3>2, <3>3, <3>4, <3>6
    <3> QED BY <2>2, <3>7
  <2> QED BY <2>3, <2>4
<1>5. FlattenSeq(whole(Len(t))) = FlattenSeq(s) \o FlattenSeq(part(Len(t)))
  <2>1. Len(t) \in 0 .. Len(t)
    BY <1>1
  <2>2. Len(t) \notin B
    BY <1>4
  <2> QED BY <2>1, <2>2
<1> HIDE DEF part, whole, B
<1> QED BY <1>1, <1>3, <1>5

\* The elements of a concatenation.
LEMMA IsConcat ==
  ASSUME NEW u, NEW v, NEW w, IsSeq(u), IsSeq(v), IsSeq(w), Len(w) = Len(u) + Len(v),
         \A i \in 1 .. Len(u) : w[i] = u[i], \A i \in 1 .. Len(v) : w[Len(u) + i] = v[i]
  PROVE  w = u \o v
<1>1. /\ IsSeq(u \o v) /\ Len(u \o v) = Len(u) + Len(v)
      /\ \A i \in 1 .. Len(u) + Len(v) : (u \o v)[i] = IF i <= Len(u) THEN u[i] ELSE v[i - Len(u)]
  BY ConcatIs
<1>2. Len(u) \in Nat /\ Len(v) \in Nat
  BY SeqIs
<1>3. ASSUME NEW i \in 1 .. Len(w) PROVE w[i] = (u \o v)[i]
  <2>1. CASE i <= Len(u)
    <3>1. i \in 1 .. Len(u) /\ i \in 1 .. Len(u) + Len(v)
      BY <1>2, <2>1
    <3> QED BY <1>1, <2>1, <3>1
  <2>2. CASE ~ (i <= Len(u))
    <3>1. i - Len(u) \in 1 .. Len(v) /\ Len(u) + (i - Len(u)) = i /\ i \in 1 .. Len(u) + Len(v)
      BY <1>2, <2>2
    <3>2. w[i] = v[i - Len(u)]
      BY <3>1
    <3> QED BY <1>1, <2>2, <3>1, <3>2
  <2> QED BY <2>1, <2>2
<1> QED BY <1>1, <1>3, SameSeq

\* The lists u of n sequences and v of m, one after the other.
Joined(w, u, v, n, m) ==
  /\ u = [i \in 1 .. n |-> u[i]] /\ v = [i \in 1 .. m |-> v[i]] /\ w = [i \in 1 .. n + m |-> w[i]]
  /\ \A i \in 1 .. n : IsSeq(u[i]) /\ w[i] = u[i]
  /\ \A i \in 1 .. m : IsSeq(v[i]) /\ w[n + i] = v[i]

\* A field of n lines and then of m more, flattened.
LEMMA FlattenFields ==
  ASSUME NEW n \in Nat, NEW m \in Nat, NEW u, NEW v, NEW w, Joined(w, u, v, n, m)
  PROVE  FlattenSeq(w) = FlattenSeq(u) \o FlattenSeq(v)
<1>1. n + m \in Nat
  OBVIOUS
<1>2. IsSeq(u) /\ Len(u) = n /\ IsSeq(v) /\ Len(v) = m
  BY ListIsSeq DEF Joined
<1>3. IsSeq(w) /\ Len(w) = n + m
  BY <1>1, ListIsSeq DEF Joined
<1>4. w = u \o v
  <2>1. /\ \A i \in 1 .. Len(u) : w[i] = u[i]
        /\ \A i \in 1 .. Len(v) : w[Len(u) + i] = v[i]
    BY <1>2 DEF Joined
  <2>2. Len(w) = Len(u) + Len(v)
    BY <1>2, <1>3
  <2> QED BY <1>2, <1>3, <2>1, <2>2, IsConcat
<1>5. IsSeqs(u) /\ IsSeqs(v)
  BY <1>2, SeqIs DEF IsSeqs, Joined
<1> QED BY <1>4, <1>5, FlattenConcat

\* What one step gives of one line.
LEMMA FlattenFirst ==
  ASSUME NEW s, NEW n, n = 1, s = [i \in 1 .. n |-> s[i]], IsSeq(s[n])
  PROVE  FlattenSeq(s) = s[n]
<1> DEFINE t == <<>>
<1>1. n \in Nat /\ n # 0 /\ 1 .. n - 1 = {}
  OBVIOUS
<1>2. t = [i \in 1 .. n - 1 |-> s[i]]
  <2>1. t = [i \in {} |-> s[i]]
    OBVIOUS
  <2> QED BY <1>1, <2>1
<1> HIDE DEF t
<1>3. FlattenSeq(s) = FlattenSeq(t) \o s[n]
  BY <1>1, <1>2, FlattenStep
<1>4. FlattenSeq(t) = <<>> /\ <<>> \o s[n] = s[n]
  BY FlattenNone, ConcatNone DEF t
<1> QED BY <1>3, <1>4

\* A field of one line.
LEMMA FlattenOne ==
  ASSUME NEW s, NEW x, IsSeq(x), s = [i \in {1} |-> x]
  PROVE  FlattenSeq(s) = x
<1>1. {1} = 1 .. 1
  OBVIOUS
<1>2. s = [i \in 1 .. 1 |-> s[i]] /\ s[1] = x
  BY <1>1
<1> QED BY <1>2, FlattenFirst

-----------------------------------------------------------------------------
(* Sequences made of the elements of others, and laid end to end.          *)

\* The sequences laid end to end so far, one after the other.
IsChain(f, ss) ==
  /\ f[0] = <<>> /\ f[Len(ss)] = FlattenSeq(ss)
  /\ \A k \in 0 .. Len(ss) : IsSeq(f[k])
  /\ \A k \in 1 .. Len(ss) : f[k] = f[k - 1] \o ss[k]

\* FlattenSeq in steps, for what is argued of one prefix after the other.
LEMMA FlattenChain ==
  ASSUME NEW ss, IsSeqs(ss)
  PROVE  \E f : IsChain(f, ss)
<1> DEFINE n == Len(ss)
           part(k) == [i \in 1 .. k |-> ss[i]]
           f == [k \in 0 .. n |-> FlattenSeq(part(k))]
<1>1. n \in Nat /\ ss = part(n) /\ DOMAIN ss = 1 .. n /\ \A i \in 1 .. n : IsSeq(ss[i])
  BY FlattenSeqs, SeqIs DEF IsSeqs
<1>2. f[0] = <<>>
  <2>1. part(0) = <<>>
    OBVIOUS
  <2> QED BY <1>1, <2>1, FlattenNone
<1>3. f[n] = FlattenSeq(ss)
  BY <1>1
<1>4. ASSUME NEW k \in 0 .. n PROVE IsSeq(f[k])
  <2> DEFINE p == part(k)
  <2>1. k \in Nat /\ p = [i \in 1 .. k |-> p[i]] /\ \A i \in 1 .. k : IsSeq(p[i])
    BY <1>1
  <2> HIDE DEF p
  <2>2. IsSeq(FlattenSeq(p))
    BY <2>1, FlattenIs
  <2> QED BY <2>2 DEF p
<1>5. ASSUME NEW k \in 1 .. n PROVE f[k] = f[k - 1] \o ss[k]
  <2> DEFINE p == part(k)
             q == part(k - 1)
  <2>1. /\ k \in Nat /\ k # 0 /\ p = [i \in 1 .. k |-> p[i]] /\ q = [i \in 1 .. k - 1 |-> p[i]]
        /\ p[k] = ss[k] /\ IsSeq(p[k]) /\ k \in 0 .. n /\ k - 1 \in 0 .. n
    BY <1>1
  <2>2. f[k] = FlattenSeq(p) /\ f[k - 1] = FlattenSeq(q)
    BY <2>1
  <2> HIDE DEF p, q, f
  <2>3. FlattenSeq(p) = FlattenSeq(q) \o p[k]
    BY <2>1, FlattenStep
  <2> QED BY <2>1, <2>2, <2>3
<1> HIDE DEF f, part
<1>6. IsChain(f, ss)
  BY <1>2, <1>3, <1>4, <1>5 DEF IsChain
<1> QED BY <1>6

\* What g makes of each element, laid end to end.
Mapped(g, s) == [k \in DOMAIN s |-> g[s[k]]]
Flat(g, s) == FlattenSeq(Mapped(g, s))

\* Where g makes a sequence of each element.
Makes(g, s) == IsSeq(s) /\ \A i \in DOMAIN s : IsSeq(g[s[i]])

\* Such a list of sequences, and what they make laid end to end.
LEMMA MappedIs ==
  ASSUME NEW g, NEW s, Makes(g, s)
  PROVE  /\ IsSeqs(Mapped(g, s)) /\ Len(Mapped(g, s)) = Len(s) /\ DOMAIN Mapped(g, s) = DOMAIN s
         /\ IsSeq(Flat(g, s))
<1> DEFINE m == Mapped(g, s)
<1>1. Len(s) \in Nat /\ DOMAIN s = 1 .. Len(s)
  BY SeqIs DEF Makes
<1>2. m = [i \in 1 .. Len(s) |-> m[i]] /\ \A i \in 1 .. Len(s) : m[i] = g[s[i]]
  BY <1>1 DEF Mapped
<1>3. \A i \in 1 .. Len(s) : IsSeq(m[i])
  BY <1>1, <1>2 DEF Makes
<1> HIDE DEF m
<1>4. IsSeq(m) /\ Len(m) = Len(s)
  BY <1>1, <1>2, ListIsSeq
<1>5. DOMAIN m = 1 .. Len(s)
  BY <1>2
<1>6. IsSeqs(m)
  BY <1>3, <1>4, <1>5 DEF IsSeqs
<1>7. IsSeq(FlattenSeq(m))
  BY <1>6, FlattenSeqs
<1> QED BY <1>1, <1>4, <1>5, <1>6, <1>7 DEF m, Flat

\* Of nothing.
LEMMA FlatNone ==
  ASSUME NEW g
  PROVE  Flat(g, <<>>) = <<>>
<1>1. Mapped(g, <<>>) = <<>>
  BY DEF Mapped
<1> QED BY <1>1, FlattenNone DEF Flat

\* Of one.
LEMMA FlatOne ==
  ASSUME NEW g, NEW x, IsSeq(g[x])
  PROVE  Flat(g, <<x>>) = g[x]
<1>1. Mapped(g, <<x>>) = [i \in {1} |-> g[x]]
  BY OneIs DEF Mapped
<1> QED BY <1>1, FlattenOne DEF Flat

\* Of one sequence after the other.
LEMMA FlatConcat ==
  ASSUME NEW g, NEW a, NEW b, Makes(g, a), Makes(g, b)
  PROVE  Makes(g, a \o b) /\ Flat(g, a \o b) = Flat(g, a) \o Flat(g, b)
<1>1. /\ IsSeq(a \o b) /\ Len(a \o b) = Len(a) + Len(b)
      /\ \A i \in 1 .. Len(a) + Len(b) : (a \o b)[i] = IF i <= Len(a) THEN a[i] ELSE b[i - Len(a)]
  BY ConcatIs DEF Makes
<1>2. Len(a) \in Nat /\ DOMAIN a = 1 .. Len(a) /\ Len(b) \in Nat /\ DOMAIN b = 1 .. Len(b)
  BY SeqIs DEF Makes
<1> DEFINE c == a \o b
<1>3. DOMAIN c = 1 .. Len(a) + Len(b)
  BY <1>1, SeqIs
<1>4. ASSUME NEW i \in DOMAIN c PROVE IsSeq(g[c[i]])
  <2>1. CASE i <= Len(a)
    <3>1. c[i] = a[i] /\ i \in DOMAIN a
      BY <1>1, <1>2, <1>3, <2>1
    <3> HIDE DEF c
    <3> QED BY <3>1 DEF Makes
  <2>2. CASE ~ (i <= Len(a))
    <3>1. c[i] = b[i - Len(a)] /\ i - Len(a) \in DOMAIN b
      BY <1>1, <1>2, <1>3, <2>2
    <3> HIDE DEF c
    <3> QED BY <3>1 DEF Makes
  <2> QED BY <2>1, <2>2
<1>5. Makes(g, c)
  BY <1>1, <1>4 DEF Makes
<1>6. \A i \in 1 .. Len(a) : Mapped(g, c)[i] = Mapped(g, a)[i]
  <2> SUFFICES ASSUME NEW i \in 1 .. Len(a) PROVE Mapped(g, c)[i] = Mapped(g, a)[i]
    OBVIOUS
  <2>1. c[i] = a[i] /\ i \in DOMAIN c /\ i \in DOMAIN a
    BY <1>1, <1>2, <1>3
  <2> HIDE DEF c
  <2> QED BY <2>1 DEF Mapped
<1>7. \A i \in 1 .. Len(b) : Mapped(g, c)[Len(a) + i] = Mapped(g, b)[i]
  <2> SUFFICES ASSUME NEW i \in 1 .. Len(b) PROVE Mapped(g, c)[Len(a) + i] = Mapped(g, b)[i]
    OBVIOUS
  <2>2. /\ Len(a) + i \in 1 .. Len(a) + Len(b) /\ ~ (Len(a) + i <= Len(a)) /\ (Len(a) + i) - Len(a) = i
    BY <1>2
  <2>1. c[Len(a) + i] = b[i] /\ Len(a) + i \in DOMAIN c /\ i \in DOMAIN b
    BY <1>1, <1>2, <1>3, <2>2
  <2> HIDE DEF c
  <2> QED BY <2>1 DEF Mapped
<1>8. Len(c) = Len(a) + Len(b)
  BY <1>1
<1> HIDE DEF c
<1>9. /\ IsSeqs(Mapped(g, a)) /\ Len(Mapped(g, a)) = Len(a)
      /\ IsSeqs(Mapped(g, b)) /\ Len(Mapped(g, b)) = Len(b)
      /\ IsSeqs(Mapped(g, c)) /\ Len(Mapped(g, c)) = Len(c)
  BY <1>5, MappedIs
<1>10. Mapped(g, c) = Mapped(g, a) \o Mapped(g, b)
  <2> DEFINE u == Mapped(g, a)
             v == Mapped(g, b)
             w == Mapped(g, c)
  <2>1. IsSeq(u) /\ IsSeq(v) /\ IsSeq(w) /\ Len(w) = Len(u) + Len(v)
    BY <1>8, <1>9 DEF IsSeqs
  <2>2. (\A i \in 1 .. Len(u) : w[i] = u[i]) /\ \A i \in 1 .. Len(v) : w[Len(u) + i] = v[i]
    BY <1>6, <1>7, <1>9
  <2> HIDE DEF u, v, w
  <2>3. w = u \o v
    BY <2>1, <2>2, IsConcat
  <2> QED BY <2>3 DEF u, v, w
<1>11. Flat(g, c) = Flat(g, a) \o Flat(g, b)
  BY <1>9, <1>10, FlattenConcat DEF Flat
<1> QED BY <1>5, <1>11 DEF c

\* The same of the elements of two sequences is the same.
LEMMA FlatSame ==
  ASSUME NEW g, NEW a, NEW h, NEW b, IsSeq(a), IsSeq(b), Len(a) = Len(b),
         \A i \in 1 .. Len(a) : g[a[i]] = h[b[i]]
  PROVE  Flat(g, a) = Flat(h, b)
<1>1. DOMAIN a = 1 .. Len(a) /\ DOMAIN b = 1 .. Len(a)
  BY SeqIs
<1>2. Mapped(g, a) = Mapped(h, b)
  BY <1>1 DEF Mapped
<1> QED BY <1>2 DEF Flat

\* Of sequences laid end to end: g of each of them, laid end to end.
LEMMA FlatFlatten ==
  ASSUME NEW g, NEW ss, IsSeqs(ss), \A i \in DOMAIN ss : Makes(g, ss[i]),
         NEW t, t = [i \in DOMAIN ss |-> Flat(g, ss[i])]
  PROVE  Makes(g, FlattenSeq(ss)) /\ Flat(g, FlattenSeq(ss)) = FlattenSeq(t)
<1>1. Len(ss) \in Nat /\ DOMAIN ss = 1 .. Len(ss)
  BY SeqIs DEF IsSeqs
<1>2. ASSUME NEW i \in 1 .. Len(ss) PROVE IsSeq(t[i]) /\ t[i] = Flat(g, ss[i])
  BY <1>1, MappedIs
<1>3. IsSeqs(t) /\ Len(t) = Len(ss)
  <2>1. t = [i \in 1 .. Len(ss) |-> t[i]]
    BY <1>1
  <2>2. IsSeq(t) /\ Len(t) = Len(ss)
    BY <1>1, <2>1, ListIsSeq
  <2> QED BY <1>1, <1>2, <2>2, SeqIs DEF IsSeqs
<1>4. PICK f : IsChain(f, ss)
  BY FlattenChain
<1>5. PICK h : IsChain(h, t)
  BY <1>3, FlattenChain
<1>n. Len(ss) \in 0 .. Len(ss)
  BY <1>1
<1> DEFINE B == {k \in 0 .. Len(ss) : ~ (Makes(g, f[k]) /\ Flat(g, f[k]) = h[k])}
<1>6. SUFFICES ASSUME B # {} PROVE FALSE
  <2>1. f[Len(ss)] = FlattenSeq(ss) /\ h[Len(ss)] = FlattenSeq(t)
    BY <1>3, <1>4, <1>5 DEF IsChain
  <2>2. Len(ss) \notin B => Makes(g, f[Len(ss)]) /\ Flat(g, f[Len(ss)]) = h[Len(ss)]
    BY <1>n
  <2> HIDE DEF B
  <2> QED BY <2>1, <2>2
<1>7. PICK m \in B : \A b \in B : m <= b
  <2>1. B \in SUBSET Nat
    BY <1>1
  <2> HIDE DEF B
  <2> QED BY <1>6, <2>1, SmallestNatIn
<1>8. m \in 0 .. Len(ss) /\ ~ (Makes(g, f[m]) /\ Flat(g, f[m]) = h[m])
  OBVIOUS
<1>9. CASE m = 0
  <2>1. f[0] = <<>> /\ h[0] = <<>>
    BY <1>4, <1>5 DEF IsChain
  <2>2. Makes(g, <<>>)
    BY NoneIs DEF Makes
  <2> QED BY <1>8, <1>9, <2>1, <2>2, FlatNone
<1>10. CASE m # 0
  <2>1. m \in 1 .. Len(ss) /\ m - 1 \in 0 .. Len(ss) /\ ~ (m <= m - 1)
    BY <1>1, <1>8, <1>10
  <2>2. m - 1 \notin B
    <3> HIDE DEF B
    <3> QED BY <1>7, <2>1
  <2>3. Makes(g, f[m - 1]) /\ Flat(g, f[m - 1]) = h[m - 1]
    BY <2>1, <2>2
  <2> HIDE DEF B
  <2>4. f[m] = f[m - 1] \o ss[m] /\ h[m] = h[m - 1] \o t[m]
    BY <1>3, <1>4, <1>5, <2>1 DEF IsChain
  <2>5. Makes(g, ss[m])
    BY <1>1, <2>1
  <2>6. Makes(g, f[m]) /\ Flat(g, f[m]) = Flat(g, f[m - 1]) \o Flat(g, ss[m])
    <3> DEFINE a == f[m - 1]
               b == ss[m]
    <3>1. Makes(g, a) /\ Makes(g, b) /\ f[m] = a \o b
      BY <2>3, <2>4, <2>5
    <3> HIDE DEF a, b
    <3>2. Makes(g, a \o b) /\ Flat(g, a \o b) = Flat(g, a) \o Flat(g, b)
      BY <3>1, FlatConcat
    <3> QED BY <3>1, <3>2 DEF a, b
  <2> QED BY <1>2, <1>8, <2>1, <2>3, <2>4, <2>6
<1> QED BY <1>9, <1>10

\* The elements one by one.
LEMMA FlattenOnes ==
  ASSUME NEW s, IsSeq(s)
  PROVE  FlattenSeq([i \in DOMAIN s |-> <<s[i]>>]) = s
<1> DEFINE ss == [i \in DOMAIN s |-> <<s[i]>>]
           B == {k \in 0 .. Len(s) : ~ \A f : IsChain(f, ss) => Len(f[k]) = k /\ \A i \in 1 .. k : f[k][i] = s[i]}
<1>1. Len(s) \in Nat /\ DOMAIN s = 1 .. Len(s)
  BY SeqIs
<1>2. IsSeqs(ss) /\ Len(ss) = Len(s)
  <2>1. ss = [i \in 1 .. Len(s) |-> ss[i]]
    BY <1>1
  <2>2. IsSeq(ss) /\ Len(ss) = Len(s)
    <3> HIDE DEF ss
    <3> QED BY <1>1, <2>1, ListIsSeq
  <2>3. \A i \in DOMAIN ss : IsSeq(ss[i])
    BY OneIs
  <2> HIDE DEF ss
  <2> QED BY <2>2, <2>3 DEF IsSeqs
<1>3. \A i \in 1 .. Len(s) : ss[i] = <<s[i]>>
  BY <1>1
<1> HIDE DEF ss
<1>4. PICK f : IsChain(f, ss)
  BY <1>2, FlattenChain
<1>5. B = {}
  <2> SUFFICES ASSUME B # {} PROVE FALSE
    OBVIOUS
  <2>1. PICK m \in B : \A b \in B : m <= b
    <3>1. B \in SUBSET Nat
      BY <1>1
    <3> HIDE DEF B
    <3> QED BY <3>1, SmallestNatIn
  <2>2. m \in 0 .. Len(s)
    OBVIOUS
  <2>3. PICK h : IsChain(h, ss) /\ ~ (Len(h[m]) = m /\ \A i \in 1 .. m : h[m][i] = s[i])
    OBVIOUS
  <2>4. CASE m = 0
    <3>1. h[0] = <<>>
      BY <2>3 DEF IsChain
    <3> QED BY <2>3, <2>4, <3>1
  <2>5. CASE m # 0
    <3>1. m \in 1 .. Len(s) /\ m - 1 \in 0 .. Len(s) /\ ~ (m <= m - 1) /\ m - 1 \in Nat
      BY <1>1, <2>2, <2>5
    <3>2. m - 1 \notin B
      <4> HIDE DEF B
      <4> QED BY <2>1, <3>1
    <3>3. Len(h[m - 1]) = m - 1 /\ \A i \in 1 .. m - 1 : h[m - 1][i] = s[i]
      BY <2>3, <3>1, <3>2
    <3> HIDE DEF B
    <3>4. h[m] = h[m - 1] \o <<s[m]>> /\ IsSeq(h[m - 1])
      BY <1>2, <1>3, <2>3, <3>1 DEF IsChain
    <3> DEFINE a == h[m - 1]
               b == <<s[m]>>
    <3>5. IsSeq(b) /\ Len(b) = 1 /\ b[1] = s[m]
      BY OneIs
    <3>6. /\ Len(a \o b) = Len(a) + Len(b)
          /\ \A i \in 1 .. Len(a) + Len(b) : (a \o b)[i] = IF i <= Len(a) THEN a[i] ELSE b[i - Len(a)]
      <4>1. IsSeq(a)
        BY <3>4
      <4> HIDE DEF a, b
      <4> QED BY <3>5, <4>1, ConcatIs
    <3>7. h[m] = a \o b /\ Len(a) = m - 1 /\ \A i \in 1 .. m - 1 : a[i] = s[i]
      BY <3>3, <3>4
    <3> HIDE DEF a, b
    <3>8. Len(h[m]) = m
      BY <3>1, <3>5, <3>6, <3>7
    <3>9. ASSUME NEW i \in 1 .. m PROVE h[m][i] = s[i]
      <4>1. i \in 1 .. Len(a) + Len(b)
        BY <3>1, <3>5, <3>7
      <4>2. CASE i <= m - 1
        BY <3>1, <3>6, <3>7, <4>1, <4>2
      <4>3. CASE i = m
        BY <3>1, <3>5, <3>6, <3>7, <4>1, <4>3
      <4> QED BY <3>1, <4>2, <4>3
    <3> QED BY <2>3, <3>8, <3>9
  <2> QED BY <2>4, <2>5
<1>6. Len(s) \in 0 .. Len(s) /\ Len(s) \notin B
  BY <1>1, <1>5
<1>7. Len(f[Len(s)]) = Len(s) /\ \A i \in 1 .. Len(s) : f[Len(s)][i] = s[i]
  BY <1>4, <1>6
<1> HIDE DEF B
<1>8. f[Len(s)] = FlattenSeq(ss) /\ IsSeq(f[Len(s)])
  BY <1>2, <1>4, <1>6 DEF IsChain
<1>9. FlattenSeq(ss) = s
  BY <1>7, <1>8, SameSeq
<1> QED BY <1>9 DEF ss

\* Nothing but empty sequences.
LEMMA FlattenEmpty ==
  ASSUME NEW ss, IsSeqs(ss), \A i \in DOMAIN ss : ss[i] = <<>>
  PROVE  FlattenSeq(ss) = <<>>
<1>1. PICK f : IsChain(f, ss)
  BY FlattenChain
<1>2. Len(ss) \in Nat /\ DOMAIN ss = 1 .. Len(ss)
  BY SeqIs DEF IsSeqs
<1> DEFINE B == {k \in 0 .. Len(ss) : f[k] # <<>>}
<1>3. B = {}
  <2> SUFFICES ASSUME B # {} PROVE FALSE
    OBVIOUS
  <2>1. PICK m \in B : \A b \in B : m <= b
    <3>1. B \in SUBSET Nat
      BY <1>2
    <3> HIDE DEF B
    <3> QED BY <3>1, SmallestNatIn
  <2>2. m \in 0 .. Len(ss) /\ f[m] # <<>>
    OBVIOUS
  <2>3. m # 0
    BY <1>1, <2>2 DEF IsChain
  <2>4. m \in 1 .. Len(ss) /\ m - 1 \in 0 .. Len(ss) /\ ~ (m <= m - 1)
    BY <1>2, <2>2, <2>3
  <2>5. m - 1 \notin B
    <3> HIDE DEF B
    <3> QED BY <2>1, <2>4
  <2>6. f[m - 1] = <<>>
    BY <2>4, <2>5
  <2> HIDE DEF B
  <2>7. f[m] = <<>> \o <<>>
    BY <1>1, <1>2, <2>4, <2>6 DEF IsChain
  <2> QED BY <2>2, <2>7, NoneIs, ConcatNone
<1>4. Len(ss) \in 0 .. Len(ss) /\ Len(ss) \notin B
  BY <1>2, <1>3
<1>5. f[Len(ss)] = <<>>
  BY <1>4
<1> QED BY <1>1, <1>5 DEF IsChain

\* The list with only those at the places in P, and with only the others.
OnlyAt(ss, P) == [i \in DOMAIN ss |-> IF i \in P THEN ss[i] ELSE <<>>]
ButAt(ss, P) == [i \in DOMAIN ss |-> IF i \in P THEN <<>> ELSE ss[i]]

\* Both are lists of sequences as long as the list.
LEMMA OnlyIs ==
  ASSUME NEW ss, IsSeqs(ss), NEW P
  PROVE  /\ IsSeqs(OnlyAt(ss, P)) /\ Len(OnlyAt(ss, P)) = Len(ss)
         /\ IsSeqs(ButAt(ss, P)) /\ Len(ButAt(ss, P)) = Len(ss)
         /\ \A i \in 1 .. Len(ss) : /\ OnlyAt(ss, P)[i] = IF i \in P THEN ss[i] ELSE <<>>
                                    /\ ButAt(ss, P)[i] = IF i \in P THEN <<>> ELSE ss[i]
<1>1. Len(ss) \in Nat /\ DOMAIN ss = 1 .. Len(ss) /\ \A i \in 1 .. Len(ss) : IsSeq(ss[i])
  BY SeqIs DEF IsSeqs
<1> DEFINE a == OnlyAt(ss, P)
           b == ButAt(ss, P)
<1>2. /\ a = [i \in 1 .. Len(ss) |-> a[i]] /\ \A i \in 1 .. Len(ss) : a[i] = IF i \in P THEN ss[i] ELSE <<>>
      /\ b = [i \in 1 .. Len(ss) |-> b[i]] /\ \A i \in 1 .. Len(ss) : b[i] = IF i \in P THEN <<>> ELSE ss[i]
  BY <1>1 DEF OnlyAt, ButAt
<1> HIDE DEF a, b
<1>3. IsSeq(a) /\ Len(a) = Len(ss) /\ IsSeq(b) /\ Len(b) = Len(ss)
  BY <1>1, <1>2, ListIsSeq
<1>4. DOMAIN a = 1 .. Len(ss) /\ DOMAIN b = 1 .. Len(ss)
  BY <1>2
<1>5. IsSeqs(a) /\ IsSeqs(b)
  BY <1>1, <1>2, <1>3, <1>4, NoneIs DEF IsSeqs
<1> QED BY <1>2, <1>3, <1>5 DEF a, b

\* What comes first can be laid out first.
LEMMA FlattenParts ==
  ASSUME NEW ss, IsSeqs(ss), NEW P, \A i, j \in DOMAIN ss : i < j /\ j \in P => i \in P
  PROVE  FlattenSeq(ss) = FlattenSeq(OnlyAt(ss, P)) \o FlattenSeq(ButAt(ss, P))
<1> DEFINE a == OnlyAt(ss, P)
           b == ButAt(ss, P)
<1>1. Len(ss) \in Nat /\ DOMAIN ss = 1 .. Len(ss) /\ \A i \in 1 .. Len(ss) : IsSeq(ss[i])
  BY SeqIs DEF IsSeqs
<1>2. /\ IsSeqs(a) /\ Len(a) = Len(ss) /\ IsSeqs(b) /\ Len(b) = Len(ss)
      /\ \A i \in 1 .. Len(ss) : a[i] = (IF i \in P THEN ss[i] ELSE <<>>) /\ b[i] = (IF i \in P THEN <<>> ELSE ss[i])
  BY OnlyIs
<1> HIDE DEF a, b
<1>3. PICK f : IsChain(f, ss)
  BY FlattenChain
<1>4. PICK g : IsChain(g, a)
  BY <1>2, FlattenChain
<1>5. PICK h : IsChain(h, b)
  BY <1>2, FlattenChain
<1> DEFINE Good(k) == f[k] = g[k] \o h[k] /\ (k \in P /\ k # 0 => h[k] = <<>>)
           B == {k \in 0 .. Len(ss) : ~ Good(k)}
<1>6. B = {}
  <2> SUFFICES ASSUME B # {} PROVE FALSE
    OBVIOUS
  <2>1. PICK m \in B : \A k \in B : m <= k
    <3> HIDE DEF Good
    <3>1. B \in SUBSET Nat
      BY <1>1
    <3> HIDE DEF B
    <3> QED BY <3>1, SmallestNatIn
  <2>2. m \in 0 .. Len(ss) /\ ~ Good(m)
    OBVIOUS
  <2>3. CASE m = 0
    <3>1. f[0] = <<>> /\ g[0] = <<>> /\ h[0] = <<>>
      BY <1>3, <1>4, <1>5 DEF IsChain
    <3> HIDE DEF B
    <3> QED BY <2>2, <2>3, <3>1, NoneIs, ConcatNone
  <2>4. CASE m # 0
    <3>1. m \in 1 .. Len(ss) /\ m - 1 \in 0 .. Len(ss) /\ ~ (m <= m - 1)
      BY <1>1, <2>2, <2>4
    <3>2. m - 1 \notin B
      <4> HIDE DEF B
      <4> QED BY <2>1, <3>1
    <3>3. Good(m - 1)
      BY <3>1, <3>2
    <3> HIDE DEF B
    <3>4. f[m] = f[m - 1] \o ss[m] /\ g[m] = g[m - 1] \o a[m] /\ h[m] = h[m - 1] \o b[m]
      BY <1>2, <1>3, <1>4, <1>5, <3>1 DEF IsChain
    <3>5. IsSeq(f[m - 1]) /\ IsSeq(g[m - 1]) /\ IsSeq(h[m - 1]) /\ IsSeq(ss[m])
      BY <1>1, <1>2, <1>3, <1>4, <1>5, <3>1 DEF IsChain
    <3> DEFINE x == g[m - 1]
               y == h[m - 1]
               z == ss[m]
    <3>6. CASE m \in P
      <4>1. y = <<>>
        <5>1. CASE m = 1
          BY <1>5, <5>1 DEF IsChain
        <5>2. CASE m # 1
          <6>1. m - 1 \in DOMAIN ss /\ m \in DOMAIN ss /\ m - 1 < m /\ m - 1 # 0
            BY <1>1, <3>1, <5>2
          <6>2. m - 1 \in P
            BY <3>6, <6>1
          <6> QED BY <3>3, <6>1, <6>2
        <5> QED BY <5>1, <5>2
      <4>2. f[m - 1] = x \o y /\ a[m] = z /\ b[m] = <<>> /\ IsSeq(x) /\ IsSeq(z)
        BY <1>2, <3>1, <3>3, <3>5, <3>6
      <4>3. f[m] = f[m - 1] \o z /\ g[m] = x \o z /\ h[m] = y \o <<>>
        BY <3>4, <4>2
      <4> HIDE DEF x, y, z
      <4>4. h[m] = <<>> /\ f[m] = x \o z /\ g[m] = x \o z
        BY <4>1, <4>2, <4>3, NoneIs, ConcatNone
      <4>5. IsSeq(x \o z)
        BY <4>2, ConcatIs
      <4> QED BY <2>2, <4>4, <4>5, ConcatNone
    <3>7. CASE m \notin P
      <4>1. f[m - 1] = x \o y /\ a[m] = <<>> /\ b[m] = z /\ IsSeq(x) /\ IsSeq(y) /\ IsSeq(z)
        BY <1>2, <3>1, <3>3, <3>5, <3>7
      <4>2. f[m] = (x \o y) \o z /\ g[m] = x \o <<>> /\ h[m] = y \o z
        BY <3>4, <4>1
      <4> HIDE DEF x, y, z
      <4>3. f[m] = x \o (y \o z) /\ g[m] = x
        BY <4>1, <4>2, ConcatAssoc, ConcatNone
      <4> QED BY <2>2, <3>7, <4>2, <4>3
    <3> QED BY <3>6, <3>7
  <2> QED BY <2>3, <2>4
<1>7. Good(Len(ss))
  <2>1. Len(ss) \in 0 .. Len(ss)
    BY <1>1
  <2> HIDE DEF Good
  <2> QED BY <1>6, <2>1
<1>8. f[Len(ss)] = g[Len(ss)] \o h[Len(ss)]
  BY <1>7
<1> HIDE DEF B, Good
<1> QED BY <1>2, <1>3, <1>4, <1>5, <1>8 DEF IsChain, a, b

\* Each element of one of the sequences is in what they make, and no
\* earlier than those of the sequences before.
LEMMA FlattenHas ==
  ASSUME NEW ss, IsSeqs(ss), NEW i \in DOMAIN ss, NEW j \in DOMAIN ss[i]
  PROVE  \E k \in DOMAIN FlattenSeq(ss) : FlattenSeq(ss)[k] = ss[i][j]
<1>1. Len(ss) \in Nat /\ DOMAIN ss = 1 .. Len(ss) /\ \A k \in 1 .. Len(ss) : IsSeq(ss[k])
  BY SeqIs DEF IsSeqs
<1>2. PICK f : IsChain(f, ss)
  BY FlattenChain
<1> DEFINE Has(k) == \E l \in 1 .. Len(f[k]) : f[k][l] = ss[i][j]
           B == {k \in i .. Len(ss) : ~ Has(k)}
<1>3. B = {}
  <2> SUFFICES ASSUME B # {} PROVE FALSE
    OBVIOUS
  <2>1. PICK m \in B : \A k \in B : m <= k
    <3>1. B \in SUBSET Nat
      BY <1>1
    <3> HIDE DEF B
    <3> QED BY <3>1, SmallestNatIn
  <2>2. m \in i .. Len(ss) /\ ~ Has(m)
    OBVIOUS
  <2>3. m \in 1 .. Len(ss) /\ m - 1 \in 0 .. Len(ss) /\ (m # i => m - 1 \in i .. Len(ss)) /\ ~ (m <= m - 1)
    BY <1>1, <2>2
  <2> DEFINE x == f[m - 1]
             y == ss[m]
  <2>4. f[m] = x \o y /\ IsSeq(x) /\ IsSeq(y)
    BY <1>1, <1>2, <2>3 DEF IsChain
  <2>7. Len(x) \in Nat /\ Len(y) \in Nat /\ DOMAIN y = 1 .. Len(y)
    BY <2>4, SeqIs
  <2>8. m # i => \E l \in 1 .. Len(x) : x[l] = ss[i][j]
    <3> SUFFICES ASSUME m # i PROVE Has(m - 1)
      OBVIOUS
    <3>1. m - 1 \notin B
      <4> HIDE DEF B
      <4> QED BY <2>1, <2>3
    <3> QED BY <2>3, <3>1
  <2>9. m = i => \E l \in 1 .. Len(y) : y[l] = ss[i][j]
    BY <2>7
  <2> HIDE DEF B, x, y
  <2>5. Len(f[m]) = Len(x) + Len(y) /\ \A l \in 1 .. Len(x) + Len(y) : (f[m])[l] = IF l <= Len(x) THEN x[l] ELSE y[l - Len(x)]
    BY <2>4, ConcatIs
  <2>6. CASE m = i
    <3>1. PICK l \in 1 .. Len(y) : y[l] = ss[i][j]
      BY <2>6, <2>9
    <3>2. Len(x) + l \in 1 .. Len(f[m]) /\ ~ (Len(x) + l <= Len(x)) /\ (Len(x) + l) - Len(x) = l
      BY <2>5, <2>7
    <3>3. f[m][Len(x) + l] = ss[i][j]
      BY <2>5, <3>1, <3>2
    <3> QED BY <2>2, <3>2, <3>3
  <2>10. CASE m # i
    <3>1. PICK l \in 1 .. Len(x) : x[l] = ss[i][j]
      BY <2>8, <2>10
    <3>2. l \in 1 .. Len(f[m]) /\ l <= Len(x)
      BY <2>5, <2>7
    <3>3. f[m][l] = ss[i][j]
      BY <2>5, <3>1, <3>2
    <3> QED BY <2>2, <3>2, <3>3
  <2> QED BY <2>6, <2>10
<1>4. Len(ss) \in i .. Len(ss)
  BY <1>1
<1>5. Has(Len(ss))
  BY <1>3, <1>4
<1> HIDE DEF B
<1>6. f[Len(ss)] = FlattenSeq(ss) /\ IsSeq(FlattenSeq(ss))
  BY <1>2, FlattenSeqs DEF IsChain
<1> QED BY <1>5, <1>6, SeqIs

\* What is picked from a sequence: the elements at the places in P.
Singles(s) == [i \in DOMAIN s |-> <<s[i]>>]
Picked(s, P) == FlattenSeq([i \in DOMAIN s |-> IF i \in P THEN <<s[i]>> ELSE <<>>])

\* Picking is leaving out of the elements taken one by one.
LEMMA SingleIs ==
  ASSUME NEW s, IsSeq(s), NEW P
  PROVE  /\ IsSeqs(Singles(s)) /\ Len(Singles(s)) = Len(s) /\ \A i \in DOMAIN s : Singles(s)[i] = <<s[i]>>
         /\ Picked(s, P) = FlattenSeq(OnlyAt(Singles(s), P))
<1>1. Len(s) \in Nat /\ DOMAIN s = 1 .. Len(s)
  BY SeqIs
<1> DEFINE ss == Singles(s)
<1>2. ss = [i \in 1 .. Len(s) |-> ss[i]] /\ \A i \in 1 .. Len(s) : ss[i] = <<s[i]>>
  BY <1>1 DEF Singles
<1>3. Picked(s, P) = FlattenSeq(OnlyAt(ss, P))
  BY DEF Picked, OnlyAt, Singles
<1> HIDE DEF ss
<1>4. IsSeq(ss) /\ Len(ss) = Len(s)
  BY <1>1, <1>2, ListIsSeq
<1>5. IsSeqs(ss)
  <2>1. DOMAIN ss = 1 .. Len(s)
    BY <1>2
  <2>2. ASSUME NEW i \in DOMAIN ss PROVE IsSeq(ss[i])
    <3>1. ss[i] = <<s[i]>>
      BY <1>2, <2>1
    <3>2. IsSeq(<<s[i]>>)
      BY OneIs
    <3> HIDE DEF ss
    <3> QED BY <3>1, <3>2
  <2> QED BY <1>4, <2>2 DEF IsSeqs
<1> QED BY <1>1, <1>2, <1>3, <1>4, <1>5 DEF ss

\* What is picked is of the sequence; nothing, or all of it, may be.
LEMMA PickedIs ==
  ASSUME NEW s, IsSeq(s), NEW P
  PROVE  /\ IsSeq(Picked(s, P))
         /\ \A k \in DOMAIN Picked(s, P) : \E i \in DOMAIN s : i \in P /\ Picked(s, P)[k] = s[i]
         /\ (\A i \in DOMAIN s : i \notin P) => Picked(s, P) = <<>>
         /\ (\A i \in DOMAIN s : i \in P) => Picked(s, P) = s
<1> DEFINE ss == OnlyAt(Singles(s), P)
<1>1. Len(s) \in Nat /\ DOMAIN s = 1 .. Len(s)
  BY SeqIs
<1>2. Picked(s, P) = FlattenSeq(ss)
  BY SingleIs
<1>3. IsSeqs(ss) /\ Len(ss) = Len(s) /\ \A i \in 1 .. Len(s) : ss[i] = IF i \in P THEN <<s[i]>> ELSE <<>>
  BY <1>1, SingleIs, OnlyIs
<1> HIDE DEF ss
<1>4. DOMAIN ss = 1 .. Len(s)
  BY <1>1, <1>3, SeqIs DEF IsSeqs
<1>5. IsSeq(FlattenSeq(ss)) /\ \A k \in DOMAIN FlattenSeq(ss) : \E i \in 1 .. Len(s) : \E j \in DOMAIN ss[i] : FlattenSeq(ss)[k] = ss[i][j]
  <2>1. ss = [i \in 1 .. Len(s) |-> ss[i]] /\ IsSeq(FlattenSeq(ss)) /\ \A i \in 1 .. Len(s) : IsSeq(ss[i])
    BY <1>3, <1>4, FlattenSeqs DEF IsSeqs
  <2> QED BY <1>1, <2>1, FlattenIs
<1>6. ASSUME NEW k \in DOMAIN FlattenSeq(ss) PROVE \E i \in DOMAIN s : i \in P /\ FlattenSeq(ss)[k] = s[i]
  <2>1. PICK i \in 1 .. Len(s) : \E j \in DOMAIN ss[i] : FlattenSeq(ss)[k] = ss[i][j]
    BY <1>5
  <2>2. PICK j \in DOMAIN ss[i] : FlattenSeq(ss)[k] = ss[i][j]
    BY <2>1
  <2>3. i \in P /\ ss[i] = <<s[i]>>
    BY <1>3, <2>2, NoneIs
  <2>4. j = 1 /\ ss[i][j] = s[i]
    BY <2>2, <2>3, OneIs
  <2> QED BY <1>1, <2>2, <2>3, <2>4
<1>7. ASSUME \A i \in DOMAIN s : i \notin P PROVE FlattenSeq(ss) = <<>>
  <2>1. \A i \in DOMAIN ss : ss[i] = <<>>
    BY <1>1, <1>3, <1>4, <1>7
  <2> QED BY <1>3, <2>1, FlattenEmpty
<1>8. ASSUME \A i \in DOMAIN s : i \in P PROVE Picked(s, P) = s
  <2>1. Picked(s, P) = FlattenSeq([i \in DOMAIN s |-> <<s[i]>>])
    BY <1>8 DEF Picked
  <2> QED BY <2>1, FlattenOnes
<1> QED BY <1>2, <1>5, <1>6, <1>7, <1>8

\* What is picked stays in order.
LEMMA PickedOrder ==
  ASSUME NEW s, IsSeq(s), NEW P, NEW R, \A i, j \in DOMAIN s : i < j => <<s[i], s[j]>> \in R
  PROVE  \A i, j \in DOMAIN Picked(s, P) : i < j => <<Picked(s, P)[i], Picked(s, P)[j]>> \in R
<1> DEFINE ss == OnlyAt(Singles(s), P)
<1>1. Len(s) \in Nat /\ DOMAIN s = 1 .. Len(s)
  BY SeqIs
<1>2. Picked(s, P) = FlattenSeq(ss)
  BY SingleIs
<1>3. IsSeqs(ss) /\ Len(ss) = Len(s) /\ \A i \in 1 .. Len(s) : ss[i] = IF i \in P THEN <<s[i]>> ELSE <<>>
  BY <1>1, SingleIs, OnlyIs
<1> HIDE DEF ss
<1>4. PICK f : IsChain(f, ss)
  BY <1>3, FlattenChain
<1> DEFINE Good(k) == /\ \A i \in 1 .. Len(f[k]) : \E l \in 1 .. k : f[k][i] = s[l]
                      /\ \A i, j \in 1 .. Len(f[k]) : i < j => <<f[k][i], f[k][j]>> \in R
           B == {k \in 0 .. Len(s) : ~ Good(k)}
<1>5. B = {}
  <2> SUFFICES ASSUME B # {} PROVE FALSE
    OBVIOUS
  <2>1. PICK m \in B : \A k \in B : m <= k
    <3>1. B \in SUBSET Nat
      BY <1>1
    <3> HIDE DEF B
    <3> QED BY <3>1, SmallestNatIn
  <2>2. m \in 0 .. Len(s) /\ ~ Good(m)
    OBVIOUS
  <2>3. CASE m = 0
    <3>1. f[0] = <<>>
      BY <1>4 DEF IsChain
    <3>2. 1 .. Len(f[m]) = {}
      BY <2>3, <3>1, NoneIs
    <3> HIDE DEF B
    <3> QED BY <2>2, <3>2
  <2>4. CASE m # 0
    <3>1. m \in 1 .. Len(s) /\ m - 1 \in 0 .. Len(s) /\ ~ (m <= m - 1) /\ m \in Nat
      BY <1>1, <2>2, <2>4
    <3>2. m - 1 \notin B
      <4> HIDE DEF B
      <4> QED BY <2>1, <3>1
    <3>3. Good(m - 1)
      BY <3>1, <3>2
    <3> HIDE DEF B
    <3> DEFINE x == f[m - 1]
    <3>4. f[m] = x \o ss[m] /\ IsSeq(x)
      BY <1>3, <1>4, <3>1 DEF IsChain
    <3>5. CASE m \notin P
      <4>1. ss[m] = <<>>
        BY <1>3, <3>1, <3>5
      <4>2. f[m] = x
        BY <3>4, <4>1, ConcatNone
      <4>3. \A l \in 1 .. m - 1 : l \in 1 .. m
        BY <3>1
      <4> QED BY <2>2, <3>3, <4>2, <4>3
    <3>6. CASE m \in P
      <4> DEFINE y == <<s[m]>>
      <4>1. f[m] = x \o y /\ IsSeq(y) /\ Len(y) = 1 /\ y[1] = s[m]
        BY <1>3, <3>1, <3>4, <3>6, OneIs
      <4>2. Len(x) \in Nat
        BY <3>4, SeqIs
      <4>3. /\ \A i \in 1 .. Len(x) : \E l \in 1 .. m - 1 : x[i] = s[l]
            /\ \A i, j \in 1 .. Len(x) : i < j => <<x[i], x[j]>> \in R
        BY <3>3
      <4> HIDE DEF x, y
      <4>4. /\ Len(f[m]) = Len(x) + 1 /\ f[m][Len(x) + 1] = s[m]
            /\ \A i \in 1 .. Len(x) : f[m][i] = x[i]
        <5>1. /\ Len(f[m]) = Len(x) + Len(y)
              /\ \A i \in 1 .. Len(x) + Len(y) : (f[m])[i] = IF i <= Len(x) THEN x[i] ELSE y[i - Len(x)]
          BY <3>4, <4>1, ConcatIs
        <5> QED BY <4>1, <4>2, <5>1
      <4>5. \A i \in 1 .. Len(x) + 1 : i \in 1 .. Len(x) \/ i = Len(x) + 1
        BY <4>2
      <4>6. ASSUME NEW i \in 1 .. Len(x) + 1 PROVE \E l \in 1 .. m : f[m][i] = s[l]
        <5>1. CASE i \in 1 .. Len(x)
          <6>1. PICK l \in 1 .. m - 1 : x[i] = s[l]
            BY <4>3, <5>1
          <6> QED BY <3>1, <4>4, <5>1, <6>1
        <5>2. CASE i = Len(x) + 1
          BY <3>1, <4>4, <5>2
        <5> QED BY <4>5, <5>1, <5>2
      <4>7. ASSUME NEW i \in 1 .. Len(x) + 1, NEW j \in 1 .. Len(x) + 1, i < j PROVE <<f[m][i], f[m][j]>> \in R
        <5>1. i \in 1 .. Len(x)
          BY <4>2, <4>7
        <5>2. CASE j \in 1 .. Len(x)
          BY <4>3, <4>4, <4>7, <5>1, <5>2
        <5>3. CASE j = Len(x) + 1
          <6>1. PICK l \in 1 .. m - 1 : x[i] = s[l]
            BY <4>3, <5>1
          <6>2. l \in DOMAIN s /\ m \in DOMAIN s /\ l < m
            BY <1>1, <3>1
          <6>3. <<s[l], s[m]>> \in R
            BY <6>2
          <6> QED BY <4>4, <5>1, <5>3, <6>1, <6>3
        <5> QED BY <4>5, <5>2, <5>3
      <4> QED BY <2>2, <4>4, <4>6, <4>7
    <3> QED BY <3>5, <3>6
  <2> QED BY <2>3, <2>4
<1>6. Good(Len(s))
  <2>1. Len(s) \in 0 .. Len(s)
    BY <1>1
  <2> QED BY <1>5, <2>1
<1> HIDE DEF B
<1>7. f[Len(s)] = Picked(s, P) /\ IsSeq(Picked(s, P))
  BY <1>2, <1>3, <1>4, PickedIs DEF IsChain
<1>8. DOMAIN Picked(s, P) = 1 .. Len(Picked(s, P))
  BY <1>7, SeqIs
<1> QED BY <1>6, <1>7, <1>8

-----------------------------------------------------------------------------
(* Sequences with one more or one less element, or other elements.         *)

\* The last element of a sequence.
LEMMA LastOf ==
  ASSUME NEW s, IsSeq(s), s # <<>>
  PROVE  Len(s) \in Nat /\ Len(s) > 0 /\ Len(s) \in DOMAIN s /\ Last(s) = s[Len(s)]
<1>1. Len(s) > 0
  BY TailIs
<1> QED BY <1>1, SeqIs DEF Last

\* All but the last of a sequence, and the last.
AllButLast(s) == [i \in 1 .. Len(s) - 1 |-> s[i]]

\* A sequence is all but the last and then the last.
LEMMA FrontIs ==
  ASSUME NEW s, IsSeq(s), s # <<>>
  PROVE  /\ IsSeq(AllButLast(s)) /\ Len(AllButLast(s)) = Len(s) - 1 /\ DOMAIN AllButLast(s) = 1 .. Len(s) - 1
         /\ s = AllButLast(s) \o <<s[Len(s)]>>
<1> DEFINE a == AllButLast(s)
           n == Len(s)
           b == <<s[n]>>
<1>1. n \in Nat /\ n > 0 /\ n - 1 \in Nat
  BY LastOf
<1>2. a = [i \in 1 .. n - 1 |-> a[i]] /\ \A i \in 1 .. n - 1 : a[i] = s[i]
  BY DEF AllButLast
<1>3. IsSeq(b) /\ Len(b) = 1 /\ b[1] = s[n]
  BY OneIs
<1> HIDE DEF a, b
<1>4. IsSeq(a) /\ Len(a) = n - 1 /\ DOMAIN a = 1 .. n - 1
  <2> HIDE DEF n
  <2> DEFINE k == n - 1
  <2>1. k \in Nat /\ a = [i \in 1 .. k |-> a[i]]
    BY <1>1, <1>2
  <2> HIDE DEF k
  <2>2. IsSeq(a) /\ Len(a) = k /\ DOMAIN a = 1 .. k
    BY <2>1, ListIsSeq
  <2> QED BY <2>2 DEF k
<1>5. n = Len(a) + Len(b)
  BY <1>1, <1>3, <1>4
<1>6. \A i \in 1 .. Len(a) : s[i] = a[i]
  BY <1>2, <1>4
<1>7. \A i \in 1 .. Len(b) : s[Len(a) + i] = b[i]
  <2> SUFFICES ASSUME NEW i \in 1 .. Len(b) PROVE s[Len(a) + i] = b[i]
    OBVIOUS
  <2>1. i = 1 /\ Len(a) + i = n
    BY <1>1, <1>3, <1>4
  <2> QED BY <1>3, <2>1
<1>8. s = a \o b
  BY <1>3, <1>4, <1>5, <1>6, <1>7, IsConcat
<1> QED BY <1>4, <1>8 DEF a, b

\* To append is to put one after.
LEMMA AppendIsOneMore ==
  ASSUME NEW s, NEW x, IsSeq(s)
  PROVE  Append(s, x) = s \o <<x>>
<1>1. PICK S : s \in Seq(S)
  BY DEF IsSeq
<1> DEFINE U == S \cup {x}
<1>2. s \in Seq(U) /\ x \in U
  BY <1>1, SeqMonotonic, S \subseteq U
<1> HIDE DEF U
<1> QED BY <1>2

\* A sequence whose elements are replaced one by one.
LEMMA MapIs ==
  ASSUME NEW s, IsSeq(s), NEW c, c = [j \in DOMAIN s |-> c[j]]
  PROVE  IsSeq(c) /\ Len(c) = Len(s) /\ DOMAIN c = DOMAIN s
<1>1. Len(s) \in Nat /\ DOMAIN s = 1 .. Len(s)
  BY SeqIs
<1>2. c = [j \in 1 .. Len(s) |-> c[j]]
  BY <1>1
<1> QED BY <1>1, <1>2, ListIsSeq

\* A sequence with one element put before it.
LEMMA PrefixedIs ==
  ASSUME NEW x, NEW s, IsSeq(s)
  PROVE  /\ IsSeq(<<x>> \o s) /\ Len(<<x>> \o s) = 1 + Len(s) /\ Len(s) \in Nat
         /\ \A i \in 1 .. 1 + Len(s) : (<<x>> \o s)[i] = IF i <= 1 THEN x ELSE s[i - 1]
<1> DEFINE o == <<x>>
<1>1. IsSeq(o) /\ Len(o) = 1 /\ o[1] = x
  BY OneIs
<1> HIDE DEF o
<1>2. /\ IsSeq(o \o s) /\ Len(o \o s) = Len(o) + Len(s)
      /\ \A i \in 1 .. Len(o) + Len(s) : (o \o s)[i] = IF i <= Len(o) THEN o[i] ELSE s[i - Len(o)]
  BY <1>1, ConcatIs
<1>3. Len(s) \in Nat
  BY SeqIs
<1>4. \A i \in 1 .. 1 + Len(s) : (o \o s)[i] = IF i <= 1 THEN x ELSE s[i - 1]
  <2> SUFFICES ASSUME NEW i \in 1 .. 1 + Len(s) PROVE (o \o s)[i] = IF i <= 1 THEN x ELSE s[i - 1]
    OBVIOUS
  <2>1. (o \o s)[i] = IF i <= 1 THEN o[i] ELSE s[i - 1]
    BY <1>1, <1>2
  <2>2. i <= 1 => i = 1
    BY <1>3
  <2> QED BY <1>1, <2>1, <2>2
<1>5. IsSeq(o \o s) /\ Len(o \o s) = 1 + Len(s)
  BY <1>1, <1>2
<1> QED BY <1>3, <1>4, <1>5 DEF o

=============================================================================
