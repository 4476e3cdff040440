------------------------------- MODULE Ranking -------------------------------
(***************************************************************************)
(* The order in which Selector.Select tries its candidates                 *)
(* (internal/provider/selector.go). RequestPath tries them in any order:   *)
(* the assumptions below, which TLC evaluates over small pools, say that   *)
(* every strategy only reorders, and what it puts first.                   *)
(*                                                                         *)
(* A candidate is a record of what a comparator reads of it; the reads are *)
(* made once, although the code reads the breaker and the uses again at    *)
(* every comparison. A breaker that changes during the sort spoils the     *)
(* order and not the set of candidates.                                    *)
(***************************************************************************)
EXTENDS Integers, Sequences
LOCAL INSTANCE SequencesExt

\* selectionRank and defaultLess.
DefaultLess(c, d) ==
  \/ ~ c.probing /\ d.probing
  \/ c.probing = d.probing /\ c.priority < d.priority
  \/ c.probing = d.probing /\ c.priority = d.priority /\ c.uses < d.uses

\* A reset time of 0 is unknown and sorts last.
ResetLess(c, d) ==
  IF c.reset = d.reset THEN DefaultLess(c, d)
  ELSE d.reset = 0 \/ (c.reset # 0 /\ c.reset < d.reset)

\* sort.SliceStable.
StableOrder(s, Less(_, _)) ==
  LET Before(i, j) == Less(s[i], s[j]) \/ (~ Less(s[j], s[i]) /\ i < j)
  IN [k \in DOMAIN s |-> s[SetToSortSeq(DOMAIN s, Before)[k]]]

\* p2cOrder for the draw of positions i and j, i # j.
Lifted(s, i, j) ==
  LET t == StableOrder(s, DefaultLess)
      front == IF t[j].last < t[i].last THEN <<t[j], t[i]>> ELSE <<t[i], t[j]>>
      rest == SetToSortSeq(DOMAIN s \ {i, j}, LAMBDA k, l : k < l)
  IN front \o [k \in DOMAIN rest |-> t[rest[k]]]

\* orderCandidates: the orders the strategy may come to.
Orders(s, strategy) ==
  CASE strategy = "p2c" /\ Len(s) > 1 -> UNION {{Lifted(s, i, j) : j \in DOMAIN s \ {i}} : i \in DOMAIN s}
    [] strategy = "reset_aware" -> {StableOrder(s, ResetLess)}
    [] OTHER -> {StableOrder(s, DefaultLess)}

-----------------------------------------------------------------------------
Candidates ==
  [probing : BOOLEAN, priority : {1, 2}, uses : {0}, reset : {0, 1, 2}, last : {0, 1}]

\* Pools of three, told apart by their uses.
Pools == {p \in [1 .. 3 -> Candidates] : p[3].probing /\ p[3].priority = 1 /\ p[1].last = 0}
Numbered(p) == [k \in DOMAIN p |-> [p[k] EXCEPT !.uses = k]]

\* No strategy loses or doubles a candidate, so every connection that was
\* found selectable is tried before Select gives up.
ASSUME EveryCandidateIsTried ==
  \A p \in Pools, strategy \in {"default", "p2c", "reset_aware"} :
    \A o \in Orders(Numbered(p), strategy) : ToSet(o) = ToSet(Numbered(p)) /\ Len(o) = Len(p)

\* The default tries a probing connection only after every healthy one;
\* reset_aware puts nothing before a known, earlier reset.
ASSUME FirstIsBest ==
  \A p \in Pools :
    /\ \A o \in Orders(Numbered(p), "default") :
         o[1].probing => \A k \in DOMAIN p : p[k].probing
    /\ \A o \in Orders(Numbered(p), "reset_aware"), k \in DOMAIN p :
         o[1].reset = 0 => p[k].reset = 0

\* Both comparators are strict weak orders, without which a sort promises
\* nothing.
ASSUME ComparatorsAreOrders ==
  \A c, d, e \in Candidates :
    /\ DefaultLess(c, d) => ~ DefaultLess(d, c) /\ (DefaultLess(c, e) \/ DefaultLess(e, d))
    /\ ResetLess(c, d) => ~ ResetLess(d, c) /\ (ResetLess(c, e) \/ ResetLess(e, d))

=============================================================================
