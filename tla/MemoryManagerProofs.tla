------------------------ MODULE MemoryManagerProofs ------------------------
(***************************************************************************)
(* Proofs about MemoryManager: what the operations do to a list of facts,  *)
(* stated once, and the invariants that rest on it.                        *)
(***************************************************************************)
EXTENDS MemoryManager, SequenceTheorems, FiniteSetTheorems,
        NaturalsInduction, WellFoundedInduction, TLAPS

FactUpTo(n) == [id : 1..n, text : Text]

\* A good list of facts made so far, when n have been made.
List(l, n) == l \in Seq(FactUpTo(n)) /\ Good(l)

-----------------------------------------------------------------------------
(* Lists of facts *)

LEMMA ListParts ==
  ASSUME NEW n \in Nat, NEW l, List(l, n)
  PROVE  /\ Len(l) \in Nat
         /\ DOMAIN l = 1..Len(l)
         /\ \A i \in 1..Len(l) : l[i] \in FactUpTo(n) /\ l[i].id \in 1..n
<1>1. l \in Seq(FactUpTo(n))
  BY DEF List
<1>2. /\ Len(l) \in Nat
      /\ DOMAIN l = 1..Len(l)
      /\ \A i \in 1..Len(l) : l[i] \in FactUpTo(n)
  BY <1>1
<1> QED BY <1>2 DEF FactUpTo

LEMMA EmptyList == ASSUME NEW n \in Nat PROVE List(<<>>, n) /\ Ids(<<>>) = {}
BY MemoryAssumption DEF List, Good, Ids

LEMMA ListGrows ==
  ASSUME NEW n \in Nat, NEW l, List(l, n)
  PROVE  List(l, n + 1)
<1>1. FactUpTo(n) \subseteq FactUpTo(n + 1)
  BY DEF FactUpTo
<1>2. l \in Seq(FactUpTo(n + 1))
  BY <1>1, SeqMonotonic DEF List
<1> QED BY <1>2 DEF List

\* A list with other texts has the same facts at the same places.
Rewritten(l, m) ==
  /\ Len(m) = Len(l)
  /\ DOMAIN m = DOMAIN l
  /\ \A i \in DOMAIN l : m[i].id = l[i].id

LEMMA RewrittenFacts ==
  ASSUME NEW n \in Nat, NEW l, List(l, n), NEW i \in DOMAIN l, NEW t \in Text,
         NEW m, m = [l EXCEPT ![i].text = t]
  PROVE  List(m, n) /\ Ids(m) = Ids(l) /\ Rewritten(l, m)
<1>1. /\ Len(l) \in Nat
      /\ DOMAIN l = 1..Len(l)
      /\ \A j \in 1..Len(l) : l[j] \in FactUpTo(n)
  BY ListParts
<1>2. [l[i] EXCEPT !.text = t] \in FactUpTo(n)
  BY <1>1 DEF FactUpTo
<1>3. [l[i] EXCEPT !.text = t].id = l[i].id
  BY <1>1 DEF FactUpTo
<1>4. m = [l EXCEPT ![i] = [l[i] EXCEPT !.text = t]]
  OBVIOUS
<1>5. l \in Seq(FactUpTo(n))
  BY DEF List
<1>6. /\ m \in Seq(FactUpTo(n))
      /\ Len(m) = Len(l)
      /\ \A j \in 1..Len(l) : m[j] = IF j = i THEN [l[i] EXCEPT !.text = t]
                                               ELSE l[j]
  BY <1>1, <1>2, <1>4, <1>5, ExceptSeq
<1>7. DOMAIN m = 1..Len(l)
  BY <1>1, <1>4
<1>8. \A j \in 1..Len(l) : m[j].id = l[j].id
  BY <1>6, <1>3
<1>9. Rewritten(l, m)
  BY <1>1, <1>6, <1>7, <1>8 DEF Rewritten
<1>10. Good(m)
  BY <1>1, <1>6, <1>7, <1>8 DEF List, Good
<1>11. Ids(m) = Ids(l)
  BY <1>1, <1>7, <1>8 DEF Ids
<1> QED BY <1>6, <1>9, <1>10, <1>11 DEF List

\* The first facts of a list.
LEMMA FirstFacts ==
  ASSUME NEW n \in Nat, NEW l, List(l, n), NEW k \in 0..Len(l),
         NEW m, m = SubSeq(l, 1, k)
  PROVE  /\ List(m, n)
         /\ Len(m) = k
         /\ \A i \in 1..k : m[i] = l[i]
         /\ Ids(m) = Ids(l) \ {l[i].id : i \in {j \in DOMAIN l : j > k}}
         /\ k = Len(l) => m = l
<1>1. /\ Len(l) \in Nat
      /\ DOMAIN l = 1..Len(l)
      /\ \A i \in 1..Len(l) : l[i] \in FactUpTo(n)
      /\ l \in Seq(FactUpTo(n))
  BY ListParts DEF List
<1>2. k \in Nat /\ k <= Len(l)
  BY <1>1
<1>3. /\ m \in Seq(FactUpTo(n))
      /\ Len(m) = k
      /\ \A i \in 1..k : m[i] = l[i]
  <2>1. \A i \in 1..k : l[i] \in FactUpTo(n)
    BY <1>1, <1>2
  <2> QED BY <2>1, <1>1, <1>2, SubSeqProperties
<1>4. DOMAIN m = 1..k
  BY <1>3, LenProperties
<1>5. Good(m)
  BY <1>1, <1>2, <1>3, <1>4 DEF List, Good
<1>6. Ids(m) = Ids(l) \ {l[i].id : i \in {j \in DOMAIN l : j > k}}
  <2>1. ASSUME NEW i \in 1..k
        PROVE  m[i].id \in Ids(l) \ {l[j].id : j \in {j \in DOMAIN l : j > k}}
    <3>1. i \in DOMAIN l /\ m[i] = l[i]
      BY <1>1, <1>2, <1>3
    <3>2. \A j \in DOMAIN l : j > k => l[j].id # l[i].id
      BY <3>1, <1>2, <1>1 DEF List, Good
    <3> QED BY <3>1, <3>2 DEF Ids
  <2>2. ASSUME NEW i \in DOMAIN l, ~(i > k)
        PROVE  l[i].id \in Ids(m)
    <3>1. i \in 1..k
      BY <2>2, <1>1, <1>2
    <3> QED BY <3>1, <1>3, <1>4 DEF Ids
  <2> QED BY <2>1, <2>2, <1>4 DEF Ids
<1>7. k = Len(l) => m = l
  BY <1>1, <1>3, SeqEqual
<1> QED BY <1>3, <1>5, <1>6, <1>7 DEF List

\* A new fact goes to the end, or nowhere when the list is full.
LEMMA AppendedFacts ==
  ASSUME NEW n \in Nat, limit \in Nat, NEW l, List(l, n), NEW t \in Text,
         NEW x, x = [id |-> n + 1, text |-> t]
  PROVE  /\ Len(l) < limit =>
              /\ Cut(Append(l, x)) = Append(l, x)
              /\ List(Append(l, x), n + 1)
              /\ Ids(Append(l, x)) = Ids(l) \union {n + 1}
              /\ Len(Append(l, x)) = Len(l) + 1
              /\ \A i \in 1..Len(l) : Append(l, x)[i] = l[i]
         /\ ~(Len(l) < limit) => Cut(Append(l, x)) = SubSeq(l, 1, limit)
<1>1. /\ Len(l) \in Nat
      /\ DOMAIN l = 1..Len(l)
      /\ \A i \in 1..Len(l) : l[i] \in FactUpTo(n) /\ l[i].id \in 1..n
  BY ListParts
<1>2. List(l, n + 1) /\ x \in FactUpTo(n + 1) /\ x.id = n + 1
  BY ListGrows DEF FactUpTo
<1>3. l \in Seq(FactUpTo(n + 1))
  BY <1>2 DEF List
<1> DEFINE y == Append(l, x)
<1>4. /\ y \in Seq(FactUpTo(n + 1))
      /\ Len(y) = Len(l) + 1
      /\ \A i \in 1..Len(l) : y[i] = l[i]
      /\ y[Len(l) + 1] = x
  BY <1>2, <1>3, AppendProperties
<1> HIDE DEF y
<1>5. DOMAIN y = 1..(Len(l) + 1)
  BY <1>4, LenProperties
<1>6. Good(y)
  <2> SUFFICES ASSUME NEW i \in DOMAIN y, NEW j \in DOMAIN y,
                      y[i].id = y[j].id
               PROVE  i = j
    BY DEF Good
  <2>1. CASE i \in 1..Len(l) /\ j \in 1..Len(l)
    BY <2>1, <1>4, <1>1 DEF List, Good
  <2>2. CASE i \notin 1..Len(l) \/ j \notin 1..Len(l)
    BY <2>2, <1>1, <1>2, <1>4, <1>5
  <2> QED BY <2>1, <2>2
<1>7. Ids(y) = Ids(l) \union {n + 1}
  BY <1>1, <1>2, <1>4, <1>5 DEF Ids
<1>8. ASSUME Len(l) < limit PROVE Cut(y) = y
  BY <1>8, <1>1, <1>4 DEF Cut
<1>9. ASSUME ~(Len(l) < limit) PROVE Cut(y) = SubSeq(l, 1, limit)
  <2>1. limit <= Len(l) /\ Len(y) > limit
    BY <1>9, <1>1, <1>4
  <2>2. Cut(y) = SubSeq(y, 1, limit)
    BY <2>1 DEF Cut
  <2> DEFINE a == SubSeq(y, 1, limit)
             b == SubSeq(l, 1, limit)
  <2>3. /\ a \in Seq(FactUpTo(n + 1))
        /\ Len(a) = limit
        /\ \A i \in 1..limit : a[i] = y[i]
    <3>1. \A i \in 1..limit : y[i] \in FactUpTo(n + 1)
      BY <1>1, <1>2, <1>3, <1>4, <2>1, ElementOfSeq
    <3> QED BY <3>1, SubSeqProperties
  <2>4. /\ b \in Seq(FactUpTo(n + 1))
        /\ Len(b) = limit
        /\ \A i \in 1..limit : b[i] = l[i]
    <3>1. \A i \in 1..limit : l[i] \in FactUpTo(n + 1)
      BY <1>1, <1>3, <2>1, ElementOfSeq
    <3> QED BY <3>1, SubSeqProperties
  <2> HIDE DEF a, b
  <2>5. \A i \in 1..limit : a[i] = b[i]
    BY <2>3, <2>4, <2>1, <1>1, <1>4
  <2>6. a = b
    BY <2>3, <2>4, <2>5, SeqEqual
  <2> QED BY <2>2, <2>6 DEF a, b
<1> QED BY <1>4, <1>6, <1>7, <1>8, <1>9 DEF y, List

LEMMA RemovedFacts ==
  ASSUME NEW n \in Nat, NEW l, List(l, n), NEW i \in DOMAIN l,
         NEW m, m = RemoveAt(l, i)
  PROVE  List(m, n) /\ Ids(m) = Ids(l) \ {l[i].id}
<1>1. /\ Len(l) \in Nat
      /\ DOMAIN l = 1..Len(l)
      /\ \A j \in 1..Len(l) : l[j] \in FactUpTo(n)
  BY ListParts
<1>2. l \in Seq(FactUpTo(n)) /\ i \in 1..Len(l)
  BY <1>1 DEF List
<1> DEFINE a == SubSeq(l, 1, i - 1)
           b == SubSeq(l, i + 1, Len(l))
<1>3. /\ a \in Seq(FactUpTo(n))
      /\ Len(a) = i - 1
      /\ \A j \in 1..(i - 1) : a[j] = l[j]
  BY <1>1, <1>2, SubSeqProperties
<1>4. /\ b \in Seq(FactUpTo(n))
      /\ Len(b) = Len(l) - i
      /\ \A j \in 1..(Len(l) - i) : b[j] = l[j + i]
  BY <1>1, <1>2, SubSeqProperties
<1>5. /\ m \in Seq(FactUpTo(n))
      /\ Len(m) = Len(l) - 1
      /\ DOMAIN m = 1..(Len(l) - 1)
      /\ \A j \in 1..(Len(l) - 1) : m[j] = IF j < i THEN l[j] ELSE l[j + 1]
  <2> HIDE DEF a, b
  <2>1. m = a \o b
    BY DEF RemoveAt, a, b
  <2>2. /\ m \in Seq(FactUpTo(n))
        /\ Len(m) = Len(a) + Len(b)
        /\ \A j \in 1..(Len(a) + Len(b)) :
             m[j] = IF j <= Len(a) THEN a[j] ELSE b[j - Len(a)]
    <3>1. a \in Seq(FactUpTo(n)) /\ b \in Seq(FactUpTo(n))
      BY <1>3, <1>4
    <3>2. /\ a \o b \in Seq(FactUpTo(n))
          /\ Len(a \o b) = Len(a) + Len(b)
          /\ \A j \in 1..(Len(a) + Len(b)) :
               (a \o b)[j] = IF j <= Len(a) THEN a[j] ELSE b[j - Len(a)]
      BY ONLY <3>1, ConcatProperties
    <3> QED BY ONLY <2>1, <3>2
  <2>3. Len(a) + Len(b) = Len(l) - 1
    BY <1>1, <1>2, <1>3, <1>4
  <2>4. ASSUME NEW j \in 1..(Len(l) - 1)
        PROVE  m[j] = IF j < i THEN l[j] ELSE l[j + 1]
    <3>1. m[j] = IF j <= Len(a) THEN a[j] ELSE b[j - Len(a)]
      BY <2>2, <2>3
    <3>2. CASE j < i
      <4>1. j <= Len(a) /\ j \in 1..(i - 1)
        BY <3>2, <1>1, <1>2, <1>3
      <4> QED BY <4>1, <3>1, <3>2, <1>3
    <3>3. CASE ~(j < i)
      <4>1. ~(j <= Len(a)) /\ j - Len(a) \in 1..(Len(l) - i)
        BY <3>3, <1>1, <1>2, <1>3
      <4>2. b[j - Len(a)] = l[(j - Len(a)) + i]
        BY <4>1, <1>4
      <4>3. (j - Len(a)) + i = j + 1
        BY <1>1, <1>2, <1>3
      <4> QED BY <4>1, <4>2, <4>3, <3>1, <3>3
    <3> QED BY <3>2, <3>3
  <2>5. DOMAIN m = 1..(Len(l) - 1)
    BY <2>2, <2>3, LenProperties
  <2> QED BY <2>2, <2>3, <2>4, <2>5
<1> DEFINE At(j) == IF j < i THEN j ELSE j + 1
<1>6. \A j \in DOMAIN m : At(j) \in DOMAIN l /\ At(j) # i /\ m[j] = l[At(j)]
  BY <1>1, <1>2, <1>5
<1>7. \A j, k \in DOMAIN m : At(j) = At(k) => j = k
  BY <1>1, <1>2, <1>5
<1>8. \A j, k \in DOMAIN l : l[j].id = l[k].id => j = k
  BY DEF List, Good
<1>9. Good(m)
  <2>2. ASSUME NEW j \in DOMAIN m, NEW k \in DOMAIN m, m[j].id = m[k].id
        PROVE  j = k
    <3>1. At(j) = At(k)
      BY <2>2, <1>6, <1>8
    <3> QED BY <3>1, <1>7
  <2> QED BY <2>2 DEF Good
<1>10. Ids(m) \subseteq Ids(l) \ {l[i].id}
  <2> HIDE DEF At
  <2> SUFFICES ASSUME NEW j \in DOMAIN m
               PROVE  m[j].id \in Ids(l) \ {l[i].id}
    BY DEF Ids
  <2> QED BY <1>6, <1>8 DEF Ids
<1>11. Ids(l) \ {l[i].id} \subseteq Ids(m)
  <2> SUFFICES ASSUME NEW j \in 1..Len(l), j # i
               PROVE  l[j].id \in Ids(m)
    BY <1>1 DEF Ids
  <2>1. CASE j < i
    BY <2>1, <1>1, <1>2, <1>5 DEF Ids
  <2>2. CASE j > i
    <3>1. j - 1 \in DOMAIN m /\ m[j - 1] = l[j]
      BY <2>2, <1>1, <1>2, <1>5
    <3> QED BY <3>1 DEF Ids
  <2> QED BY <2>1, <2>2, <1>1, <1>2
<1> QED BY <1>5, <1>9, <1>10, <1>11 DEF List

-----------------------------------------------------------------------------
(* Adding a fact *)

LEMMA LeastElement ==
  ASSUME NEW S \in SUBSET Nat, S # {}
  PROVE  \E i \in S : \A j \in S : i <= j
<1>1. IsWellFoundedOn(OpToRel(<, Nat), Nat)
  BY NatLessThanWellFounded
<1>2. PICK i \in S : \A j \in S : ~(<<j, i>> \in OpToRel(<, Nat))
  BY <1>1, WFMin
<1>3. \A j \in S : ~(j < i)
  BY <1>2 DEF OpToRel
<1> QED BY <1>3

\* Every place of l has the same fact in m.
Extends(l, m) == Len(l) <= Len(m) /\ \A i \in 1..Len(l) : m[i].id = l[i].id

LEMMA RewrittenExtends ==
  ASSUME NEW n \in Nat, NEW l, List(l, n), NEW m, Rewritten(l, m)
  PROVE  Extends(l, m)
<1>1. Len(l) \in Nat /\ DOMAIN l = 1..Len(l)
  BY ListParts
<1> QED BY <1>1 DEF Rewritten, Extends

LEMMA Forgets ==
  ASSUME NEW n \in Nat, NEW l, List(l, n + 1), n + 1 \notin Ids(l)
  PROVE  List(l, n)
<1>1. /\ Len(l) \in Nat
      /\ DOMAIN l = 1..Len(l)
      /\ \A i \in 1..Len(l) : l[i] \in FactUpTo(n + 1)
      /\ l \in Seq(FactUpTo(n + 1))
  BY ListParts DEF List
<1>2. ASSUME NEW i \in 1..Len(l) PROVE l[i] \in FactUpTo(n)
  <2>1. l[i].id # n + 1 /\ l[i].id \in 1..(n + 1)
    BY <1>1 DEF Ids, FactUpTo
  <2> QED BY <2>1, <1>1 DEF FactUpTo
<1>3. l = [i \in 1..Len(l) |-> l[i]]
  BY <1>1, LenProperties
<1>4. l \in [1..Len(l) -> FactUpTo(n)]
  BY <1>2, <1>3
<1>5. l \in Seq(FactUpTo(n))
  BY <1>1, <1>4, SeqDef
<1> QED BY <1>5 DEF List

\* Added puts in a new fact, or cuts, but not both; without a cut every
\* place keeps its fact, and with one those up to the limit do.
LEMMA AddedFacts ==
  ASSUME made \in Nat, limit \in Nat, NEW l, List(l, made), NEW t \in Text,
         NEW m, m = Added(l, t)
  PROVE  /\ List(m, made + 1)
         /\ Ids(m) = (Ids(l) \ Past(l, t)) \union (Ids(m) \ 1..made)
         /\ Past(l, t) = {} => Extends(l, m)
         /\ Past(l, t) # {} =>
              /\ limit <= Len(l)
              /\ Len(m) = limit
              /\ \A i \in 1..limit : m[i] = l[i]
<1>1. /\ Len(l) \in Nat
      /\ DOMAIN l = 1..Len(l)
  BY ListParts
<1>0. Ids(l) \subseteq 1..made
  BY ListParts DEF Ids
<1>2. CASE Similar(l, t) # {}
  <2>1. Similar(l, t) \subseteq DOMAIN l /\ Similar(l, t) \in SUBSET Nat
    BY <1>1 DEF Similar
  <2>2. PICK i \in DOMAIN l : m = [l EXCEPT ![i].text = t]
    <3>1. First(Similar(l, t)) \in Similar(l, t)
      BY <2>1, <1>2, LeastElement DEF First
    <3>2. m = [l EXCEPT ![First(Similar(l, t))].text = t]
      BY <1>2 DEF Added
    <3> QED BY <2>1, <3>1, <3>2
  <2>3. List(m, made) /\ Ids(m) = Ids(l) /\ Rewritten(l, m)
    BY <2>2, RewrittenFacts
  <2>4. List(m, made + 1)
    BY <2>3, ListGrows
  <2>5. Extends(l, m)
    BY <2>3, RewrittenExtends
  <2>6. Past(l, t) = {}
    BY <1>2 DEF Past
  <2> QED BY <2>3, <2>4, <2>5, <2>6, <1>0
<1>3. CASE Similar(l, t) = {}
  <2> DEFINE x == [id |-> made + 1, text |-> t]
             y == Append(l, x)
  <2>1. m = Cut(y)
    BY <1>3 DEF Added
  <2>2. Past(l, t) = {l[i].id : i \in {j \in DOMAIN l : j > limit}}
    BY <1>3 DEF Past
  <2>3. /\ Len(l) < limit =>
             /\ Cut(y) = y
             /\ List(y, made + 1)
             /\ Ids(y) = Ids(l) \union {made + 1}
             /\ Len(y) = Len(l) + 1
             /\ \A i \in 1..Len(l) : y[i] = l[i]
        /\ ~(Len(l) < limit) => Cut(y) = SubSeq(l, 1, limit)
    BY AppendedFacts
  <2> HIDE DEF x, y
  <2>4. CASE Len(l) < limit
    <3>1. Past(l, t) = {}
      BY <2>2, <2>4, <1>1
    <3>2. Extends(l, m)
      BY <2>1, <2>3, <2>4, <1>1 DEF Extends
    <3>3. Ids(m) = Ids(l) \union (Ids(m) \ 1..made)
      BY <2>1, <2>3, <2>4, <1>0
    <3> QED BY <2>1, <2>3, <2>4, <3>1, <3>2, <3>3
  <2>5. CASE ~(Len(l) < limit)
    <3>1. limit \in 0..Len(l) /\ limit <= Len(l) /\ m = SubSeq(l, 1, limit)
      BY <2>1, <2>3, <2>5, <1>1
    <3>2. /\ List(m, made)
          /\ Len(m) = limit
          /\ \A i \in 1..limit : m[i] = l[i]
          /\ Ids(m) = Ids(l) \ Past(l, t)
          /\ limit = Len(l) => m = l
      <4> DEFINE P == {l[i].id : i \in {j \in DOMAIN l : j > limit}}
      <4>1. /\ List(m, made)
            /\ Len(m) = limit
            /\ \A i \in 1..limit : m[i] = l[i]
            /\ Ids(m) = Ids(l) \ P
            /\ limit = Len(l) => m = l
        BY <3>1, FirstFacts
      <4>2. Past(l, t) = P
        BY <2>2
      <4> HIDE DEF P
      <4> QED BY <4>1, <4>2
    <3>3. List(m, made + 1)
      BY <3>2, ListGrows
    <3>4. ASSUME Past(l, t) = {} PROVE Extends(l, m)
      <4>0. \A i \in DOMAIN l : ~(i > limit)
        BY <3>4, <2>2
      <4>1. ~(Len(l) > limit)
        BY <4>0, <1>1
      <4>2. limit = Len(l)
        <5>1. limit <= Len(l)
          BY <3>1
        <5>2. Len(l) \in Nat
          BY <1>1
        <5> QED BY <4>1, <5>1, <5>2
      <4>3. m = l
        BY <4>2, <3>2
      <4> QED BY <4>3, <1>1 DEF Extends
    <3>5. Ids(m) = (Ids(l) \ Past(l, t)) \union (Ids(m) \ 1..made)
      BY <3>2, <1>0
    <3> QED BY <3>1, <3>2, <3>3, <3>4, <3>5
  <2> QED BY <2>4, <2>5
<1> QED BY <1>2, <1>3

LEMMA ShownFacts ==
  ASSUME NEW n \in Nat, NEW l, List(l, n)
  PROVE  /\ IdList(Shown(l)) \in Seq(Nat)
         /\ StillThere(IdList(Shown(l)), l)
<1>1. /\ Len(l) \in Nat
      /\ DOMAIN l = 1..Len(l)
      /\ \A i \in 1..Len(l) : l[i] \in FactUpTo(n) /\ l[i].id \in 1..n
  BY ListParts
<1>0. Top \in Nat
  BY MemoryAssumption
<1> DEFINE p == Shown(l)
<1>2. PICK k \in Nat : /\ k <= Len(l)
                       /\ DOMAIN p = 1..k
                       /\ \A i \in 1..k : p[i] = l[i]
  <2>1. CASE Len(l) > Top
    <3>1. p = SubSeq(l, 1, Top)
      BY <2>1 DEF Shown
    <3>2. /\ p \in Seq(FactUpTo(n))
          /\ Len(p) = Top
          /\ \A i \in 1..Top : p[i] = l[i]
      <4>1. \A i \in 1..Top : l[i] \in FactUpTo(n)
        BY <1>1, <2>1, MemoryAssumption
      <4> QED BY <3>1, <4>1, SubSeqProperties, MemoryAssumption
    <3>3. DOMAIN p = 1..Top
      BY <3>2, LenProperties
    <3> QED BY <2>1, <3>2, <3>3, MemoryAssumption
  <2>2. CASE Len(l) <= Top
    <3>1. ~(Len(l) > Top)
      BY <2>2, <1>0, <1>1
    <3>2. Shown(l) = l
      BY <3>1 DEF Shown
    <3>3. /\ Len(l) <= Len(l)
          /\ DOMAIN p = 1..Len(l)
          /\ \A i \in 1..Len(l) : p[i] = l[i]
      BY <3>2, <1>1
    <3> HIDE DEF p
    <3> QED BY <3>3, <1>1
  <2> QED BY <2>1, <2>2, <1>0, <1>1
<1> HIDE DEF p
<1> DEFINE q == IdList(p)
<1>3. q = [i \in 1..k |-> l[i].id]
  BY <1>2 DEF IdList
<1>4. \A i \in 1..k : l[i].id \in Nat
  BY <1>1, <1>2
<1> HIDE DEF q
<1>5. q \in Seq(Nat) /\ Len(q) = k /\ \A i \in 1..k : q[i] = l[i].id
  <2>1. q \in [1..k -> Nat]
    BY <1>3, <1>4
  <2>2. q \in Seq(Nat)
    BY <2>1, <1>2, SeqDef
  <2> QED BY <2>1, <2>2, <1>2, <1>3, LenProperties
<1>6. StillThere(q, l)
  BY <1>5, <1>2 DEF StillThere
<1> QED BY <1>5, <1>6 DEF q, p

-----------------------------------------------------------------------------
(* The inductive invariant: the store, user by user; the tasks; and what   *)
(* the conversations were shown.                                           *)

UserOK(u) ==
  /\ List(cache[u], made)
  /\ List(disk[u], made)
  /\ u \notin loaded => cache[u] = <<>>
  /\ u \in loaded \ dirty =>
       IF u \in misread THEN cache[u] = <<>>
                        ELSE disk[u] = cache[u]
  /\ Ids(Facts(u)) = kept[u]
  /\ Ids(disk[u]) = filed[u]

StoreOK ==
  /\ made \in Nat
  /\ loaded \subseteq User
  /\ dirty \subseteq loaded
  /\ misread \subseteq loaded \ dirty
  /\ limit \in Limits
  /\ cache = [u \in User |-> cache[u]]
  /\ disk = [u \in User |-> disk[u]]
  /\ kept = [u \in User |-> kept[u]]
  /\ filed = [u \in User |-> filed[u]]
  /\ \A u \in User : UserOK(u)

TaskOK ==
  /\ sender \in [DOMAIN sender -> User]
  /\ DOMAIN sender \subseteq Session
  /\ applying \in DOMAIN sender \union {NoOne}
  /\ resumed \subseteq Session
  /\ phase \in {"up", "flushed"}
  /\ failed \in Nat
  /\ boots \in Nat

ShownOK ==
  /\ shown \in [DOMAIN shown -> [of : User, ids : Seq(Nat)]]
  /\ DOMAIN shown \subseteq Session
  /\ IndexesHold

IInv == StoreOK /\ TaskOK /\ ShownOK

LEMMA Covers == ASSUME IInv PROVE MemoryInv /\ IndexesHold
<1>1. \A u \in User : /\ List(cache[u], made)
                      /\ List(disk[u], made)
                      /\ u \notin loaded => cache[u] = <<>>
                      /\ u \in loaded \ dirty =>
                           IF u \in misread THEN cache[u] = <<>>
                                            ELSE disk[u] = cache[u]
                      /\ Ids(Facts(u)) = kept[u]
                      /\ Ids(disk[u]) = filed[u]
  BY DEF IInv, StoreOK, UserOK
<1>2. Fact = FactUpTo(made)
  BY DEF Fact, FactUpTo
<1>3. cache \in [User -> Seq(Fact)] /\ disk \in [User -> Seq(Fact)]
  BY <1>1, <1>2 DEF IInv, StoreOK, List
<1>4. ASSUME NEW l, List(l, made) PROVE Ids(l) \subseteq 1..made
  <2>1. made \in Nat
    BY DEF IInv, StoreOK
  <2> QED BY <1>4, <2>1, ListParts DEF Ids
<1>5. \A u \in User : kept[u] \subseteq 1..made /\ filed[u] \subseteq 1..made
  <2> SUFFICES ASSUME NEW u \in User
               PROVE  kept[u] \subseteq 1..made /\ filed[u] \subseteq 1..made
    OBVIOUS
  <2>1. List(Facts(u), made)
    BY <1>1 DEF Facts
  <2> QED BY <2>1, <1>1, <1>4
<1>6. kept \in [User -> SUBSET (1..made)] /\ filed \in [User -> SUBSET (1..made)]
  BY <1>5 DEF IInv, StoreOK
<1>7. TypeOK
  BY <1>1, <1>3, <1>6 DEF TypeOK, IInv, StoreOK, TaskOK, ShownOK
<1>8. SavedInv
  BY <1>1 DEF SavedInv, List
<1>9. KeptInv
  BY <1>1 DEF KeptInv
<1> QED BY <1>7, <1>8, <1>9 DEF MemoryInv, IInv, ShownOK

LEMMA InitOK == ASSUME Init PROVE IInv
<1>1. ASSUME NEW u \in User PROVE UserOK(u)
  <2>1. cache[u] = <<>> /\ disk[u] = <<>> /\ kept[u] = {} /\ filed[u] = {}
    BY DEF Init
  <2>2. loaded = {} /\ made = 0
    BY DEF Init
  <2>3. List(<<>>, made) /\ Ids(<<>>) = {}
    BY <2>2, EmptyList
  <2> QED BY <2>1, <2>2, <2>3 DEF UserOK, Facts
<1>2. StoreOK
  <2>1. /\ made \in Nat /\ loaded \subseteq User /\ dirty \subseteq loaded
        /\ misread \subseteq loaded \ dirty /\ limit \in Limits
    BY DEF Init
  <2>2. /\ cache = [u \in User |-> cache[u]]
        /\ disk = [u \in User |-> disk[u]]
        /\ kept = [u \in User |-> kept[u]]
        /\ filed = [u \in User |-> filed[u]]
    BY DEF Init
  <2> QED BY <1>1, <2>1, <2>2 DEF StoreOK
<1>3. TaskOK
  BY DEF Init, TaskOK
<1>4. ShownOK
  BY DEF Init, ShownOK, IndexesHold
<1> QED BY <1>2, <1>3, <1>4 DEF IInv

-----------------------------------------------------------------------------
(* What the steps do to the store and to what was shown *)

LEMMA StoreStays ==
  ASSUME StoreOK, UNCHANGED <<memoryVars, made, kept, filed, misread>>,
         limit' \in Limits
  PROVE  StoreOK'
BY DEF StoreOK, UserOK, memoryVars, Facts

\* The settings file gives no negative limit.
LEMMA LimitKnown == ASSUME StoreOK PROVE limit \in Nat
BY MemoryAssumption DEF StoreOK

LEMMA ShownStays ==
  ASSUME ShownOK, UNCHANGED shown, loaded \subseteq loaded',
         \A u \in loaded : Extends(cache[u], cache'[u]),
         \A u \in loaded : Len(cache[u]) \in Nat /\ Len(cache'[u]) \in Nat
  PROVE  ShownOK'
<1>1. ASSUME NEW s \in DOMAIN shown
      PROVE  /\ shown[s].of \in loaded'
             /\ StillThere(shown[s].ids, cache'[shown[s].of])
  <2> DEFINE u == shown[s].of
             k == shown[s].ids
  <2>1. u \in loaded /\ StillThere(k, cache[u]) /\ Len(k) \in Nat
    BY DEF ShownOK, IndexesHold
  <2> HIDE DEF u, k
  <2>2. Extends(cache[u], cache'[u]) /\ Len(cache[u]) \in Nat
        /\ Len(cache'[u]) \in Nat
    BY <2>1
  <2>3. StillThere(k, cache'[u])
    BY <2>1, <2>2 DEF StillThere, Extends
  <2> QED BY <2>1, <2>3 DEF u, k
<1>2. IndexesHold'
  BY <1>1 DEF IndexesHold, StillThere
<1> QED BY <1>2 DEF ShownOK

LEMMA ShownSame ==
  ASSUME StoreOK, ShownOK, UNCHANGED <<shown, loaded, cache>>
  PROVE  ShownOK'
BY DEF ShownOK, IndexesHold, StillThere

\* A cut leaves the first ones.
LEMMA CutIds ==
  ASSUME limit \in Nat, NEW k \in Seq(Nat)
  PROVE  /\ Cut(k) \in Seq(Nat)
         /\ Len(Cut(k)) <= limit /\ Len(Cut(k)) <= Len(k)
         /\ \A i \in 1..Len(Cut(k)) : Cut(k)[i] = k[i]
<1>1. Len(k) \in Nat /\ \A i \in 1..Len(k) : k[i] \in Nat
  BY ElementOfSeq
<1>2. CASE Len(k) > limit
  <2> DEFINE p == SubSeq(k, 1, limit)
  <2>1. Cut(k) = p
    BY <1>2 DEF Cut
  <2>2. p \in Seq(Nat) /\ Len(p) = limit /\ \A i \in 1..limit : p[i] = k[i]
    <3>1. \A i \in 1..limit : k[i] \in Nat
      BY <1>1, <1>2
    <3> QED BY <3>1, SubSeqProperties
  <2> HIDE DEF p
  <2> QED BY <1>1, <1>2, <2>1, <2>2
<1>3. CASE ~(Len(k) > limit)
  <2>1. Cut(k) = k
    BY <1>3 DEF Cut
  <2> QED BY <1>1, <1>3, <2>1
<1> QED BY <1>2, <1>3

\* The list of u in the cache becomes l.
LEMMA StoreChanges ==
  ASSUME StoreOK, NEW u \in User, NEW l, Changed(u, l),
         loaded' = loaded \union {u},
         made' \in {made, made + 1}, List(l, made'),
         kept' = [kept EXCEPT ![u] = Ids(l)]
  PROVE  StoreOK'
<1>1. /\ cache' = [cache EXCEPT ![u] = l]
      /\ dirty' = dirty \union {u}
      /\ misread' = misread \ {u}
      /\ limit' = limit
      /\ disk' = disk
      /\ filed' = filed
  BY DEF Changed
<1>2. /\ made \in Nat
      /\ misread \subseteq loaded \ dirty
      /\ limit \in Limits
      /\ loaded \subseteq User
      /\ dirty \subseteq loaded
      /\ cache = [v \in User |-> cache[v]]
      /\ disk = [v \in User |-> disk[v]]
      /\ kept = [v \in User |-> kept[v]]
      /\ filed = [v \in User |-> filed[v]]
      /\ \A v \in User : UserOK(v)
  BY DEF StoreOK
<1>3. ASSUME NEW k, List(k, made) PROVE List(k, made')
  BY <1>3, <1>2, ListGrows
<1>4. ASSUME NEW v \in User PROVE UserOK(v)'
  <2>1. /\ List(cache[v], made)
        /\ List(disk[v], made)
        /\ v \notin loaded => cache[v] = <<>>
        /\ v \in loaded \ dirty =>
             IF v \in misread THEN cache[v] = <<>>
                              ELSE disk[v] = cache[v]
        /\ Ids(Facts(v)) = kept[v]
        /\ Ids(disk[v]) = filed[v]
    BY <1>2 DEF UserOK
  <2>2. List(disk[v], made')
    BY <2>1, <1>3
  <2>3. CASE v = u
    <3>1. cache'[v] = l /\ kept'[v] = Ids(l)
      BY <2>3, <1>1, <1>2
    <3>2. v \in loaded' /\ v \in dirty'
      BY <2>3, <1>1
    <3> QED BY <3>1, <3>2, <1>1, <2>1, <2>2 DEF UserOK, Facts, List, Good
  <2>4. CASE v # u
    <3>1. cache'[v] = cache[v] /\ kept'[v] = kept[v]
      BY <2>4, <1>1, <1>2
    <3>2. /\ v \in loaded' <=> v \in loaded
          /\ v \in dirty' <=> v \in dirty
          /\ v \in misread' <=> v \in misread
      BY <2>4, <1>1
    <3>3. List(cache[v], made')
      BY <2>1, <1>3
    <3> QED BY <3>1, <3>2, <3>3, <1>1, <2>1, <2>2 DEF UserOK, Facts, List, Good
  <2> QED BY <2>3, <2>4
<1>5. made' \in Nat
  BY <1>2
<1>6. /\ loaded' \subseteq User /\ dirty' \subseteq loaded'
      /\ misread' \subseteq loaded' \ dirty' /\ limit' \in Limits
  BY <1>1, <1>2
<1>7. /\ cache' = [v \in User |-> cache'[v]]
      /\ disk' = [v \in User |-> disk'[v]]
      /\ kept' = [v \in User |-> kept'[v]]
      /\ filed' = [v \in User |-> filed'[v]]
  BY <1>1, <1>2
<1> QED BY <1>4, <1>5, <1>6, <1>7 DEF StoreOK

LEMMA ExtendsItself ==
  ASSUME NEW n \in Nat, NEW l, List(l, n)
  PROVE  Extends(l, l)
BY ListParts DEF Extends

\* What a load may find is a list, of what was there or of nothing.
LEMMA Readings ==
  ASSUME StoreOK, NEW u \in User, NEW facts \in Readable(u)
  PROVE  /\ List(facts, made)
         /\ Ids(facts) = Left(u, facts)
         /\ u \in loaded => facts = cache[u]
         /\ Misses(u, facts) => u \notin loaded /\ facts = <<>>
         /\ ~Misses(u, facts) => facts = Facts(u)
<1>1. /\ made \in Nat /\ List(Facts(u), made) /\ Ids(Facts(u)) = kept[u]
  BY DEF StoreOK, UserOK, Facts
<1>2. facts = Facts(u) \/ (u \notin loaded /\ facts = <<>>)
  BY DEF Readable
<1>3. List(<<>>, made) /\ Ids(<<>>) = {}
  BY <1>1, EmptyList
<1>4. CASE facts = Facts(u)
  BY <1>1, <1>4 DEF Left, Misses, Facts
<1>5. CASE facts # Facts(u) /\ u \notin loaded /\ facts = <<>>
  BY <1>3, <1>5 DEF Left, Misses
<1> QED BY <1>2, <1>4, <1>5

\* The list of u is in the cache from now on.
LEMMA StoreLoads ==
  ASSUME StoreOK, NEW u \in User, NEW facts, Load(u, facts),
         UNCHANGED <<dirty, disk, limit, made, filed>>
  PROVE  /\ StoreOK'
         /\ \A v \in loaded : cache'[v] = cache[v]
         /\ cache'[u] = facts
<1>1. /\ loaded' = loaded \union {u}
      /\ cache' = [cache EXCEPT ![u] = facts]
      /\ kept' = [kept EXCEPT ![u] = Left(u, facts)]
      /\ misread' = IF Misses(u, facts) THEN misread \union {u} ELSE misread
      /\ facts \in Readable(u)
  BY DEF Load
<1>2. /\ cache = [w \in User |-> cache[w]]
      /\ kept = [w \in User |-> kept[w]]
      /\ dirty \subseteq loaded /\ loaded \subseteq User
      /\ misread \subseteq loaded \ dirty
      /\ limit \in Limits
      /\ made \in Nat
      /\ \A w \in User : UserOK(w)
  BY DEF StoreOK
<1>3. /\ List(facts, made)
      /\ Ids(facts) = Left(u, facts)
      /\ u \in loaded => facts = cache[u]
      /\ Misses(u, facts) => u \notin loaded /\ facts = <<>>
      /\ ~Misses(u, facts) => facts = Facts(u)
  BY <1>1, Readings
<1>4. \A v \in User : /\ cache'[v] = IF v = u THEN facts ELSE cache[v]
                      /\ kept'[v] = IF v = u THEN Left(u, facts) ELSE kept[v]
  BY <1>1, <1>2
<1>5. ASSUME NEW v \in User PROVE UserOK(v)'
  <2>1. /\ List(cache[v], made)
        /\ List(disk[v], made)
        /\ v \notin loaded => cache[v] = <<>>
        /\ v \in loaded \ dirty =>
             IF v \in misread THEN cache[v] = <<>>
                              ELSE disk[v] = cache[v]
        /\ Ids(Facts(v)) = kept[v]
        /\ Ids(disk[v]) = filed[v]
    BY <1>2 DEF UserOK
  <2>2. CASE v = u
    <3>1. cache'[v] = facts /\ kept'[v] = Ids(facts) /\ v \in loaded'
      BY <1>1, <1>3, <1>4, <2>2
    <3>2. v \in loaded' \ dirty' =>
            IF v \in misread' THEN cache'[v] = <<>> ELSE disk'[v] = cache'[v]
      <4>1. CASE Misses(u, facts)
        BY <4>1, <3>1, <2>2, <1>1, <1>3
      <4>2. CASE ~Misses(u, facts) /\ u \in loaded
        BY <4>2, <3>1, <2>1, <2>2, <1>1, <1>3
      <4>3. CASE ~Misses(u, facts) /\ u \notin loaded
        BY <4>3, <3>1, <2>2, <1>1, <1>2, <1>3 DEF Facts
      <4> QED BY <4>1, <4>2, <4>3
    <3> QED BY <3>1, <3>2, <2>1, <1>3 DEF UserOK, Facts, List, Good
  <2>3. CASE v # u
    <3>1. cache'[v] = cache[v] /\ kept'[v] = kept[v]
      BY <2>3, <1>4
    <3>2. (v \in loaded' <=> v \in loaded) /\ (v \in misread' <=> v \in misread)
      BY <2>3, <1>1
    <3> QED BY <3>1, <3>2, <2>1 DEF UserOK, Facts, List, Good
  <2> QED BY <2>2, <2>3
<1>6. /\ made' \in Nat /\ loaded' \subseteq User /\ dirty' \subseteq loaded'
      /\ misread' \subseteq loaded' \ dirty' /\ limit' \in Limits
  BY <1>1, <1>2, <1>3
<1>7. /\ cache' = [v \in User |-> cache'[v]]
      /\ disk' = [v \in User |-> disk'[v]]
      /\ kept' = [v \in User |-> kept'[v]]
      /\ filed' = [v \in User |-> filed'[v]]
  BY <1>1 DEF StoreOK
<1>8. StoreOK'
  BY <1>5, <1>6, <1>7 DEF StoreOK
<1>9. ASSUME NEW v \in loaded PROVE cache'[v] = cache[v]
  BY <1>2, <1>3, <1>4
<1> QED BY <1>4, <1>8, <1>9

\* The written lists are on the disk.
LEMMA StoreFlushes ==
  ASSUME StoreOK, NEW bad \in SUBSET dirty, FlushAll(bad),
         UNCHANGED <<loaded, cache, limit, made, kept, misread>>
  PROVE  StoreOK'
<1>1. /\ dirty' = bad
      /\ disk' = [u \in User |-> IF u \in dirty \ bad THEN cache[u]
                                                      ELSE disk[u]]
      /\ filed' = [u \in User |-> IF u \in dirty \ bad THEN kept[u]
                                                       ELSE filed[u]]
  BY DEF FlushAll
<1>2. ASSUME NEW v \in User PROVE UserOK(v)'
  <2>1. /\ UserOK(v) /\ dirty \subseteq loaded
        /\ misread \subseteq loaded \ dirty
    BY DEF StoreOK
  <2>2. CASE v \in dirty \ bad
    <3>1. /\ disk'[v] = cache[v] /\ filed'[v] = kept[v] /\ v \in loaded
          /\ v \notin misread'
      BY <1>1, <2>1, <2>2
    <3> QED BY <3>1, <2>1, <2>2 DEF UserOK, Facts, List, Good
  <2>3. CASE v \notin dirty \ bad
    <3>1. disk'[v] = disk[v] /\ filed'[v] = filed[v]
      BY <1>1, <2>3
    <3>2. v \notin dirty' => v \notin dirty
      BY <1>1, <2>3
    <3> QED BY <3>1, <3>2, <2>1 DEF UserOK, Facts, List, Good
  <2> QED BY <2>2, <2>3
<1>3. /\ made' \in Nat /\ loaded' \subseteq User /\ dirty' \subseteq loaded'
      /\ misread' \subseteq loaded' \ dirty' /\ limit' \in Limits
  BY <1>1 DEF StoreOK
<1>4. /\ cache' = [v \in User |-> cache'[v]]
      /\ disk' = [v \in User |-> disk'[v]]
      /\ kept' = [v \in User |-> kept'[v]]
      /\ filed' = [v \in User |-> filed'[v]]
  BY <1>1 DEF StoreOK
<1> QED BY <1>2, <1>3, <1>4 DEF StoreOK

\* Writes are counted: there are finitely many dirty users.
LEMMA FailuresCounted ==
  ASSUME StoreOK, failed \in Nat, NEW bad \in SUBSET dirty, FlushAll(bad)
  PROVE  failed' \in Nat
<1>1. bad \subseteq User
  BY DEF StoreOK
<1>2. IsFiniteSet(bad)
  BY <1>1, FS_Subset, MemoryAssumption
<1>3. Cardinality(bad) \in Nat
  BY <1>2, FS_CardinalityType
<1> QED BY <1>3 DEF FlushAll

\* Lists in the cache have a length.
LEMMA LengthsKnown ==
  ASSUME StoreOK
  PROVE  \A u \in loaded : Len(cache[u]) \in Nat
BY ListParts DEF StoreOK, UserOK

-----------------------------------------------------------------------------
(* The steps *)

\* A fact is added to the list of u, as a load found it.
LEMMA FactAdded ==
  ASSUME StoreOK, ShownOK, NEW u \in User, NEW l \in Readable(u), NEW t \in Text,
         AddFact(u, l, t), loaded' = loaded \union {u}
  PROVE  StoreOK' /\ ShownOK'
<1> DEFINE m == Added(l, t)
<1>1. /\ made \in Nat /\ limit \in Nat
      /\ \A v \in User : UserOK(v)
      /\ cache = [v \in User |-> cache[v]]
      /\ kept = [v \in User |-> kept[v]]
      /\ loaded \subseteq User
  BY LimitKnown DEF StoreOK
<1>2. /\ List(l, made) /\ Ids(l) = Left(u, l)
      /\ u \in loaded => l = cache[u]
  BY Readings
<1>3. /\ List(m, made + 1)
      /\ Ids(m) = (Ids(l) \ Past(l, t)) \union (Ids(m) \ 1..made)
      /\ Past(l, t) = {} => Extends(l, m)
      /\ Past(l, t) # {} =>
           /\ limit <= Len(l)
           /\ Len(m) = limit
           /\ \A i \in 1..limit : m[i] = l[i]
  BY <1>1, <1>2, AddedFacts
<1>4. /\ made' = IF made + 1 \in Ids(m) THEN made + 1 ELSE made
      /\ Changed(u, m)
      /\ kept' = [kept EXCEPT ![u] =
                    (Left(u, l) \ Past(l, t)) \union (Ids(m) \ 1..made)]
      /\ shown' = IF Past(l, t) = {} THEN shown
                  ELSE [c \in DOMAIN shown |->
                          IF shown[c].of = u
                          THEN [shown[c] EXCEPT !.ids = Cut(shown[c].ids)]
                          ELSE shown[c]]
  BY DEF AddFact
<1> HIDE DEF m
<1>5. kept' = [kept EXCEPT ![u] = Ids(m)]
  BY <1>2, <1>3, <1>4
<1>6. made' \in {made, made + 1} /\ List(m, made')
  BY <1>1, <1>3, <1>4, Forgets
<1>7. StoreOK'
  BY <1>4, <1>5, <1>6, StoreChanges
<1>8. \A v \in User : cache'[v] = IF v = u THEN m ELSE cache[v]
  BY <1>1, <1>4 DEF Changed
<1>9. CASE Past(l, t) = {}
  <2>1. ASSUME NEW v \in loaded PROVE Extends(cache[v], cache'[v])
    <3>1. CASE v = u
      BY <1>2, <1>3, <1>8, <1>9, <3>1
    <3>2. CASE v # u
      <4>1. cache'[v] = cache[v] /\ List(cache[v], made)
        BY <3>2, <1>1, <1>8 DEF UserOK
      <4> QED BY <4>1, <1>1, ExtendsItself
    <3> QED BY <3>1, <3>2
  <2>2. \A v \in loaded : Len(cache[v]) \in Nat /\ Len(cache'[v]) \in Nat
    BY <1>7, LengthsKnown
  <2>3. shown' = shown /\ loaded \subseteq loaded'
    BY <1>4, <1>9
  <2> QED BY <1>7, <2>1, <2>2, <2>3, ShownStays
<1>10. CASE Past(l, t) # {}
  <2>1. /\ \A c \in DOMAIN shown : shown[c] \in [of : User, ids : Seq(Nat)]
        /\ DOMAIN shown \subseteq Session
        /\ \A c \in DOMAIN shown :
             shown[c].of \in loaded /\ StillThere(shown[c].ids, cache[shown[c].of])
    BY DEF ShownOK, IndexesHold
  <2>2. /\ DOMAIN shown' = DOMAIN shown
        /\ shown' = [c \in DOMAIN shown |-> shown'[c]]
        /\ \A c \in DOMAIN shown :
             shown'[c] = IF shown[c].of = u
                         THEN [shown[c] EXCEPT !.ids = Cut(shown[c].ids)]
                         ELSE shown[c]
    BY <1>4, <1>10
  <2>3. ASSUME NEW c \in DOMAIN shown
        PROVE  /\ shown'[c] \in [of : User, ids : Seq(Nat)]
               /\ shown'[c].of \in loaded'
               /\ StillThere(shown'[c].ids, cache'[shown'[c].of])
    <3>1. CASE shown[c].of = u
      <4> DEFINE k == shown[c].ids
      <4>1. k \in Seq(Nat) /\ shown[c] \in [of : User, ids : Seq(Nat)]
        BY <2>1
      <4>2. StillThere(k, l) /\ u \in loaded
        BY <2>1, <3>1, <1>2
      <4>3. shown'[c] = [shown[c] EXCEPT !.ids = Cut(k)]
        BY <2>2, <3>1
      <4> HIDE DEF k
      <4>4. /\ Cut(k) \in Seq(Nat)
            /\ Len(Cut(k)) <= limit /\ Len(Cut(k)) <= Len(k)
            /\ \A i \in 1..Len(Cut(k)) : Cut(k)[i] = k[i]
        BY <4>1, <1>1, CutIds
      <4> DEFINE q == Cut(k)
      <4> HIDE DEF q
      <4>5. Len(q) \in Nat /\ Len(k) \in Nat /\ Len(l) \in Nat
        BY <4>1, <4>4, <1>1, <1>2, ListParts, LenProperties DEF q
      <4>6. StillThere(q, m)
        BY <4>2, <4>4, <4>5, <1>1, <1>3, <1>10 DEF StillThere, q
      <4>7. /\ shown'[c] \in [of : User, ids : Seq(Nat)]
            /\ shown'[c].of = u /\ shown'[c].ids = q
        BY <4>1, <4>3, <4>4, <3>1 DEF q
      <4> QED BY <4>2, <4>6, <4>7, <1>8
    <3>2. CASE shown[c].of # u
      <4>1. shown'[c] = shown[c] /\ shown[c].of \in loaded
        BY <3>2, <2>1, <2>2
      <4>2. shown[c].of \in User /\ shown[c].of \in loaded'
        BY <4>1, <1>1
      <4>3. cache'[shown[c].of] = cache[shown[c].of]
        BY <3>2, <4>2, <1>8
      <4> QED BY <4>1, <4>2, <4>3, <2>1
    <3> QED BY <3>1, <3>2
  <2>4. IndexesHold'
    BY <2>2, <2>3 DEF IndexesHold, StillThere
  <2>5. /\ shown' \in [DOMAIN shown' -> [of : User, ids : Seq(Nat)]]
        /\ DOMAIN shown' \subseteq Session
    BY <2>1, <2>2, <2>3
  <2> QED BY <1>7, <2>4, <2>5 DEF ShownOK
<1> QED BY <1>7, <1>9, <1>10

\* A step that leaves the store alone.
LEMMA StoreUntouched ==
  ASSUME IInv, UNCHANGED <<memoryVars, made, historyVars>>, limit' \in Limits
  PROVE  StoreOK' /\ ShownOK'
<1>1. StoreOK'
  BY StoreStays DEF IInv, historyVars
<1>2. ShownOK'
  BY ShownSame DEF IInv, historyVars, memoryVars
<1> QED BY <1>1, <1>2

\* A conversation is shown nothing, or more.
LEMMA ShownDrops ==
  ASSUME ShownOK, NEW S, shown' = Without(shown, S), loaded' = loaded,
         \A c \in DOMAIN shown \ S : cache'[shown[c].of] = cache[shown[c].of]
  PROVE  ShownOK'
<1>1. /\ DOMAIN shown' = DOMAIN shown \ S
      /\ \A c \in DOMAIN shown' : shown'[c] = shown[c]
      /\ shown' = [c \in DOMAIN shown' |-> shown'[c]]
  BY DEF Without
<1>2. /\ \A c \in DOMAIN shown : shown[c] \in [of : User, ids : Seq(Nat)]
      /\ DOMAIN shown \subseteq Session
  BY DEF ShownOK
<1>3. /\ shown' \in [DOMAIN shown' -> [of : User, ids : Seq(Nat)]]
      /\ DOMAIN shown' \subseteq Session
  BY <1>1, <1>2
<1>4. ASSUME NEW c \in DOMAIN shown'
      PROVE  /\ shown'[c].of \in loaded'
             /\ StillThere(shown'[c].ids, cache'[shown'[c].of])
  <2>1. /\ shown[c].of \in loaded
        /\ StillThere(shown[c].ids, cache[shown[c].of])
    BY <1>1 DEF ShownOK, IndexesHold
  <2> QED BY <2>1, <1>1
<1>5. IndexesHold'
  BY <1>4 DEF IndexesHold, StillThere
<1> QED BY <1>3, <1>5 DEF ShownOK

LEMMA BeginStep ==
  ASSUME IInv, NEW s \in Session, NEW u \in User, Begin(s, u)
  PROVE  IInv'
<1>1. /\ sender' = With(sender, s, u)
      /\ UNCHANGED <<dirty, disk, limit, applying, resumed, phase, made, boots, filed>>
  BY DEF Begin
<1>2. ASSUME failed' \in Nat PROVE TaskOK'
  <2>1. /\ DOMAIN sender' = DOMAIN sender \union {s}
        /\ sender' \in [DOMAIN sender' -> User]
    BY <1>1 DEF With, IInv, TaskOK
  <2> QED BY <2>1, <1>1, <1>2 DEF IInv, TaskOK
<1>3. failed \in Nat /\ StoreOK /\ ShownOK /\ limit \in Limits
  BY DEF IInv, TaskOK, StoreOK
<1>4. CASE s \in resumed
  <2>1. UNCHANGED <<memoryVars, made, failed, historyVars>> /\ limit' \in Limits
    BY <1>1, <1>3, <1>4 DEF Begin, memoryVars, historyVars
  <2> QED BY <2>1, <1>2, <1>3, StoreUntouched DEF IInv
<1>5. ASSUME NEW facts \in Readable(u), Load(u, facts),
             shown' = With(shown, s, [of |-> u, ids |-> IdList(Shown(facts))])
      PROVE  IInv'
  <2>1. /\ StoreOK'
        /\ \A v \in loaded : cache'[v] = cache[v]
        /\ cache'[u] = facts
    BY <1>1, <1>3, <1>5, StoreLoads
  <2>2. loaded' = loaded \union {u} /\ failed' \in Nat
    BY <1>3, <1>5 DEF Load, Failures
  <2>3. List(facts, made) /\ made \in Nat
    BY <1>3, Readings DEF StoreOK
  <2> DEFINE r == [of |-> u, ids |-> IdList(Shown(facts))]
  <2>4. r \in [of : User, ids : Seq(Nat)] /\ StillThere(r.ids, facts)
    BY <2>3, ShownFacts
  <2>5. r.of = u
    OBVIOUS
  <2> HIDE DEF r
  <2>6. /\ DOMAIN shown' = DOMAIN shown \union {s}
        /\ \A c \in DOMAIN shown' : shown'[c] = IF c = s THEN r ELSE shown[c]
        /\ shown' = [c \in DOMAIN shown' |-> shown'[c]]
    BY <1>5 DEF With, r
  <2>7. /\ \A c \in DOMAIN shown : shown[c] \in [of : User, ids : Seq(Nat)]
        /\ DOMAIN shown \subseteq Session
    BY <1>3 DEF ShownOK
  <2>8. /\ shown' \in [DOMAIN shown' -> [of : User, ids : Seq(Nat)]]
        /\ DOMAIN shown' \subseteq Session
    BY <2>4, <2>6, <2>7
  <2>9. ASSUME NEW c \in DOMAIN shown'
        PROVE  /\ shown'[c].of \in loaded'
               /\ StillThere(shown'[c].ids, cache'[shown'[c].of])
    <3>1. CASE c = s
      <4>1. shown'[c] = r
        BY <3>1, <2>6
      <4> QED BY <4>1, <2>1, <2>2, <2>4, <2>5
    <3>2. CASE c # s
      <4>1. shown'[c] = shown[c] /\ c \in DOMAIN shown
        BY <3>2, <2>6
      <4>2. /\ shown[c].of \in loaded
            /\ StillThere(shown[c].ids, cache[shown[c].of])
        BY <4>1, <1>3 DEF ShownOK, IndexesHold
      <4> QED BY <4>1, <4>2, <2>1, <2>2
    <3> QED BY <3>1, <3>2
  <2>10. IndexesHold'
    BY <2>9 DEF IndexesHold, StillThere
  <2> QED BY <1>2, <2>1, <2>2, <2>8, <2>10 DEF IInv, ShownOK
<1>6. CASE LoadFails(u) /\ shown' = Without(shown, {s}) /\ s \notin resumed
  <2>1. /\ UNCHANGED <<memoryVars, made, kept, filed, misread>>
        /\ limit' \in Limits /\ failed' \in Nat
    BY <1>1, <1>3, <1>6 DEF LoadFails, memoryVars
  <2>2. StoreOK'
    BY <2>1, <1>3, StoreStays
  <2>3. ShownOK'
    BY <1>3, <1>6, <2>1, ShownDrops DEF memoryVars
  <2> QED BY <1>2, <2>1, <2>2, <2>3 DEF IInv
<1> QED BY <1>4, <1>5, <1>6 DEF Begin

LEMMA AddStep ==
  ASSUME IInv, NEW s \in Session, AddOp(s)
  PROVE  IInv'
<1> DEFINE u == sender[s]
<1>1. PICK t \in Text : AddFact(u, cache[u], t)
  BY DEF AddOp
<1>2. u \in loaded
  BY DEF AddOp
<1> HIDE DEF u
<1>3. /\ u \in User /\ cache[u] \in Readable(u) /\ loaded' = loaded \union {u}
  BY <1>2 DEF IInv, StoreOK, Facts, Readable, AddOp
<1>4. StoreOK' /\ ShownOK'
  BY <1>1, <1>3, FactAdded DEF IInv
<1>5. TaskOK'
  BY DEF AddOp, taskVars, IInv, TaskOK
<1> QED BY <1>4, <1>5 DEF IInv

LEMMA RememberStep ==
  ASSUME IInv, NEW u \in User, Remember(u)
  PROVE  IInv'
<1>1. PICK facts \in Readable(u), t \in Text :
        AddFact(u, facts, t) /\ failed' = Failures(u, facts)
  BY DEF Remember
<1>2. loaded' = loaded \union {u}
  BY DEF Remember
<1>3. StoreOK' /\ ShownOK'
  BY <1>1, <1>2, FactAdded DEF IInv
<1>4. failed' \in Nat
  BY <1>1 DEF Failures, IInv, TaskOK
<1>5. TaskOK'
  BY <1>4 DEF Remember, taskVars, IInv, TaskOK
<1> QED BY <1>3, <1>5 DEF IInv

\* A user with a fact in the cache is loaded.
LEMMA InCache ==
  ASSUME StoreOK, NEW u \in User, NEW i \in DOMAIN cache[u]
  PROVE  u \in loaded /\ List(cache[u], made) /\ Ids(cache[u]) = kept[u]
<1>1. UserOK(u)
  BY DEF StoreOK
<1>2. u \in loaded
  BY <1>1 DEF UserOK
<1> QED BY <1>1, <1>2 DEF UserOK, Facts

\* The session whose operations are applied has a sender.
LEMMA ApplyingSender ==
  ASSUME TaskOK, NEW s \in Session, applying = s
  PROVE  sender[s] \in User
<1>1. s # NoOne
  BY MemoryAssumption
<1>2. s \in DOMAIN sender
  BY <1>1 DEF TaskOK
<1>3. \A c \in DOMAIN sender : sender[c] \in User
  BY DEF TaskOK
<1> QED BY <1>2, <1>3

LEMMA ReplaceStep ==
  ASSUME IInv, NEW s \in Session, ReplaceOp(s)
  PROVE  IInv'
<1> DEFINE u == sender[s]
<1>1. PICK i \in DOMAIN cache[u], t \in Text :
        Changed(u, [cache[u] EXCEPT ![i].text = t])
  BY DEF ReplaceOp
<1>2. u \in User
  BY ApplyingSender DEF ReplaceOp, IInv
<1> HIDE DEF u
<1> DEFINE m == [cache[u] EXCEPT ![i].text = t]
<1>3. u \in loaded /\ List(cache[u], made) /\ Ids(cache[u]) = kept[u]
  BY <1>1, <1>2, InCache DEF IInv
<1>4. /\ made \in Nat
      /\ cache = [v \in User |-> cache[v]]
      /\ kept = [v \in User |-> kept[v]]
      /\ loaded \subseteq User
      /\ \A v \in User : UserOK(v)
  BY DEF IInv, StoreOK
<1>5. List(m, made) /\ Ids(m) = Ids(cache[u]) /\ Rewritten(cache[u], m)
  BY <1>1, <1>3, <1>4, RewrittenFacts
<1>6. Changed(u, m)
  BY <1>1
<1> HIDE DEF m
<1>7. loaded' = loaded /\ made' = made /\ kept' = kept /\ shown' = shown
  BY DEF ReplaceOp, boundVars
<1>8. kept' = [kept EXCEPT ![u] = Ids(m)]
  BY <1>3, <1>4, <1>5, <1>7
<1>9. StoreOK'
  BY <1>2, <1>3, <1>5, <1>6, <1>7, <1>8, StoreChanges DEF IInv
<1>10. ShownOK'
  <2>1. \A v \in loaded : Len(cache[v]) \in Nat
    BY LengthsKnown DEF IInv
  <2>2. \A v \in loaded : Len(cache'[v]) \in Nat
    BY <1>7, <1>9, LengthsKnown
  <2>3. ASSUME NEW v \in loaded PROVE Extends(cache[v], cache'[v])
    <3>1. cache' = [cache EXCEPT ![u] = m]
      BY <1>6 DEF Changed
    <3>2. List(cache[v], made)
      BY <1>4 DEF UserOK
    <3>3. CASE v = u
      <4>1. cache'[u] = m
        BY <3>1, <1>2, <1>4
      <4>2. Extends(cache[u], m)
        BY <1>3, <1>4, <1>5, RewrittenExtends
      <4> QED BY <4>1, <4>2, <3>3
    <3>4. CASE v # u
      <4>1. cache'[v] = cache[v]
        BY <3>1, <3>4, <1>4
      <4> QED BY <4>1, <3>2, <1>4, ExtendsItself
    <3> QED BY <3>3, <3>4
  <2> QED BY <1>7, <2>1, <2>2, <2>3, ShownStays DEF IInv
<1>11. TaskOK'
  BY DEF ReplaceOp, taskVars, boundVars, IInv, TaskOK
<1> QED BY <1>9, <1>10, <1>11 DEF IInv

LEMMA ForgetStep ==
  ASSUME IInv, NEW s \in Session, ForgetOp(s)
  PROVE  IInv'
<1> DEFINE u == sender[s]
<1>1. PICK i \in DOMAIN cache[u] : ForgetFact(u, i)
  BY DEF ForgetOp
<1>2. u \in User
  BY ApplyingSender DEF ForgetOp, IInv
<1> HIDE DEF u
<1> DEFINE m == RemoveAt(cache[u], i)
<1>3. u \in loaded /\ List(cache[u], made) /\ Ids(cache[u]) = kept[u]
  BY <1>1, <1>2, InCache DEF IInv
<1>4. /\ made \in Nat
      /\ cache = [v \in User |-> cache[v]]
      /\ kept = [v \in User |-> kept[v]]
      /\ loaded \subseteq User
  BY DEF IInv, StoreOK
<1>5. List(m, made) /\ Ids(m) = Ids(cache[u]) \ {cache[u][i].id}
  BY <1>1, <1>3, <1>4, RemovedFacts
<1>6. /\ Changed(u, m)
      /\ kept' = [kept EXCEPT ![u] = @ \ {cache[u][i].id}]
      /\ shown' = Without(shown, {c \in DOMAIN shown : shown[c].of = u})
  BY <1>1 DEF ForgetFact
<1> HIDE DEF m
<1>7. loaded' = loaded /\ made' = made
  BY DEF ForgetOp, boundVars
<1>8. kept' = [kept EXCEPT ![u] = Ids(m)]
  BY <1>3, <1>4, <1>5, <1>6
<1>9. StoreOK'
  BY <1>2, <1>3, <1>5, <1>6, <1>7, <1>8, StoreChanges DEF IInv
<1>10. ShownOK'
  <2>1. \A c \in DOMAIN shown : shown[c].of # u =>
          cache'[shown[c].of] = cache[shown[c].of]
    BY <1>4, <1>6 DEF Changed, IInv, ShownOK, IndexesHold
  <2>2. \A c \in DOMAIN shown \ {d \in DOMAIN shown : shown[d].of = u} :
          cache'[shown[c].of] = cache[shown[c].of]
    BY <2>1
  <2> QED BY <2>2, <1>6, <1>7, ShownDrops DEF IInv
<1>11. TaskOK'
  BY DEF ForgetOp, taskVars, boundVars, IInv, TaskOK
<1> QED BY <1>9, <1>10, <1>11 DEF IInv

\* Debounce and Shutdown flush.
LEMMA FlushStep ==
  ASSUME IInv, NEW bad \in SUBSET dirty, FlushAll(bad),
         phase' \in {"up", "flushed"},
         UNCHANGED <<loaded, cache, limit, taskVars, made, boots, shown, kept,
                     misread>>
  PROVE  IInv'
<1>1. StoreOK'
  BY StoreFlushes DEF IInv
<1>2. ShownOK'
  BY ShownSame DEF IInv
<1>3. failed' \in Nat
  BY FailuresCounted DEF IInv, TaskOK
<1>4. TaskOK'
  BY <1>3 DEF taskVars, IInv, TaskOK
<1> QED BY <1>1, <1>2, <1>4 DEF IInv

LEMMA RestartStep ==
  ASSUME IInv, Restart
  PROVE  IInv'
<1>1. ASSUME NEW v \in User PROVE UserOK(v)'
  <2>1. /\ loaded' = {} /\ dirty' = {}
        /\ cache'[v] = <<>>
        /\ disk' = disk /\ filed' = filed /\ kept' = filed /\ made' = made
    BY DEF Restart
  <2>2. made \in Nat /\ List(disk[v], made) /\ Ids(disk[v]) = filed[v]
    BY DEF IInv, StoreOK, UserOK
  <2>3. List(<<>>, made)
    BY <2>2, EmptyList
  <2> QED BY <2>1, <2>2, <2>3 DEF UserOK, Facts, List, Good
<1>2. StoreOK'
  <2>1. /\ made' \in Nat /\ loaded' \subseteq User /\ dirty' \subseteq loaded'
        /\ misread' \subseteq loaded' \ dirty' /\ limit' \in Limits
    BY DEF Restart, IInv, StoreOK
  <2>2. /\ cache' = [v \in User |-> cache'[v]]
        /\ disk' = [v \in User |-> disk'[v]]
        /\ kept' = [v \in User |-> kept'[v]]
        /\ filed' = [v \in User |-> filed'[v]]
    BY DEF Restart, IInv, StoreOK
  <2> QED BY <1>1, <2>1, <2>2 DEF StoreOK
<1>3. TaskOK'
  BY DEF Restart, IInv, TaskOK
<1>4. ShownOK'
  BY DEF Restart, ShownOK, IndexesHold
<1> QED BY <1>2, <1>3, <1>4 DEF IInv

\* Every step keeps the invariant.
THEOREM Inductive == IInv /\ [Next]_vars => IInv'
<1> SUFFICES ASSUME IInv, [Next]_vars PROVE IInv'
  OBVIOUS
<1> USE DEF IInv
<1>1. ASSUME NEW s \in Session, Worker(s) PROVE IInv'
  <2>1. CASE \E u \in User : Begin(s, u)
    BY <2>1, BeginStep
  <2>2. CASE Answer(s)
    <3>1. StoreOK' /\ ShownOK'
      BY <2>2, StoreUntouched DEF Answer, boundVars, StoreOK
    <3>2. TaskOK'
      BY <2>2 DEF Answer, boundVars, TaskOK
    <3> QED BY <3>1, <3>2
  <2>3. CASE Operation(s)
    BY <2>3, AddStep, ReplaceStep, ForgetStep DEF Operation
  <2>4. CASE Applied(s) \/ Fail(s)
    <3>1. StoreOK' /\ ShownOK'
      BY <2>4, StoreUntouched DEF Applied, Fail, boundVars, StoreOK
    <3>2. /\ sender' = Without(sender, {s})
          /\ UNCHANGED <<phase, failed, boots>>
          /\ resumed' \subseteq Session
          /\ applying' = NoOne
      BY <2>4 DEF Applied, Fail, Free, boundVars, TaskOK
    <3>3. /\ DOMAIN sender' \subseteq DOMAIN sender
          /\ sender' \in [DOMAIN sender' -> User]
      BY <3>2 DEF Without, TaskOK
    <3> QED BY <3>1, <3>2, <3>3 DEF TaskOK
  <2>5. CASE New(s)
    <3>1. StoreOK' /\ ShownOK'
      BY <2>5, StoreUntouched DEF New, boundVars, StoreOK
    <3>2. TaskOK'
      BY <2>5 DEF New, boundVars, TaskOK
    <3> QED BY <3>1, <3>2
  <2> QED BY <1>1, <2>1, <2>2, <2>3, <2>4, <2>5 DEF Worker
<1>2. ASSUME NEW u \in User, Remember(u) PROVE IInv'
  BY <1>2, RememberStep
<1>3. CASE Debounce
  BY <1>3, FlushStep DEF Debounce, Failing, TaskOK
<1>4. CASE Shutdown
  BY <1>4, FlushStep DEF Shutdown, Failing
<1>5. CASE Restart
  BY <1>5, RestartStep
<1>6. CASE UNCHANGED vars
  <2>1. StoreOK' /\ ShownOK'
    BY <1>6, StoreUntouched DEF vars, boundVars, StoreOK
  <2>2. TaskOK'
    BY <1>6 DEF vars, taskVars, boundVars, TaskOK
  <2> QED BY <2>1, <2>2
<1>7. ASSUME NEW n \in Limits, Reload(n) PROVE IInv'
  <2>1. StoreOK' /\ ShownOK'
    BY <1>7, StoreUntouched DEF Reload, boundVars
  <2>2. TaskOK'
    BY <1>7 DEF Reload, taskVars, boundVars, TaskOK
  <2> QED BY <2>1, <2>2
<1> QED BY <1>1, <1>2, <1>3, <1>4, <1>5, <1>6, <1>7 DEF Next

\* What was accepted is kept until it is forgotten, an addition finds its place
\* past a lowered limit, or its file cannot be read: over merges, a full
\* memory, loads, failing writes and restarts (MemoryManager.add_fact,
\* replace_fact, forget_fact, load, flush_all).
THEOREM Remembers == Spec => []MemoryInv
<1>1. Init => IInv
  BY InitOK
<1>2. IInv => MemoryInv
  BY Covers
<1> QED BY <1>1, <1>2, Inductive, PTL DEF Spec

\* The index an agent was shown with a fact stays that fact's until a fact
\* of the same user is forgotten, or past a lowered limit until one is added
\* (worker.py, the <memory> operations).
THEOREM IndexesStay == Spec => []IndexesHold
<1>1. Init => IInv
  BY InitOK
<1>2. IInv => IndexesHold
  BY Covers
<1> QED BY <1>1, <1>2, Inductive, PTL DEF Spec

-----------------------------------------------------------------------------
(* The memory implements FactStore: what is remembered is what a load      *)
(* would return.                                                           *)

Remembered == [u \in User |-> Facts(u)]

\* A step that neither changes a list nor the limit, nor writes.
LEMMA Unnoticed ==
  ASSUME disk' = disk, limit' = limit, \A v \in User : Facts(v)' = Facts(v)
  PROVE  UNCHANGED Store!vars
BY DEF Store!vars

\* A load shows only when the file cannot be read.
LEMMA LoadMaps ==
  ASSUME StoreOK, NEW u \in User, NEW facts, Load(u, facts),
         disk' = disk, limit' = limit
  PROVE  Store!Next \/ UNCHANGED Store!vars
<1>1. /\ loaded' = loaded \union {u}
      /\ cache' = [cache EXCEPT ![u] = facts]
      /\ facts \in Readable(u)
  BY DEF Load
<1>2. cache = [v \in User |-> cache[v]]
  BY DEF StoreOK
<1>3. ASSUME NEW v \in User
      PROVE  Facts(v)' = IF v = u THEN facts ELSE Facts(v)
  <2>1. cache'[v] = IF v = u THEN facts ELSE cache[v]
    BY <1>1, <1>2
  <2> QED BY <2>1, <1>1 DEF Facts
<1>4. CASE ~Misses(u, facts)
  <2>1. facts = Facts(u)
    BY <1>1, <1>4, Readings
  <2> QED BY <2>1, <1>3, Unnoticed
<1>5. CASE Misses(u, facts)
  <2>1. facts = <<>> /\ u \notin loaded
    BY <1>1, <1>5, Readings
  <2>2. Remembered' = [Remembered EXCEPT ![u] = <<>>]
    BY <1>3, <2>1 DEF Remembered
  <2>3. Remembered[u] = disk[u]
    BY <2>1 DEF Facts, Remembered
  <2>4. Store!Miss(u)
    BY <2>2, <2>3 DEF Store!Miss, Remembered
  <2> QED BY <2>4 DEF Store!Next
<1> QED BY <1>4, <1>5

\* The list of one user becomes m.
LEMMA OneListChanges ==
  ASSUME StoreOK, NEW u \in User, NEW m, Changed(u, m),
         loaded' = loaded \union {u}
  PROVE  disk' = disk /\ limit' = limit /\ Remembered' = [Remembered EXCEPT ![u] = m]
<1>1. cache' = [cache EXCEPT ![u] = m] /\ disk' = disk /\ limit' = limit
  BY DEF Changed
<1>2. cache = [v \in User |-> cache[v]]
  BY DEF StoreOK
<1>3. ASSUME NEW v \in User
      PROVE  Facts(v)' = IF v = u THEN m ELSE Facts(v)
  <2>1. cache'[v] = IF v = u THEN m ELSE cache[v]
    BY <1>1, <1>2
  <2> QED BY <2>1, <1>1 DEF Facts
<1>4. Remembered' = [v \in User |-> IF v = u THEN m ELSE Facts(v)]
  BY <1>3 DEF Remembered
<1> QED BY <1>1, <1>4 DEF Remembered

\* A text changes.
LEMMA RewordMaps ==
  ASSUME StoreOK, NEW u \in User, NEW i \in DOMAIN Facts(u), NEW t \in Text,
         Changed(u, [Facts(u) EXCEPT ![i].text = t]),
         loaded' = loaded \union {u}
  PROVE  Store!Reword(u)
<1> DEFINE m == [Facts(u) EXCEPT ![i].text = t]
<1>1. disk' = disk /\ limit' = limit /\ Remembered' = [Remembered EXCEPT ![u] = m]
  BY OneListChanges
<1>2. Remembered[u] = Facts(u)
  BY DEF Remembered
<1>3. Remembered' = [Remembered EXCEPT ![u][i].text = t]
  BY <1>1, <1>2
<1> QED BY <1>1, <1>2, <1>3 DEF Store!Reword, Remembered

\* A new fact finds room at the end, or the list is cut.
LEMMA LearnMaps ==
  ASSUME StoreOK, NEW u \in User, NEW l \in Readable(u), NEW t \in Text,
         NEW m, m = Cut(Append(l, [id |-> made + 1, text |-> t])),
         made + 1 \in Ids(m) => made + 1 <= MaxMade,
         Changed(u, m), loaded' = loaded \union {u}
  PROVE  Store!Next \/ UNCHANGED Store!vars
<1> DEFINE x == [id |-> made + 1, text |-> t]
<1>1. /\ made \in Nat /\ limit \in Nat
      /\ List(l, made) /\ List(disk[u], made) /\ List(Facts(u), made)
  BY Readings, LimitKnown DEF StoreOK, UserOK, Facts
<1>2. /\ disk' = disk /\ limit' = limit
      /\ Remembered' = [Remembered EXCEPT ![u] = m]
      /\ Remembered[u] = Facts(u)
  BY OneListChanges DEF Remembered
<1>3. Len(l) \in Nat
  BY <1>1, ListParts
<1>4. /\ Misses(u, l) => u \notin loaded /\ l = <<>>
      /\ ~Misses(u, l) => l = Facts(u)
  BY Readings
<1>5. l \in Store!Found(u)
  <2>1. CASE ~Misses(u, l)
    BY <2>1, <1>2, <1>4 DEF Store!Found, Remembered
  <2>2. CASE Misses(u, l)
    <3>1. l = <<>> /\ Remembered[u] = disk[u]
      BY <2>2, <1>4 DEF Remembered, Facts
    <3> QED BY <3>1 DEF Store!Found, Remembered
  <2> QED BY <2>1, <2>2
<1>6. CASE Len(l) < limit
  <2>1. m = Append(l, x) /\ made + 1 \in Ids(m)
    <3> DEFINE y == Append(l, x)
    <3>1. m = Cut(y)
      OBVIOUS
    <3>2. Cut(y) = y /\ Ids(y) = Ids(l) \union {made + 1}
      BY <1>1, <1>6, AppendedFacts
    <3> HIDE DEF y
    <3>3. m = y /\ made + 1 \in Ids(m)
      BY ONLY <3>1, <3>2
    <3> QED BY <3>3 DEF y
  <2>2. made + 1 \in 1..MaxMade
    BY <2>1, <1>1, MemoryAssumption
  <2>3. \A i \in DOMAIN Facts(u) : Facts(u)[i].id # made + 1
    BY <1>1, ListParts
  <2>4. \A i \in DOMAIN disk[u] : disk[u][i].id # made + 1
    BY <1>1, ListParts
  <2>5. made + 1 \in (1..MaxMade) \ Store!Known(u)
    BY <1>2, <2>2, <2>3, <2>4 DEF Store!Known, Remembered
  <2>6. Remembered' = [Remembered EXCEPT ![u] = Append(l, [id |-> made + 1, text |-> t])]
    BY <1>2, <2>1
  <2>7. Store!Learn(u)
    BY <1>2, <1>5, <1>6, <2>5, <2>6 DEF Store!Learn, Remembered
  <2> QED BY <2>7 DEF Store!Next
<1>7. CASE ~(Len(l) < limit)
  <2>1. m = SubSeq(l, 1, limit) /\ limit \in 0..Len(l)
    BY <1>1, <1>3, <1>7, AppendedFacts
  <2>2. limit = Len(l) => m = l
    BY <2>1, <1>1, FirstFacts
  <2>3. CASE Misses(u, l)
    <3>1. l = <<>> /\ u \notin loaded
      BY <2>3, <1>4
    <3>2. m = <<>>
      BY <3>1, <2>1, <2>2
    <3>3. Store!Miss(u)
      BY <3>1, <3>2, <1>2 DEF Store!Miss, Remembered, Facts
    <3> QED BY <3>3 DEF Store!Next
  <2>4. CASE ~Misses(u, l) /\ limit = Len(l)
    <3>1. m = Facts(u)
      BY <2>2, <2>4, <1>4
    <3>2. Remembered' = Remembered
      BY <3>1, <1>2 DEF Remembered
    <3> QED BY <3>2, <1>2 DEF Store!vars, Remembered
  <2>5. CASE ~Misses(u, l) /\ limit # Len(l)
    <3>1. Len(Remembered[u]) > limit /\ l = Remembered[u]
      BY <2>1, <2>5, <1>1, <1>2, <1>3, <1>4
    <3>2. Remembered' = [Remembered EXCEPT ![u] = SubSeq(@, 1, limit)]
      BY <3>1, <2>1, <1>2
    <3>3. Store!Refuse(u)
      BY <3>1, <3>2, <1>2 DEF Store!Refuse, Remembered
    <3> QED BY <3>3 DEF Store!Next
  <2> QED BY <2>3, <2>4, <2>5
<1> QED BY <1>6, <1>7

\* add_fact: a text like one that is there replaces it.
LEMMA AddMaps ==
  ASSUME StoreOK, NEW u \in User, NEW l \in Readable(u), NEW t \in Text,
         AddFact(u, l, t), loaded' = loaded \union {u}
  PROVE  Store!Next \/ UNCHANGED Store!vars
<1>1. /\ Changed(u, Added(l, t)) /\ made' <= MaxMade
      /\ made' = IF made + 1 \in Ids(Added(l, t)) THEN made + 1 ELSE made
  BY DEF AddFact
<1>2. CASE Similar(l, t) = {}
  <2> DEFINE m == Cut(Append(l, [id |-> made + 1, text |-> t]))
  <2>1. m = Added(l, t)
    BY <1>2 DEF Added
  <2> HIDE DEF m
  <2>2. Changed(u, m) /\ (made + 1 \in Ids(m) => made + 1 <= MaxMade)
    BY <1>1, <2>1
  <2> QED BY <2>2, LearnMaps DEF m
<1>3. CASE Similar(l, t) # {}
  <2> DEFINE i == First(Similar(l, t))
  <2>1. List(l, made) /\ made \in Nat
    BY Readings DEF StoreOK
  <2>2. Similar(l, t) \in SUBSET Nat
    BY <2>1, ListParts DEF Similar
  <2>3. i \in Similar(l, t)
    BY <1>3, <2>2, LeastElement DEF First
  <2>4. i \in DOMAIN l
    BY <2>3 DEF Similar
  <2>5. l = Facts(u)
    <3>1. l # <<>>
      BY <2>4
    <3> QED BY <3>1, Readings
  <2>6. Changed(u, [Facts(u) EXCEPT ![i].text = t])
    BY <1>1, <1>3, <2>5 DEF Added
  <2> HIDE DEF i
  <2>7. Store!Reword(u)
    BY <2>4, <2>5, <2>6, RewordMaps
  <2> QED BY <2>7 DEF Store!Next
<1> QED BY <1>2, <1>3

\* A flush writes whole lists.
LEMMA FlushMaps ==
  ASSUME StoreOK, NEW bad \in SUBSET dirty, FlushAll(bad),
         UNCHANGED <<loaded, cache, limit>>
  PROVE  Store!Next
<1> DEFINE S == dirty \ bad
<1>1. S \in SUBSET User /\ S \subseteq loaded
  BY DEF StoreOK
<1>2. disk' = [v \in User |-> IF v \in S THEN cache[v] ELSE disk[v]]
  BY DEF FlushAll
<1> HIDE DEF S
<1>3. ASSUME NEW v \in User
      PROVE  /\ v \in S => cache[v] = Remembered[v]
             /\ v \notin S => Facts(v)' = Facts(v)
             /\ v \in S => Facts(v)' = Facts(v)
  <2>1. v \in loaded => Facts(v)' = Facts(v)
    BY DEF Facts
  <2>2. v \notin S => disk'[v] = disk[v]
    BY <1>2
  <2> QED BY <1>1, <2>1, <2>2 DEF Facts, Remembered
<1>4. Remembered' = Remembered
  BY <1>3 DEF Remembered
<1>5. disk' = [v \in User |-> IF v \in S THEN Remembered[v] ELSE disk[v]]
  BY <1>2, <1>3
<1>6. Store!Persist(S)
  BY <1>4, <1>5 DEF Store!Persist, Remembered
<1> QED BY <1>1, <1>6 DEF Store!Next

LEMMA RestartMaps ==
  ASSUME StoreOK, Restart
  PROVE  Store!Crash
<1>1. loaded' = {} /\ disk' = disk /\ limit' \in Nat
  BY MemoryAssumption DEF Restart
<1>2. Remembered' = [v \in User |-> disk[v]]
  BY <1>1 DEF Remembered, Facts
<1>3. disk = [v \in User |-> disk[v]]
  BY DEF StoreOK
<1> QED BY <1>1, <1>2, <1>3 DEF Store!Crash, Remembered

LEMMA StoreStep ==
  ASSUME IInv, [Next]_vars
  PROVE  [Store!Next]_Store!vars
<1>0. StoreOK /\ TaskOK
  BY DEF IInv
<1>1. ASSUME UNCHANGED <<memoryVars, limit>> PROVE UNCHANGED Store!vars
  BY <1>1, Unnoticed DEF memoryVars, Facts
<1>2. ASSUME NEW s \in Session, Worker(s)
      PROVE  Store!Next \/ UNCHANGED Store!vars
  <2>1. ASSUME NEW u \in User, Begin(s, u)
        PROVE  Store!Next \/ UNCHANGED Store!vars
    <3>1. disk' = disk /\ limit' = limit
      BY <2>1 DEF Begin
    <3>2. \/ \E facts \in Readable(u) : Load(u, facts)
          \/ loaded' = loaded /\ cache' = cache
      BY <2>1 DEF Begin, LoadFails
    <3>3. CASE \E facts \in Readable(u) : Load(u, facts)
      BY <1>0, <3>1, <3>3, LoadMaps
    <3>4. CASE loaded' = loaded /\ cache' = cache
      BY <3>1, <3>4, Unnoticed DEF Facts
    <3> QED BY <3>2, <3>3, <3>4
  <2>2. CASE Answer(s) \/ Applied(s) \/ Fail(s) \/ New(s)
    <3>1. UNCHANGED <<memoryVars, limit>>
      BY <2>2 DEF Answer, Applied, Fail, New
    <3> QED BY <3>1, <1>1
  <2>3. CASE AddOp(s)
    <3>1. sender[s] \in User /\ sender[s] \in loaded /\ loaded' = loaded
      BY <1>0, <2>3, ApplyingSender DEF AddOp
    <3>2. PICK t \in Text : AddFact(sender[s], cache[sender[s]], t)
      BY <2>3 DEF AddOp
    <3>3. cache[sender[s]] \in Readable(sender[s])
      BY <3>1 DEF Readable, Facts
    <3>4. loaded' = loaded \union {sender[s]}
      BY <3>1
    <3> QED BY <1>0, <3>1, <3>2, <3>3, <3>4, AddMaps
  <2>4. CASE ReplaceOp(s)
    <3> DEFINE u == sender[s]
    <3>1. u \in User
      BY <1>0, <2>4, ApplyingSender DEF ReplaceOp
    <3>2. PICK i \in DOMAIN cache[u], t \in Text :
            Changed(u, [cache[u] EXCEPT ![i].text = t])
      BY <2>4 DEF ReplaceOp
    <3> HIDE DEF u
    <3>3. u \in loaded
      BY <1>0, <3>1, <3>2, InCache
    <3>4. Facts(u) = cache[u] /\ loaded' = loaded \union {u}
      BY <2>4, <3>3 DEF ReplaceOp, Facts
    <3>5. Store!Reword(u)
      BY <1>0, <3>1, <3>2, <3>4, RewordMaps
    <3> QED BY <3>1, <3>5 DEF Store!Next
  <2>5. CASE ForgetOp(s)
    <3> DEFINE u == sender[s]
    <3>1. u \in User
      BY <1>0, <2>5, ApplyingSender DEF ForgetOp
    <3>2. PICK i \in DOMAIN cache[u] : ForgetFact(u, i)
      BY <2>5 DEF ForgetOp
    <3> HIDE DEF u
    <3>3. u \in loaded
      BY <1>0, <3>1, <3>2, InCache
    <3>4. /\ Facts(u) = cache[u] /\ loaded' = loaded \union {u}
          /\ Changed(u, RemoveAt(Facts(u), i)) /\ i \in DOMAIN Facts(u)
      BY <2>5, <3>2, <3>3 DEF ForgetOp, Facts, ForgetFact
    <3> DEFINE m == RemoveAt(Facts(u), i)
    <3>5. /\ disk' = disk /\ limit' = limit
          /\ Remembered' = [Remembered EXCEPT ![u] = m]
          /\ Remembered[u] = Facts(u)
      BY <1>0, <3>1, <3>4, OneListChanges DEF Remembered
    <3>6. Remembered' = [Remembered EXCEPT ![u] = Store!RemoveAt(@, i)]
      BY <3>5 DEF RemoveAt, Store!RemoveAt
    <3>7. Store!Forget(u)
      BY <3>4, <3>5, <3>6 DEF Store!Forget, Remembered
    <3> QED BY <3>1, <3>7 DEF Store!Next
  <2> QED BY <1>2, <2>1, <2>2, <2>3, <2>4, <2>5 DEF Worker, Operation
<1>3. ASSUME NEW u \in User, Remember(u)
      PROVE  Store!Next \/ UNCHANGED Store!vars
  BY <1>0, <1>3, AddMaps DEF Remember
<1>4. CASE Debounce \/ Shutdown
  BY <1>0, <1>4, FlushMaps DEF Debounce, Shutdown, Failing
<1>5. CASE Restart
  BY <1>0, <1>5, RestartMaps DEF Store!Next
<1>6. CASE UNCHANGED vars
  BY <1>6, <1>1 DEF vars
<1>7. ASSUME NEW n \in Limits, Reload(n) PROVE Store!Next
  <2>1. limit' \in Nat /\ UNCHANGED memoryVars
    BY <1>7, MemoryAssumption DEF Reload
  <2>2. Store!SetLimit
    BY <2>1 DEF memoryVars, Facts, Store!SetLimit
  <2> QED BY <2>2 DEF Store!Next
<1> QED BY <1>2, <1>3, <1>4, <1>5, <1>6, <1>7 DEF Next

\* The memory is a list of facts per user that changes one fact at a time, or
\* is cut to a lowered limit, or is gone with a file that cannot be read; no
\* other load, nor the cache, a failing write or an order of the writes shows,
\* and a crash falls back to what was written (MemoryManager).
THEOREM StoresFacts == Spec => KeepsFacts
<1>1. Init => IInv
  BY InitOK
<1>2. Init => Store!Init
  BY MemoryAssumption DEF Init, Store!Init, Facts
<1>3. IInv /\ [Next]_vars => [Store!Next]_Store!vars
  BY StoreStep
<1> QED BY <1>1, <1>2, <1>3, Inductive, PTL DEF Spec, KeepsFacts, Store!Spec

=============================================================================
