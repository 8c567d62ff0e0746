---------------------------- MODULE ReplayProofs ----------------------------
(***************************************************************************)
(* Proofs about taped replay (MCEvidence, TapedReplay): a run that         *)
(* completed is replayed along the path that was recorded.  The recorded   *)
(* run is described by the views it went through; from each of them but    *)
(* the last, the answer filed next leads a replay to another (Follows).    *)
(* The tape without the records of a view is what is left at that view, so *)
(* the next answer of a stage, of a policy or of the tools heads its queue.*)
(***************************************************************************)
EXTENDS EvidenceProofs, FiniteSetTheorems, WellFoundedInduction

-----------------------------------------------------------------------------
(* Induction, and lists *)

\* A set of numbers that is not empty has a least one.
LEMMA Least ==
  ASSUME NEW T \in SUBSET Nat, T # {}
  PROVE  \E n \in T : \A m \in T : n <= m
  <1>1. PICK n \in T : \A m \in T : ~(<<m, n>> \in OpToRel(<, Nat))
    BY NatLessThanWellFounded, WFMin
  <1>2. \A m \in T : ~(m < n)
    BY <1>1 DEF OpToRel
  <1>. QED BY <1>2

\* Induction, for the set of the numbers a statement holds of.
LEMMA Induct ==
  ASSUME NEW T, 0 \in T, \A n \in Nat : n \in T => n + 1 \in T
  PROVE  \A n \in Nat : n \in T
  <1>. SUFFICES ASSUME Nat \ T # {} PROVE FALSE
    OBVIOUS
  <1>1. PICK n \in Nat \ T : \A m \in Nat \ T : n <= m
    BY Least
  <1>2. n # 0 /\ n - 1 \in Nat /\ (n - 1) + 1 = n /\ ~(n <= n - 1)
    BY <1>1
  <1>. QED BY <1>1, <1>2

\* A sequence, whatever its elements are.
IsList(s) == \E S : s \in Seq(S)

\* The places of a list.
LEMMA ListPlaces ==
  ASSUME NEW s, IsList(s)
  PROVE  Len(s) \in Nat /\ DOMAIN s = 1..Len(s)
  BY LenProperties DEF IsList

\* The empty list.
LEMMA EmptyList == IsList(<<>>) /\ Len(<<>>) = 0 /\ DOMAIN <<>> = {}
  <1>1. <<>> \in Seq({}) /\ Len(<<>>) = 0
    BY EmptySeq
  <1>2. DOMAIN <<>> = {}
    OBVIOUS
  <1>. QED BY <1>1, <1>2 DEF IsList

\* Two lists are lists over one set.
LEMMA OneSet ==
  ASSUME NEW s, NEW t, IsList(s), IsList(t), NEW e
  PROVE  \E S : s \in Seq(S) /\ t \in Seq(S) /\ e \in S
  <1>1. PICK A : s \in Seq(A)
    BY DEF IsList
  <1>2. PICK B : t \in Seq(B)
    BY DEF IsList
  <1>3. PICK S : S = A \cup B \cup {e}
    OBVIOUS
  <1>4. A \subseteq S /\ B \subseteq S /\ e \in S
    BY <1>3
  <1>5. s \in Seq(S)
    BY <1>1, <1>4, SeqMonotonic
  <1>6. t \in Seq(S)
    BY <1>2, <1>4, SeqMonotonic
  <1>. QED BY <1>4, <1>5, <1>6

\* What appending does.
IsAppended(t, s, e) ==
  /\ IsList(t) /\ t # <<>> /\ Len(t) = Len(s) + 1 /\ t[Len(s) + 1] = e
  /\ DOMAIN t = DOMAIN s \cup {Len(s) + 1} /\ Len(s) + 1 \notin DOMAIN s
  /\ \A i \in DOMAIN s : t[i] = s[i]

\* Appending to a list is that.
LEMMA ListAppend ==
  ASSUME NEW s, IsList(s), NEW e
  PROVE  IsAppended(Append(s, e), s, e)
  <1>1. PICK S : s \in Seq(S) /\ e \in S
    BY OneSet
  <1>2. PICK t : t = Append(s, e)
    OBVIOUS
  <1>3. /\ t \in Seq(S) /\ Len(t) = Len(s) + 1 /\ t[Len(s) + 1] = e
        /\ \A i \in 1..Len(s) : t[i] = s[i]
    BY <1>1, <1>2, AppendProperties
  <1>4. IsList(t)
    BY <1>3 DEF IsList
  <1>5. Len(s) \in Nat /\ DOMAIN s = 1..Len(s) /\ DOMAIN t = 1..Len(t)
    BY <1>4, ListPlaces
  <1>6. t # <<>>
    BY <1>3, <1>5, EmptyList
  <1>7. DOMAIN t = DOMAIN s \cup {Len(s) + 1} /\ Len(s) + 1 \notin DOMAIN s
    BY <1>3, <1>5
  <1>. QED BY <1>2, <1>3, <1>4, <1>5, <1>6, <1>7 DEF IsAppended

\* Lists with equal elements are equal.
LEMMA ListEqual ==
  ASSUME NEW s, NEW t, IsList(s), IsList(t), Len(s) = Len(t), \A i \in 1..Len(s) : s[i] = t[i]
  PROVE  s = t
  <1>1. PICK S : s \in Seq(S) /\ t \in Seq(S)
    BY OneSet
  <1>. QED BY <1>1, SeqEqual

\* What joining two lists does.
LEMMA ListConcat ==
  ASSUME NEW s, NEW t, IsList(s), IsList(t)
  PROVE  /\ IsList(s \o t) /\ Len(s \o t) = Len(s) + Len(t)
         /\ \A i \in 1..(Len(s) + Len(t)) : (s \o t)[i] = IF i <= Len(s) THEN s[i] ELSE t[i - Len(s)]
  <1>1. PICK S : s \in Seq(S) /\ t \in Seq(S)
    BY OneSet
  <1>2. s \o t \in Seq(S)
    BY <1>1, ConcatProperties
  <1>3. Len(s \o t) = Len(s) + Len(t)
    BY <1>1, ConcatProperties
  <1>4. \A i \in 1..(Len(s) + Len(t)) : (s \o t)[i] = IF i <= Len(s) THEN s[i] ELSE t[i - Len(s)]
    BY <1>1, ConcatProperties
  <1>. QED BY <1>2, <1>3, <1>4 DEF IsList

\* Joining appends the elements one by one.
LEMMA ConcatOne ==
  ASSUME NEW p, NEW t, IsList(p), IsList(t), NEW e
  PROVE  /\ p \o <<>> = p
         /\ p \o Append(t, e) = Append(p \o t, e)
  <1>1. p \o <<>> = p
    BY ConcatEmptySeq DEF IsList
  <1>2. PICK u : u = Append(t, e)
    OBVIOUS
  <1>3. PICK q : q = p \o t
    OBVIOUS
  <1>4. PICK a : a = p \o u
    OBVIOUS
  <1>5. PICK b : b = Append(q, e)
    OBVIOUS
  <1>6. IsAppended(u, t, e)
    BY <1>2, ListAppend
  <1>7. /\ IsList(q) /\ Len(q) = Len(p) + Len(t)
        /\ \A i \in 1..(Len(p) + Len(t)) : q[i] = IF i <= Len(p) THEN p[i] ELSE t[i - Len(p)]
    BY <1>3, ListConcat
  <1>8. /\ IsList(a) /\ Len(a) = Len(p) + Len(u)
        /\ \A i \in 1..(Len(p) + Len(u)) : a[i] = IF i <= Len(p) THEN p[i] ELSE u[i - Len(p)]
    BY <1>4, <1>6, ListConcat DEF IsAppended
  <1>9. IsAppended(b, q, e)
    BY <1>5, <1>7, ListAppend
  <1>10. /\ Len(p) \in Nat /\ Len(t) \in Nat /\ DOMAIN t = 1..Len(t) /\ DOMAIN q = 1..Len(q)
    BY <1>7, ListPlaces
  <1>11. Len(a) = Len(p) + Len(t) + 1 /\ Len(b) = Len(p) + Len(t) + 1
    BY <1>6, <1>7, <1>8, <1>9, <1>10 DEF IsAppended
  <1>12. ASSUME NEW i \in 1..Len(a) PROVE a[i] = b[i]
    <2>1. CASE i = Len(p) + Len(t) + 1
      <3>1. a[i] = u[Len(t) + 1]
        BY <1>6, <1>8, <1>10, <1>11, <2>1 DEF IsAppended
      <3>2. b[i] = e
        BY <1>7, <1>9, <2>1 DEF IsAppended
      <3>. QED BY <1>6, <3>1, <3>2 DEF IsAppended
    <2>2. CASE i # Len(p) + Len(t) + 1
      <3>1. i \in 1..(Len(p) + Len(t))
        BY <1>10, <1>11, <2>2
      <3>2. b[i] = q[i]
        BY <1>7, <1>9, <1>10, <3>1 DEF IsAppended
      <3>3. i <= Len(p) => a[i] = p[i] /\ q[i] = p[i]
        BY <1>7, <1>8, <1>10, <1>11, <3>1
      <3>4. ~(i <= Len(p)) => a[i] = u[i - Len(p)] /\ q[i] = t[i - Len(p)] /\ i - Len(p) \in DOMAIN t
        BY <1>7, <1>8, <1>10, <1>11, <3>1
      <3>5. \A k \in DOMAIN t : u[k] = t[k]
        BY <1>6 DEF IsAppended
      <3>. QED BY <3>2, <3>3, <3>4, <3>5
    <2>. QED BY <2>1, <2>2
  <1>13. IsList(b)
    BY <1>9 DEF IsAppended
  <1>14. a = b
    BY <1>8, <1>11, <1>12, <1>13, ListEqual
  <1>. QED BY <1>1, <1>2, <1>3, <1>4, <1>5, <1>14

-----------------------------------------------------------------------------
(* Pick *)

\* f goes through s and collects the elements at the places K.
Collects(f, s, K) ==
  /\ f[0] = <<>>
  /\ \A n \in 1..Len(s) : f[n] = IF n \in K THEN Append(f[n - 1], s[n]) ELSE f[n - 1]

\* There is the function Pick is defined with.
LEMMA PickCollects ==
  ASSUME NEW s, IsList(s), NEW K
  PROVE  \E f : Collects(f, s, K) /\ Pick(s, K) = f[Len(s)]
  <1>. DEFINE Rec(g, m) == g = [n \in 0..m |-> IF n = 0 THEN <<>>
                                  ELSE IF n \in K THEN Append(g[n - 1], s[n]) ELSE g[n - 1]]
              T == {m \in Nat : \E g : Rec(g, m)}
              L == Len(s)
              f == CHOOSE g : Rec(g, L)
  <1>0. L \in Nat
    BY ListPlaces
  <1>1. 0 \in T
    <2>1. PICK g : g = [n \in 0..0 |-> <<>>]
      OBVIOUS
    <2>2. Rec(g, 0)
      BY <2>1
    <2>. QED BY <2>2
  <1>2. ASSUME NEW m \in Nat, m \in T PROVE m + 1 \in T
    <2>1. PICK g : Rec(g, m)
      BY <1>2
    <2>2. PICK x : x = IF m + 1 \in K THEN Append(g[m], s[m + 1]) ELSE g[m]
      OBVIOUS
    <2>3. PICK h : h = [n \in 0..(m + 1) |-> IF n = m + 1 THEN x ELSE g[n]]
      OBVIOUS
    <2>4. ASSUME NEW n \in 0..(m + 1)
          PROVE  h[n] = IF n = 0 THEN <<>> ELSE IF n \in K THEN Append(h[n - 1], s[n]) ELSE h[n - 1]
      <3>1. CASE n = m + 1
        <4>1. h[n] = x /\ n # 0 /\ n - 1 = m /\ h[n - 1] = g[m]
          BY <2>3, <3>1
        <4>. QED BY <2>2, <3>1, <4>1
      <3>2. CASE n # m + 1
        <4>1. n \in 0..m /\ h[n] = g[n] /\ (n # 0 => h[n - 1] = g[n - 1])
          BY <2>3, <3>2
        <4>2. g[n] = IF n = 0 THEN <<>> ELSE IF n \in K THEN Append(g[n - 1], s[n]) ELSE g[n - 1]
          BY <2>1, <4>1
        <4>. QED BY <4>1, <4>2
      <3>. QED BY <3>1, <3>2
    <2>5. h = [n \in 0..(m + 1) |-> h[n]]
      BY <2>3
    <2>6. Rec(h, m + 1)
      BY <2>4, <2>5
    <2>. QED BY <2>6
  <1>3. L \in T
    <2>. HIDE DEF T
    <2>. QED BY <1>0, <1>1, <1>2, Induct
  <1>4. Rec(f, L)
    BY <1>3
  <1>5. Pick(s, K) = f[L]
    BY DEF Pick
  <1>. HIDE DEF f
  <1>6. \A n \in 0..L : f[n] = IF n = 0 THEN <<>> ELSE IF n \in K THEN Append(f[n - 1], s[n]) ELSE f[n - 1]
    BY <1>4
  <1>. HIDE DEF Rec
  <1>7. 0 \in 0..L /\ \A n \in 1..L : n \in 0..L /\ n # 0
    BY <1>0
  <1>8. f[0] = <<>> /\ \A n \in 1..L : f[n] = IF n \in K THEN Append(f[n - 1], s[n]) ELSE f[n - 1]
    BY <1>6, <1>7
  <1>. QED BY <1>5, <1>8 DEF Collects

\* What is collected is a list of elements at these places.
IsPart(q, s, K) == IsList(q) /\ \A i \in DOMAIN q : \E j \in K \cap DOMAIN s : q[i] = s[j]

\* At every step of a collection.
LEMMA CollectsPart ==
  ASSUME NEW s, IsList(s), NEW K, NEW f, Collects(f, s, K)
  PROVE  \A n \in 0..Len(s) : IsPart(f[n], s, K)
  <1>. DEFINE T == {n \in Nat : n \in 0..Len(s) => IsPart(f[n], s, K)}
  <1>0. Len(s) \in Nat /\ DOMAIN s = 1..Len(s)
    BY ListPlaces
  <1>1. 0 \in T
    BY EmptyList DEF Collects, IsPart
  <1>2. ASSUME NEW n \in Nat, n \in T PROVE n + 1 \in T
    <2>. SUFFICES ASSUME n + 1 \in 0..Len(s) PROVE IsPart(f[n + 1], s, K)
      OBVIOUS
    <2>1. n \in 0..Len(s) /\ n + 1 \in 1..Len(s) /\ (n + 1) - 1 = n
      BY <1>0
    <2>2. PICK q : q = f[n]
      OBVIOUS
    <2>3. IsPart(q, s, K)
      BY <1>2, <2>1, <2>2
    <2>4. f[n + 1] = IF n + 1 \in K THEN Append(q, s[n + 1]) ELSE q
      BY <2>1, <2>2 DEF Collects
    <2>5. CASE n + 1 \in K
      <3>1. IsAppended(f[n + 1], q, s[n + 1])
        BY <2>3, <2>4, <2>5, ListAppend DEF IsPart
      <3>2. n + 1 \in K \cap DOMAIN s
        BY <1>0, <2>1, <2>5
      <3>. QED BY <2>3, <3>1, <3>2 DEF IsPart, IsAppended
    <2>6. CASE n + 1 \notin K
      BY <2>3, <2>4, <2>6
    <2>. QED BY <2>5, <2>6
  <1>. HIDE DEF T
  <1>3. \A n \in Nat : n \in T
    BY <1>1, <1>2, Induct
  <1>. QED BY <1>0, <1>3 DEF T

\* What is picked is part of the list.
LEMMA PickPart ==
  ASSUME NEW s, IsList(s), NEW K
  PROVE  IsPart(Pick(s, K), s, K)
  <1>1. PICK f : Collects(f, s, K) /\ Pick(s, K) = f[Len(s)]
    BY PickCollects
  <1>2. Len(s) \in 0..Len(s)
    BY ListPlaces
  <1>. QED BY <1>1, <1>2, CollectsPart

\* Two collections that take the same elements up to n are the same up to n.
LEMMA SameCollected ==
  ASSUME NEW s, NEW t, NEW K, NEW J, NEW f, NEW g, Collects(f, s, K), Collects(g, t, J),
         NEW m \in Nat, Len(s) \in Nat, Len(t) \in Nat, m <= Len(s), m <= Len(t),
         \A n \in 1..m : (n \in K <=> n \in J) /\ s[n] = t[n]
  PROVE  f[m] = g[m]
  <1>. DEFINE T == {n \in Nat : n <= m => f[n] = g[n]}
  <1>1. 0 \in T
    BY DEF Collects
  <1>2. ASSUME NEW n \in Nat, n \in T PROVE n + 1 \in T
    <2>. SUFFICES ASSUME n + 1 <= m PROVE f[n + 1] = g[n + 1]
      OBVIOUS
    <2>1. n <= m /\ n + 1 \in 1..m /\ n + 1 \in 1..Len(s) /\ n + 1 \in 1..Len(t) /\ (n + 1) - 1 = n
      OBVIOUS
    <2>2. f[n] = g[n]
      BY <1>2, <2>1
    <2>3. f[n + 1] = IF n + 1 \in K THEN Append(f[n], s[n + 1]) ELSE f[n]
      BY <2>1 DEF Collects
    <2>4. g[n + 1] = IF n + 1 \in J THEN Append(g[n], t[n + 1]) ELSE g[n]
      BY <2>1 DEF Collects
    <2>5. (n + 1 \in K <=> n + 1 \in J) /\ s[n + 1] = t[n + 1]
      BY <2>1
    <2>. QED BY <2>2, <2>3, <2>4, <2>5
  <1>. HIDE DEF T
  <1>3. m \in T
    BY <1>1, <1>2, Induct
  <1>. QED BY <1>3 DEF T

\* Only places of the list count.
LEMMA PickSame ==
  ASSUME NEW s, IsList(s), NEW K, NEW J, K \cap DOMAIN s = J \cap DOMAIN s
  PROVE  Pick(s, K) = Pick(s, J)
  <1>1. PICK f : Collects(f, s, K) /\ Pick(s, K) = f[Len(s)]
    BY PickCollects
  <1>2. PICK g : Collects(g, s, J) /\ Pick(s, J) = g[Len(s)]
    BY PickCollects
  <1>3. Len(s) \in Nat /\ DOMAIN s = 1..Len(s)
    BY ListPlaces
  <1>4. \A n \in 1..Len(s) : (n \in K <=> n \in J) /\ s[n] = s[n]
    BY <1>3
  <1>5. f[Len(s)] = g[Len(s)]
    BY <1>1, <1>2, <1>3, <1>4, SameCollected
  <1>. QED BY <1>1, <1>2, <1>5

\* One more element is picked last, or left out.
LEMMA PickAppend ==
  ASSUME NEW s, IsList(s), NEW e, NEW t, IsAppended(t, s, e), NEW K
  PROVE  Pick(t, K) = IF Len(t) \in K THEN Append(Pick(s, K), e) ELSE Pick(s, K)
  <1>1. PICK f : Collects(f, s, K) /\ Pick(s, K) = f[Len(s)]
    BY PickCollects
  <1>3. PICK g : Collects(g, t, K) /\ Pick(t, K) = g[Len(t)]
    BY PickCollects DEF IsAppended
  <1>4. /\ Len(s) \in Nat /\ DOMAIN s = 1..Len(s) /\ Len(t) = Len(s) + 1 /\ t[Len(s) + 1] = e
        /\ \A i \in DOMAIN s : s[i] = t[i]
    BY ListPlaces DEF IsAppended
  <1>5. PICK m \in Nat : m = Len(s)
    BY <1>4
  <1>6. Len(s) \in Nat /\ Len(t) \in Nat /\ m <= Len(s) /\ m <= Len(t)
    BY <1>4, <1>5
  <1>7. f[Len(s)] = g[Len(s)]
    <2>1. \A n \in 1..m : (n \in K <=> n \in K) /\ s[n] = t[n]
      BY <1>4, <1>5
    <2>2. f[m] = g[m]
      BY <1>1, <1>3, <1>6, <2>1, SameCollected
    <2>. QED BY <1>5, <2>2
  <1>8. Len(t) \in 1..Len(t) /\ Len(t) - 1 = Len(s)
    BY <1>4
  <1>9. g[Len(t)] = IF Len(t) \in K THEN Append(g[Len(t) - 1], t[Len(t)]) ELSE g[Len(t) - 1]
    BY <1>3, <1>8 DEF Collects
  <1>. QED BY <1>1, <1>3, <1>4, <1>7, <1>8, <1>9

\* Appending changes neither the first element nor what follows it.
LEMMA HeadStays ==
  ASSUME NEW q, IsList(q), q # <<>>, NEW e
  PROVE  /\ Head(Append(q, e)) = Head(q)
         /\ Tail(Append(q, e)) = Append(Tail(q), e)
  <1>1. PICK S : q \in Seq(S) /\ e \in S
    BY OneSet
  <1>2. PICK t : t = Append(q, e)
    OBVIOUS
  <1>3. /\ t \in Seq(S) /\ t # <<>> /\ Len(t) = Len(q) + 1 /\ t[Len(q) + 1] = e
        /\ \A i \in 1..Len(q) : t[i] = q[i]
    BY <1>1, <1>2, AppendProperties
  <1>4. Len(q) \in Nat \ {0}
    BY <1>1, EmptySeq
  <1>5. Head(t) = Head(q)
    BY <1>1, <1>3, <1>4
  <1>6. PICK u : u = Tail(q)
    OBVIOUS
  <1>7. PICK v : v = Tail(t)
    OBVIOUS
  <1>8. u \in Seq(S) /\ Len(u) = Len(q) - 1 /\ \A i \in 1..Len(u) : u[i] = q[i + 1]
    BY <1>1, <1>6, HeadTailProperties
  <1>9. v \in Seq(S) /\ Len(v) = Len(t) - 1 /\ \A i \in 1..Len(v) : v[i] = t[i + 1]
    BY <1>3, <1>7, HeadTailProperties
  <1>10. PICK w : w = Append(u, e)
    OBVIOUS
  <1>11. /\ w \in Seq(S) /\ Len(w) = Len(u) + 1 /\ w[Len(u) + 1] = e
         /\ \A i \in 1..Len(u) : w[i] = u[i]
    BY <1>1, <1>8, <1>10, AppendProperties
  <1>12. ASSUME NEW i \in 1..Len(v) PROVE v[i] = w[i]
    <2>1. v[i] = t[i + 1] /\ i \in 1..Len(q)
      BY <1>3, <1>4, <1>9
    <2>2. CASE i = Len(q)
      <3>1. w[i] = e /\ t[i + 1] = e
        BY <1>3, <1>4, <1>8, <1>11, <2>2
      <3>. QED BY <2>1, <3>1
    <2>3. CASE i # Len(q)
      <3>1. i \in 1..Len(u) /\ i + 1 \in 1..Len(q)
        BY <1>4, <1>8, <2>1, <2>3
      <3>. QED BY <1>3, <1>8, <1>11, <2>1, <3>1
    <2>. QED BY <2>2, <2>3
  <1>13. v = w
    <2>1. Len(v) = Len(w)
      BY <1>3, <1>4, <1>8, <1>9, <1>11
    <2>. QED BY <1>9, <1>11, <1>12, <2>1, SeqEqual
  <1>. QED BY <1>2, <1>5, <1>6, <1>7, <1>10, <1>13

\* The first place is picked first, and the others follow.
IsLed(q, x, rest) == IsList(q) /\ q # <<>> /\ Head(q) = x /\ Tail(q) = rest

\* A place before all others is picked first.
LEMMA PickFirst ==
  ASSUME NEW s, IsList(s), NEW K, NEW j \in K \cap DOMAIN s,
         \A i \in K \cap DOMAIN s : ~(i < j)
  PROVE  IsLed(Pick(s, K), s[j], Pick(s, K \ {j}))
  <1>1. PICK f : Collects(f, s, K) /\ Pick(s, K) = f[Len(s)]
    BY PickCollects
  <1>2. PICK J : J = K \ {j}
    OBVIOUS
  <1>3. PICK g : Collects(g, s, J) /\ Pick(s, J) = g[Len(s)]
    BY PickCollects
  <1>4. Len(s) \in Nat /\ DOMAIN s = 1..Len(s) /\ j \in 1..Len(s)
    BY ListPlaces
  <1>. DEFINE T == {n \in Nat : n \in 0..Len(s) =>
                       IF n < j THEN f[n] = <<>> /\ g[n] = <<>> ELSE IsLed(f[n], s[j], g[n])}
  <1>5. 0 \in T
    BY <1>1, <1>3, <1>4 DEF Collects
  <1>6. ASSUME NEW n \in Nat, n \in T PROVE n + 1 \in T
    <2>. SUFFICES ASSUME n + 1 \in 0..Len(s)
                  PROVE  IF n + 1 < j THEN f[n + 1] = <<>> /\ g[n + 1] = <<>>
                         ELSE IsLed(f[n + 1], s[j], g[n + 1])
      OBVIOUS
    <2>1. n \in 0..Len(s) /\ n + 1 \in 1..Len(s) /\ (n + 1) - 1 = n
      BY <1>4
    <2>2. IF n < j THEN f[n] = <<>> /\ g[n] = <<>> ELSE IsLed(f[n], s[j], g[n])
      BY <1>6, <2>1
    <2>3. f[n + 1] = IF n + 1 \in K THEN Append(f[n], s[n + 1]) ELSE f[n]
      BY <1>1, <2>1 DEF Collects
    <2>4. g[n + 1] = IF n + 1 \in J THEN Append(g[n], s[n + 1]) ELSE g[n]
      BY <1>3, <2>1 DEF Collects
    <2>5. CASE n + 1 < j
      <3>1. n < j
        BY <1>4, <2>5
      <3>2. n + 1 \notin K /\ n + 1 \notin J
        BY <1>2, <1>4, <2>1, <2>5
      <3>. QED BY <2>2, <2>3, <2>4, <2>5, <3>1, <3>2
    <2>6. CASE n + 1 = j
      <3>1. n < j
        BY <1>4, <2>6
      <3>2. f[n + 1] = Append(<<>>, s[j]) /\ g[n + 1] = <<>>
        BY <1>2, <2>2, <2>3, <2>4, <2>6, <3>1
      <3>3. IsAppended(f[n + 1], <<>>, s[j])
        BY <3>2, EmptyList, ListAppend
      <3>4. Append(<<>>, s[j]) = <<s[j]>>
        OBVIOUS
      <3>5. Head(<<s[j]>>) = s[j] /\ Tail(<<s[j]>>) = <<>>
        OBVIOUS
      <3>6. ~(n + 1 < j)
        BY <1>4, <2>6
      <3>. QED BY <3>2, <3>3, <3>4, <3>5, <3>6 DEF IsLed, IsAppended
    <2>7. CASE j < n + 1
      <3>1. ~(n < j) /\ ~(n + 1 < j) /\ n + 1 # j
        BY <1>4, <2>7
      <3>2. IsLed(f[n], s[j], g[n])
        BY <2>2, <3>1
      <3>3. CASE n + 1 \in K
        <4>1. n + 1 \in J
          BY <1>2, <3>1, <3>3
        <4>2. /\ Head(Append(f[n], s[n + 1])) = Head(f[n])
              /\ Tail(Append(f[n], s[n + 1])) = Append(Tail(f[n]), s[n + 1])
          BY <3>2, HeadStays DEF IsLed
        <4>3. IsAppended(f[n + 1], f[n], s[n + 1])
          BY <2>3, <3>2, <3>3, ListAppend DEF IsLed
        <4>. QED BY <2>3, <2>4, <3>1, <3>2, <3>3, <4>1, <4>2, <4>3 DEF IsLed, IsAppended
      <3>4. CASE n + 1 \notin K
        <4>1. n + 1 \notin J
          BY <1>2, <3>4
        <4>. QED BY <2>3, <2>4, <3>1, <3>2, <3>4, <4>1
      <3>. QED BY <3>3, <3>4
    <2>. QED BY <1>4, <2>5, <2>6, <2>7
  <1>. HIDE DEF T
  <1>7. Len(s) \in T
    BY <1>4, <1>5, <1>6, Induct
  <1>8. Len(s) \in 0..Len(s) /\ ~(Len(s) < j)
    BY <1>4
  <1>. QED BY <1>1, <1>2, <1>3, <1>7, <1>8 DEF T

-----------------------------------------------------------------------------
(* What the comparison sees *)

\* The milestones of a list of events, and their keys, are lists.
LEMMA KeysList ==
  ASSUME NEW s, IsList(s)
  PROVE  IsList(Milestones(s)) /\ IsList(Keys(s)) /\ Len(Keys(s)) = Len(Milestones(s))
         /\ \A i \in 1..Len(Milestones(s)) : Keys(s)[i] = Key(Milestones(s)[i])
  <1>1. PICK kept : kept = Milestones(s)
    OBVIOUS
  <1>2. IsList(kept)
    BY <1>1, PickPart DEF Milestones, IsPart
  <1>3. Len(kept) \in Nat /\ DOMAIN kept = 1..Len(kept)
    BY <1>2, ListPlaces
  <1>4. PICK n \in Nat : n = Len(kept)
    BY <1>3
  <1>5. PICK keys : keys = [i \in 1..n |-> Key(kept[i])]
    OBVIOUS
  <1>6. Keys(s) = keys
    BY <1>1, <1>3, <1>4, <1>5 DEF Keys
  <1>7. keys \in Seq({Key(kept[i]) : i \in 1..n}) /\ Len(keys) = n
    BY <1>5
  <1>8. \A i \in 1..n : keys[i] = Key(kept[i])
    BY <1>5
  <1>. QED BY <1>1, <1>2, <1>4, <1>6, <1>7, <1>8 DEF IsList

\* One more event adds its key, if it is a milestone.
LEMMA KeysAppend ==
  ASSUME NEW s, IsList(s), NEW e, NEW t, IsAppended(t, s, e)
  PROVE  Keys(t) = IF Milestone(e) THEN Append(Keys(s), Key(e)) ELSE Keys(s)
  <1>1. PICK K : K = {i \in DOMAIN t : Milestone(t[i])}
    OBVIOUS
  <1>2. PICK J : J = {i \in DOMAIN s : Milestone(s[i])}
    OBVIOUS
  <1>3. /\ Len(s) \in Nat /\ DOMAIN t = DOMAIN s \cup {Len(t)} /\ Len(t) \notin DOMAIN s /\ t[Len(t)] = e
        /\ (\A i \in DOMAIN s : t[i] = s[i]) /\ IsList(t)
    BY ListPlaces DEF IsAppended
  <1>4. K \cap DOMAIN s = J \cap DOMAIN s /\ (Len(t) \in K <=> Milestone(e))
    BY <1>1, <1>2, <1>3
  <1>5. Pick(s, K) = Milestones(s)
    BY <1>2, <1>4, PickSame DEF Milestones
  <1>6. Milestones(t) = Pick(t, K)
    BY <1>1 DEF Milestones
  <1>7. Pick(t, K) = IF Len(t) \in K THEN Append(Pick(s, K), e) ELSE Pick(s, K)
    BY PickAppend
  <1>8. CASE ~Milestone(e)
    <2>1. Milestones(t) = Milestones(s)
      BY <1>4, <1>5, <1>6, <1>7, <1>8
    <2>. QED BY <1>8, <2>1 DEF Keys
  <1>9. CASE Milestone(e)
    <2>1. PICK m : m = Milestones(s)
      OBVIOUS
    <2>2. PICK n : n = Milestones(t)
      OBVIOUS
    <2>3. IsList(m) /\ IsList(Keys(s)) /\ Len(Keys(s)) = Len(m) /\ \A i \in 1..Len(m) : Keys(s)[i] = Key(m[i])
      BY <2>1, KeysList
    <2>4. IsList(n) /\ IsList(Keys(t)) /\ Len(Keys(t)) = Len(n) /\ \A i \in 1..Len(n) : Keys(t)[i] = Key(n[i])
      BY <1>3, <2>2, KeysList
    <2>5. n = Append(m, e)
      BY <1>4, <1>5, <1>6, <1>7, <1>9, <2>1, <2>2
    <2>6. IsAppended(n, m, e)
      BY <2>3, <2>5, ListAppend
    <2>7. PICK u : u = Append(Keys(s), Key(e))
      OBVIOUS
    <2>8. IsAppended(u, Keys(s), Key(e))
      BY <2>3, <2>7, ListAppend
    <2>9. PICK a : a = Keys(s)
      OBVIOUS
    <2>10. PICK b : b = Keys(t)
      OBVIOUS
    <2>11. /\ IsList(a) /\ Len(a) = Len(m) /\ \A i \in 1..Len(m) : a[i] = Key(m[i])
           /\ IsList(b) /\ Len(b) = Len(n) /\ \A i \in 1..Len(n) : b[i] = Key(n[i])
      BY <2>3, <2>4, <2>9, <2>10
    <2>12. /\ Len(m) \in Nat /\ DOMAIN m = 1..Len(m) /\ Len(n) = Len(m) + 1 /\ n[Len(m) + 1] = e
           /\ \A i \in DOMAIN m : n[i] = m[i]
      BY <2>3, <2>6, ListPlaces DEF IsAppended
    <2>13. /\ IsList(u) /\ Len(u) = Len(m) + 1 /\ u[Len(m) + 1] = Key(e) /\ DOMAIN a = 1..Len(m)
           /\ \A i \in DOMAIN a : u[i] = a[i]
      BY <2>8, <2>9, <2>11, ListPlaces DEF IsAppended
    <2>14. \A i \in 1..Len(b) : b[i] = u[i]
      <3>1. SUFFICES ASSUME NEW i \in 1..(Len(m) + 1) PROVE b[i] = u[i]
        BY <2>11, <2>12
      <3>2. CASE i = Len(m) + 1
        BY <2>11, <2>12, <2>13, <3>2
      <3>3. CASE i \in 1..Len(m)
        BY <2>11, <2>12, <2>13, <3>3
      <3>. QED BY <2>12, <3>2, <3>3
    <2>15. Len(b) = Len(u)
      BY <2>11, <2>12, <2>13
    <2>16. b = u
      BY <2>11, <2>13, <2>14, <2>15, ListEqual
    <2>. QED BY <1>9, <2>7, <2>10, <2>16
  <1>. QED BY <1>8, <1>9

\* The visits a path has started.
Started(p) == {j \in DOMAIN p : p[j].kind = "stage_started"}
\* A path that has started n visits.
HasStarted(p, n) == IsList(p) /\ IsFiniteSet(Started(p)) /\ Cardinality(Started(p)) = n

\* One more event starts a visit or not; the outputs stay, and that of the visit that
\* ends is numbered by the visits started.
LEMMA PathAppend ==
  ASSUME NEW p, NEW n \in Nat, HasStarted(p, n), NEW e, NEW t, IsAppended(t, p, e)
  PROVE  /\ HasStarted(t, IF e.kind = "stage_started" THEN n + 1 ELSE n)
         /\ Outputs(p) \subseteq Outputs(t)
         /\ e.kind = "stage_completed" => <<n, e.to>> \in Outputs(t)
  <1>1. /\ Len(p) \in Nat /\ DOMAIN p = 1..Len(p) /\ Len(t) = Len(p) + 1 /\ t[Len(t)] = e
        /\ DOMAIN t = DOMAIN p \cup {Len(t)} /\ Len(t) \notin DOMAIN p /\ IsList(t)
        /\ \A i \in DOMAIN p : t[i] = p[i]
    BY ListPlaces DEF IsAppended, HasStarted
  <1>2. Started(t) = IF e.kind = "stage_started" THEN Started(p) \cup {Len(t)} ELSE Started(p)
    BY <1>1 DEF Started
  <1>3. HasStarted(t, IF e.kind = "stage_started" THEN n + 1 ELSE n)
    <2>1. CASE e.kind = "stage_started"
      <3>1. Len(t) \notin Started(p)
        BY <1>1 DEF Started
      <3>2. IsFiniteSet(Started(p) \cup {Len(t)}) /\ Cardinality(Started(p) \cup {Len(t)}) = n + 1
        BY <3>1, FS_AddElement DEF HasStarted
      <3>. QED BY <1>1, <1>2, <2>1, <3>2 DEF HasStarted
    <2>2. CASE e.kind # "stage_started"
      BY <1>1, <1>2, <2>2 DEF HasStarted
    <2>. QED BY <2>1, <2>2
  <1>4. \A i \in DOMAIN p : {j \in 1..i : t[j].kind = "stage_started"} = {j \in 1..i : p[j].kind = "stage_started"}
    BY <1>1
  <1>5. Outputs(p) \subseteq Outputs(t)
    <2>1. ASSUME NEW i \in DOMAIN p, p[i].kind = "stage_completed"
          PROVE  <<Cardinality({j \in 1..i : p[j].kind = "stage_started"}), p[i].to>> \in Outputs(t)
      <3>1. i \in DOMAIN t /\ t[i] = p[i]
        BY <1>1
      <3>2. {j \in 1..i : t[j].kind = "stage_started"} = {j \in 1..i : p[j].kind = "stage_started"}
        BY <1>4
      <3>3. <<Cardinality({j \in 1..i : t[j].kind = "stage_started"}), t[i].to>> \in Outputs(t)
        BY <2>1, <3>1 DEF Outputs
      <3>. QED BY <3>1, <3>2, <3>3
    <2>. QED BY <2>1 DEF Outputs
  <1>6. ASSUME e.kind = "stage_completed" PROVE <<n, e.to>> \in Outputs(t)
    <2>1. {j \in 1..Len(t) : t[j].kind = "stage_started"} = Started(t)
      BY <1>1 DEF Started
    <2>2. Cardinality(Started(t)) = n
      BY <1>2, <1>6 DEF HasStarted
    <2>3. Len(t) \in DOMAIN t /\ t[Len(t)].kind = "stage_completed"
      BY <1>1, <1>6
    <2>4. <<Cardinality({j \in 1..Len(t) : t[j].kind = "stage_started"}), t[Len(t)].to>> \in Outputs(t)
      BY <2>3 DEF Outputs
    <2>. QED BY <1>1, <2>1, <2>2, <2>4
  <1>. QED BY <1>3, <1>5, <1>6

-----------------------------------------------------------------------------
(* What one call writes *)

\* The types of a recorder's books, whether it kept count or not.
Loose(r) ==
  /\ DOMAIN r = RecorderFields
  /\ r.exceeded \in BOOLEAN /\ r.live \in Nat /\ r.visits \in Nat
  /\ IsList(r.events) /\ IsList(r.vault)
  /\ \A v : IsList(At(r.pendingTransitions, v))

\* The books of r that the queues are no part of are those of s.
SameBooks(r, s) ==
  /\ s.config = r.config /\ s.finished = r.finished /\ s.exceeded = r.exceeded /\ s.live = r.live
  /\ s.events = r.events /\ s.vault = r.vault /\ s.heldVisit = r.heldVisit
\* The visits of r are those of s.
SamePlace(r, s) == s.visits = r.visits /\ s.current = r.current

\* The fields that hold the queues.
Queues == {"visits", "current", "pendingVisits", "models", "pendingModels", "lastModel", "tools",
           "pendingTools", "openTools"}

\* An event moves queues; only the start of a visit moves the place.
LEMMA SettledBooks ==
  ASSUME NEW r, Loose(r), NEW o, NEW s, s = Settled(r, o)
  PROVE  /\ Loose(s) /\ SameBooks(r, s)
         /\ o.kind # "stage_started" => SamePlace(r, s)
  <1>1. CASE o.kind = "stage_started"
    <2>1. s = TakeVisit(r, o.stage)
      BY <1>1 DEF Settled
    <2>2. Changes(r, s, Queues) /\ s.visits \in Nat
      <3>1. r.visits \in Nat /\ r.visits + 1 \in Nat /\ DOMAIN r = RecorderFields
        BY DEF Loose
      <3>2. PICK n \in Nat : n = r.visits + 1
        BY <3>1
      <3>3. \/ s = [r EXCEPT !.visits = n, !.current = n]
            \/ \E x, y : s = [r EXCEPT !.current = x, !.pendingVisits = y]
        BY <2>1, <3>2 DEF TakeVisit
      <3>4. CASE s = [r EXCEPT !.visits = n, !.current = n]
        BY <3>1, <3>4 DEF Changes, RecorderFields, Queues
      <3>5. CASE \E x, y : s = [r EXCEPT !.current = x, !.pendingVisits = y]
        BY <3>1, <3>5 DEF Changes, RecorderFields, Queues
      <3>. QED BY <3>3, <3>4, <3>5
    <2>3. SameBooks(r, s) /\ s.pendingTransitions = r.pendingTransitions
      BY <2>2 DEF Changes, RecorderFields, Queues, SameBooks
    <2>. QED BY <1>1, <2>2, <2>3 DEF Loose, SameBooks, Changes
  <1>2. CASE o.kind # "stage_started"
    <2>1. Changes(r, s, Queues \ {"visits", "current"})
      <3>1. CASE o.kind = "model_completed"
        <4>1. s = PopModel(r)
          BY <3>1 DEF Settled
        <4>. QED BY <4>1 DEF PopModel, Changes, Loose, RecorderFields, Queues
      <3>2. CASE o.kind = "tool_call_started"
        <4>1. s = PopTool(r)
          BY <3>2 DEF Settled
        <4>. QED BY <4>1 DEF PopTool, Changes, Loose, RecorderFields, Queues
      <3>3. CASE o.kind \notin {"model_completed", "tool_call_started"}
        <4>1. s = r \/ s = [r EXCEPT !.models = @ + 1]
          BY <1>2, <3>3 DEF Settled
        <4>. QED BY <4>1 DEF Changes, Loose, RecorderFields, Queues
      <3>. QED BY <3>1, <3>2, <3>3
    <2>2. SameBooks(r, s) /\ SamePlace(r, s) /\ s.pendingTransitions = r.pendingTransitions
      BY <2>1 DEF Changes, RecorderFields, Queues, SameBooks, SamePlace
    <2>. QED BY <2>1, <2>2 DEF Loose, SameBooks, SamePlace, Changes
  <1>. QED BY <1>1, <1>2

\* The public record P reports the event o as number n.
Reports(P, o, n) == P.seq = n /\ Key(P) = Key(o) /\ (Milestone(P) <=> Milestone(o))

\* The public record of an event reports it, whatever was masked.
LEMMA ProjectReports ==
  ASSUME NEW r, NEW s, NEW o
  PROVE  Reports(Project(r, s, o), o, r.live)
  <1>1. PICK b : b = PublicRecord(o.kind, o.stage, IF o.kind \in StageKinds THEN s.current ELSE 0)
    OBVIOUS
  <1>2. PICK P : P = Project(r, s, o)
    OBVIOUS
  <1>3. /\ b.kind = o.kind /\ b.stage = o.stage
        /\ {"kind", "stage", "seq", "model", "tool", "to", "denied", "shown", "name", "masked"} \subseteq DOMAIN b
    BY <1>1 DEF PublicRecord
  <1>. DEFINE model == CASE o.kind = "model_completed" -> Head(At(s.lastModel, s.current))
                         [] o.kind = "model_delta" -> PeekModel(s)
                         [] o.kind = "model_retry" -> RetriedModel(r)
                         [] OTHER -> 0
              tool == IF o.kind \in ToolKinds THEN PeekTool(s) ELSE 0
              to == IF o.kind = "transition_selected" THEN o.to ELSE None
              shown == Shown(r.config, o.kind)
              name == IF o.kind \in ToolKinds THEN "tool" ELSE None
              masked == o.content = "value"
  <1>4. P = [b EXCEPT !.seq = r.live, !.model = model, !.tool = tool, !.to = to, !.denied = o.denied,
                      !.shown = shown, !.name = name, !.masked = masked]
    BY <1>1, <1>2 DEF Project
  <1>5. to = IF o.kind = "transition_selected" THEN o.to ELSE None
    OBVIOUS
  <1>. HIDE DEF model, tool, to, shown, name, masked
  <1>6. /\ P.seq = r.live /\ P.kind = o.kind /\ P.stage = o.stage /\ P.denied = o.denied /\ P.to = to
    BY <1>3, <1>4
  <1>7. Key(P) = Key(o)
    BY <1>5, <1>6 DEF Key
  <1>8. Milestone(P) <=> Milestone(o)
    BY <1>6 DEF Milestone
  <1>. QED BY <1>2, <1>6, <1>7, <1>8 DEF Reports

\* The vault w holds what v holds, in place.
Extends(v, w) == IsList(w) /\ DOMAIN v \subseteq DOMAIN w /\ \A i \in DOMAIN v : w[i] = v[i]
\* Of these types w holds nothing more, or the record x only.
AddsNone(types, v, w) == Extends(v, w) /\ \A i \in DOMAIN w \ DOMAIN v : w[i].type \notin types
AddsOnly(types, v, w, x) ==
  /\ Extends(v, w) /\ x.type \in types
  /\ \E j \in DOMAIN w \ DOMAIN v :
       w[j] = x /\ \A i \in DOMAIN w \ DOMAIN v : w[i].type \in types => i = j

\* What a record adds when it is kept.
LEMMA AppendAdds ==
  ASSUME NEW v, IsList(v), NEW x, NEW types
  PROVE  /\ x.type \in types => AddsOnly(types, v, Append(v, x), x)
         /\ x.type \notin types => AddsNone(types, v, Append(v, x))
  <1>1. PICK w : w = Append(v, x)
    OBVIOUS
  <1>2. IsAppended(w, v, x)
    BY <1>1, ListAppend
  <1>3. DOMAIN w \ DOMAIN v = {Len(v) + 1} /\ w[Len(v) + 1] = x
    BY <1>2 DEF IsAppended
  <1>4. Extends(v, w)
    BY <1>2 DEF IsAppended, Extends
  <1>. QED BY <1>1, <1>3, <1>4 DEF AddsOnly, AddsNone

\* Nothing is added where nothing is filed.
LEMMA NothingAdded ==
  ASSUME NEW v, IsList(v), NEW types
  PROVE  AddsNone(types, v, v)
  BY DEF AddsNone, Extends

\* Additions follow each other.
LEMMA AddsChain ==
  ASSUME NEW types, NEW u, NEW v, NEW w, AddsNone(types, v, w)
  PROVE  /\ AddsNone(types, u, v) => AddsNone(types, u, w)
         /\ \A x : AddsOnly(types, u, v, x) => AddsOnly(types, u, w, x)
  <1>1. Extends(u, v) => Extends(u, w)
    BY DEF AddsNone, Extends
  <1>2. AddsNone(types, u, v) => AddsNone(types, u, w)
    BY <1>1 DEF AddsNone, Extends
  <1>3. ASSUME NEW x, AddsOnly(types, u, v, x) PROVE AddsOnly(types, u, w, x)
    <2>1. PICK j \in DOMAIN v \ DOMAIN u :
            v[j] = x /\ \A i \in DOMAIN v \ DOMAIN u : v[i].type \in types => i = j
      BY <1>3 DEF AddsOnly
    <2>2. j \in DOMAIN w \ DOMAIN u /\ w[j] = x
      BY <2>1 DEF AddsNone, Extends
    <2>3. \A i \in DOMAIN w \ DOMAIN u : w[i].type \in types => i = j
      BY <2>1 DEF AddsNone, Extends
    <2>. QED BY <1>1, <1>3, <2>2, <2>3 DEF AddsOnly
  <1>. QED BY <1>2, <1>3

\* A record filed after others of no concern.
LEMMA AddsThen ==
  ASSUME NEW types, NEW u, NEW v, NEW w, NEW x, AddsNone(types, u, v), AddsOnly(types, v, w, x)
  PROVE  AddsOnly(types, u, w, x)
  <1>1. Extends(u, w)
    BY DEF AddsNone, AddsOnly, Extends
  <1>2. PICK j \in DOMAIN w \ DOMAIN v :
          w[j] = x /\ \A i \in DOMAIN w \ DOMAIN v : w[i].type \in types => i = j
    BY DEF AddsOnly
  <1>3. j \in DOMAIN w \ DOMAIN u
    BY <1>2 DEF AddsNone, Extends
  <1>4. \A i \in DOMAIN w \ DOMAIN u : w[i].type \in types => i = j
    BY <1>2 DEF AddsNone, AddsOnly, Extends
  <1>. QED BY <1>1, <1>2, <1>3, <1>4 DEF AddsOnly

\* What a call files in a vault that captures everything, and under which type.
Filing == {"model_request", "model_response", "policy_evaluation", "tool_result", "stage_snapshot"}
\* The type of the record a call files.
FiledAs(o) ==
  IF o.call = "event" THEN IF o.kind = "stage_completed" THEN "stage_snapshot" ELSE None
  ELSE IF o.call \in {"tool_result", "tool_error"} THEN "tool_result"
  ELSE IF o.call \in {"model_request", "model_response", "policy_evaluation"} THEN o.call ELSE None
\* The record x files the call o, of this visit.
Records(x, o, visit) ==
  /\ x.type = FiledAs(o) /\ x.visit = visit
  /\ o.call \in {"model_response", "policy_evaluation"} => x.body = o.body
  /\ o.call = "tool_result" => x.body = "ok"
  /\ o.call = "tool_error" => x.body = "error" /\ x.to = None
  /\ o.call \in {"model_response", "tool_result", "event"} => x.to = o.to
  /\ o.call = "event" => x.stage = o.stage
\* From v to w the call o is filed, and nothing else of these types.
Files(types, v, w, o, visit) ==
  IF FiledAs(o) \in types THEN \E x : Records(x, o, visit) /\ AddsOnly(types, v, w, x)
  ELSE AddsNone(types, v, w)

\* The counts and the ledger of r are those of s.
SameCount(r, s) ==
  /\ s.config = r.config /\ s.finished = r.finished /\ s.exceeded = r.exceeded /\ s.live = r.live
  /\ s.events = r.events

\* A record that is kept.
LEMMA KeepBooks ==
  ASSUME NEW r, Loose(r), NEW what, NEW x, NEW s, s = Keep(r, what, x)
  PROVE  /\ Loose(s) /\ SameCount(r, s) /\ SamePlace(r, s) /\ s.heldVisit = r.heldVisit
         /\ Complete(r) /\ what \in Captured => s.vault = Append(r.vault, x)
  <1>1. CASE Captures(r, what)
    <2>1. s = [r EXCEPT !.vault = Append(@, x)]
      BY <1>1 DEF Keep, AppendVaultRecord
    <2>2. Changes(r, s, {"vault"}) /\ s.vault = Append(r.vault, x)
      BY <2>1 DEF Changes, Loose, RecorderFields
    <2>3. IsList(s.vault)
      BY <2>2, ListAppend DEF IsAppended, Loose
    <2>4. /\ SameCount(r, s) /\ SamePlace(r, s) /\ s.heldVisit = r.heldVisit
          /\ s.pendingTransitions = r.pendingTransitions
      BY <2>2 DEF Changes, RecorderFields, SameCount, SamePlace
    <2>. QED BY <2>2, <2>3, <2>4 DEF Loose, Changes, SameCount, SamePlace
  <1>2. CASE ~Captures(r, what)
    <2>1. s = r
      BY <1>2 DEF Keep
    <2>2. ~(Complete(r) /\ what \in Captured)
      BY <1>2 DEF Captures, Complete
    <2>. QED BY <2>1, <2>2 DEF SameCount, SamePlace
  <1>. QED BY <1>1, <1>2

\* A record that is kept files its call.
LEMMA KeptFiles ==
  ASSUME NEW r, Loose(r), NEW what \in Captured, NEW x, NEW s, s = Keep(r, what, x), NEW o,
         Complete(r), NEW visit, Records(x, o, visit), NEW types
  PROVE  Files(types, r.vault, s.vault, o, visit)
  <1>1. s.vault = Append(r.vault, x)
    BY KeepBooks
  <1>2. x.type = FiledAs(o)
    BY DEF Records
  <1>. QED BY <1>1, <1>2, AppendAdds DEF Files, Loose

\* A recorder whose other fields change.
LEMMA OtherFields ==
  ASSUME NEW r, Loose(r), NEW s,
         Changes(r, s, {"begun", "visits", "heldVisit", "current", "pendingVisits", "models", "heldModel",
                        "pendingModels", "tools", "heldTool", "pendingTools", "pendingTransitions"}),
         s.visits \in Nat, \A v : IsList(At(s.pendingTransitions, v))
  PROVE  Loose(s) /\ SameCount(r, s) /\ s.vault = r.vault
  <1>1. SameCount(r, s) /\ s.vault = r.vault
    BY DEF Changes, RecorderFields, SameCount
  <1>. QED BY <1>1 DEF Loose, SameCount, Changes

\* A hook files its call and keeps the counts; only stage_visit moves the place.
LEMMA HookBooks ==
  ASSUME NEW r, Loose(r), NEW o \in Calls, o.call # "event", NEW q, q = Apply(r, o),
         NEW types \in SUBSET Filing
  PROVE  /\ Loose(q) /\ SameCount(r, q)
         /\ o.call # "stage_visit" => SamePlace(r, q) /\ q.heldVisit = r.heldVisit
         /\ Complete(r) => Files(types, r.vault, q.vault, o, r.current)
  <1>0. None \notin types
    BY DEF Filing, None
  <1>1. CASE o.call \in {"begin_run", "run_error"}
    <2>1. q = r \/ q = [r EXCEPT !.begun = TRUE]
      BY <1>1 DEF Apply
    <2>2. /\ Changes(r, q, {"begun"}) /\ q.visits \in Nat
      BY <2>1 DEF Changes, Loose, RecorderFields
    <2>3. SamePlace(r, q) /\ q.heldVisit = r.heldVisit /\ q.pendingTransitions = r.pendingTransitions
      BY <2>2 DEF Changes, RecorderFields, SamePlace
    <2>4. Loose(q) /\ SameCount(r, q) /\ q.vault = r.vault
      BY <2>2, <2>3, OtherFields DEF Loose, Changes
    <2>5. FiledAs(o) = None
      BY <1>1 DEF FiledAs
    <2>. QED BY <1>0, <2>3, <2>4, <2>5, NothingAdded DEF Files, Loose
  <1>2. CASE o.call \in {"stage_visit", "model_call", "tool_call"}
    <2>1. PICK n \in Nat : n = r.visits + 1
      BY DEF Loose
    <2>2. \/ o.call = "stage_visit" /\ q = BeginStageVisit(r, o.stage)
          \/ o.call = "model_call" /\ q = BeginModelCall(r)
          \/ o.call = "tool_call" /\ q = BeginToolCall(r)
      BY <1>2 DEF Apply
    <2>3. CASE o.call = "stage_visit" /\ q = BeginStageVisit(r, o.stage)
      <3>1. \E x : q = [r EXCEPT !.visits = n, !.heldVisit = n, !.current = n, !.pendingVisits = x]
        BY <2>1, <2>3 DEF BeginStageVisit
      <3>2. Changes(r, q, {"visits", "heldVisit", "current", "pendingVisits"}) /\ q.visits = n
        BY <3>1 DEF Changes, Loose, RecorderFields
      <3>3. q.pendingTransitions = r.pendingTransitions
        BY <3>2 DEF Changes, RecorderFields
      <3>4. Loose(q) /\ SameCount(r, q) /\ q.vault = r.vault
        BY <3>2, <3>3, OtherFields DEF Loose, Changes
      <3>5. FiledAs(o) = None
        BY <2>3 DEF FiledAs
      <3>. QED BY <1>0, <2>3, <3>4, <3>5, NothingAdded DEF Files, Loose
    <2>4. CASE o.call = "model_call" /\ q = BeginModelCall(r)
      <3>1. \E id, x : q = [r EXCEPT !.models = id, !.heldModel = id, !.pendingModels = x]
        BY <2>4 DEF BeginModelCall
      <3>2. Changes(r, q, {"models", "heldModel", "pendingModels"})
        BY <3>1 DEF Changes, Loose, RecorderFields
      <3>3. SamePlace(r, q) /\ q.heldVisit = r.heldVisit /\ q.pendingTransitions = r.pendingTransitions
        BY <3>2 DEF Changes, RecorderFields, SamePlace
      <3>4. Loose(q) /\ SameCount(r, q) /\ q.vault = r.vault
        BY <3>2, <3>3, OtherFields DEF Loose, Changes, SamePlace
      <3>5. FiledAs(o) = None
        BY <2>4 DEF FiledAs
      <3>. QED BY <1>0, <3>3, <3>4, <3>5, NothingAdded DEF Files, Loose
    <2>5. CASE o.call = "tool_call" /\ q = BeginToolCall(r)
      <3>1. \E id, x : q = [r EXCEPT !.tools = id, !.heldTool = id, !.pendingTools = x]
        BY <2>5 DEF BeginToolCall
      <3>2. Changes(r, q, {"tools", "heldTool", "pendingTools"})
        BY <3>1 DEF Changes, Loose, RecorderFields
      <3>3. SamePlace(r, q) /\ q.heldVisit = r.heldVisit /\ q.pendingTransitions = r.pendingTransitions
        BY <3>2 DEF Changes, RecorderFields, SamePlace
      <3>4. Loose(q) /\ SameCount(r, q) /\ q.vault = r.vault
        BY <3>2, <3>3, OtherFields DEF Loose, Changes, SamePlace
      <3>5. FiledAs(o) = None
        BY <2>5 DEF FiledAs
      <3>. QED BY <1>0, <3>3, <3>4, <3>5, NothingAdded DEF Files, Loose
    <2>. QED BY <2>2, <2>3, <2>4, <2>5
  <1>3. CASE o.call = "run_inputs"
    <2>1. FiledAs(o) = None
      BY <1>3 DEF FiledAs
    <2>2. q = RecordRunInputs(r)
      BY <1>3 DEF Apply
    <2>3. PICK x : x = VaultRecord("run_inputs")
      OBVIOUS
    <2>4. x.type \notin types
      BY <2>3 DEF VaultRecord, Filing
    <2>5. CASE VaultEnabled(r)
      <3>1. q = [r EXCEPT !.vault = Append(@, x)]
        BY <2>2, <2>3, <2>5 DEF RecordRunInputs, AppendVaultRecord
      <3>2. Changes(r, q, {"vault"}) /\ q.vault = Append(r.vault, x)
        BY <3>1 DEF Changes, Loose, RecorderFields
      <3>3. AddsNone(types, r.vault, q.vault)
        BY <2>4, <3>2, AppendAdds DEF Loose
      <3>4. /\ SameCount(r, q) /\ SamePlace(r, q) /\ q.heldVisit = r.heldVisit
            /\ q.pendingTransitions = r.pendingTransitions
        BY <3>2 DEF Changes, RecorderFields, SameCount, SamePlace
      <3>5. Loose(q)
        BY <3>2, <3>3, <3>4 DEF Loose, Changes, SameCount, SamePlace, AddsNone, Extends
      <3>. QED BY <1>0, <2>1, <3>3, <3>4, <3>5 DEF Files
    <2>6. CASE ~VaultEnabled(r)
      <3>1. q = r
        BY <2>2, <2>6 DEF RecordRunInputs
      <3>. QED BY <1>0, <2>1, <3>1, NothingAdded DEF Files, Loose, SameCount, SamePlace
    <2>. QED BY <2>5, <2>6
  <1>4. CASE o.call = "transition_evaluation"
    <2>1. q = r \/ \E list : q = [r EXCEPT !.pendingTransitions = Put(@, r.heldVisit, list)] /\ IsList(list)
      <3>1. q = RecordTransitionEvaluation(r)
        BY <1>4 DEF Apply
      <3>2. IsList(At(r.pendingTransitions, r.heldVisit))
        BY DEF Loose
      <3>3. IsList(Append(At(r.pendingTransitions, r.heldVisit), "candidates"))
        BY <3>2, ListAppend DEF IsAppended
      <3>. QED BY <3>1, <3>3 DEF RecordTransitionEvaluation
    <2>2. Changes(r, q, {"pendingTransitions"}) /\ \A v : IsList(At(q.pendingTransitions, v))
      <3>1. CASE q = r
        BY <3>1 DEF Changes, Loose
      <3>2. CASE \E list : q = [r EXCEPT !.pendingTransitions = Put(@, r.heldVisit, list)] /\ IsList(list)
        <4>1. PICK list : q = [r EXCEPT !.pendingTransitions = Put(@, r.heldVisit, list)] /\ IsList(list)
          BY <3>2
        <4>2. Changes(r, q, {"pendingTransitions"}) /\ q.pendingTransitions = Put(r.pendingTransitions, r.heldVisit, list)
          BY <4>1 DEF Changes, Loose, RecorderFields
        <4>. QED BY <4>1, <4>2, AtPut DEF Loose
      <3>. QED BY <2>1, <3>1, <3>2
    <2>3. SamePlace(r, q) /\ q.heldVisit = r.heldVisit
      BY <2>2 DEF Changes, RecorderFields, SamePlace
    <2>4. Loose(q) /\ SameCount(r, q) /\ q.vault = r.vault
      BY <2>2, <2>3, OtherFields DEF Loose, Changes, SamePlace
    <2>5. FiledAs(o) = None
      BY <1>4 DEF FiledAs
    <2>. QED BY <1>0, <2>3, <2>4, <2>5, NothingAdded DEF Files, Loose
  <1>5. CASE o.call \in {"model_request", "model_response", "policy_evaluation", "tool_result", "tool_error"}
    <2>1. \E what \in Captured : \E x : q = Keep(r, what, x) /\ Records(x, o, r.current)
      <3>0. "messages" \in Captured /\ "policy" \in Captured /\ "results" \in Captured
        BY DEF Captured
      <3>1. CASE o.call = "model_request"
        <4>1. q = RecordModelRequest(r) /\ FiledAs(o) = "model_request"
          BY <3>1 DEF Apply, FiledAs
        <4>2. PICK x : x = [VaultRecord("model_request") EXCEPT !.model = r.heldModel, !.visit = r.current]
          OBVIOUS
        <4>3. x.type = "model_request" /\ x.visit = r.current
          BY <4>2 DEF VaultRecord
        <4>4. q = Keep(r, "messages", x)
          BY <4>1, <4>2 DEF RecordModelRequest
        <4>. QED BY <3>0, <3>1, <4>1, <4>3, <4>4 DEF Records
      <3>2. CASE o.call = "model_response"
        <4>1. q = RecordModelResponse(r, o) /\ FiledAs(o) = "model_response"
          BY <3>2 DEF Apply, FiledAs
        <4>2. PICK x : x = [VaultRecord("model_response") EXCEPT
                              !.model = r.heldModel, !.visit = r.current, !.body = o.body, !.to = o.to]
          OBVIOUS
        <4>3. x.type = "model_response" /\ x.visit = r.current /\ x.body = o.body /\ x.to = o.to
          BY <4>2 DEF VaultRecord
        <4>4. q = Keep(r, "messages", x)
          BY <4>1, <4>2 DEF RecordModelResponse
        <4>. QED BY <3>0, <3>2, <4>1, <4>3, <4>4 DEF Records
      <3>3. CASE o.call = "policy_evaluation"
        <4>1. q = RecordPolicyEvaluation(r, o) /\ FiledAs(o) = "policy_evaluation"
          BY <3>3 DEF Apply, FiledAs
        <4>2. PICK x : x = [VaultRecord("policy_evaluation") EXCEPT !.visit = r.current, !.body = o.body]
          OBVIOUS
        <4>3. x.type = "policy_evaluation" /\ x.visit = r.current /\ x.body = o.body
          BY <4>2 DEF VaultRecord
        <4>4. q = Keep(r, "policy", x)
          BY <4>1, <4>2 DEF RecordPolicyEvaluation
        <4>. QED BY <3>0, <3>3, <4>1, <4>3, <4>4 DEF Records
      <3>4. CASE o.call = "tool_result"
        <4>1. q = RecordToolResult(r, o) /\ FiledAs(o) = "tool_result"
          BY <3>4 DEF Apply, FiledAs
        <4>2. PICK x : x = [VaultRecord("tool_result") EXCEPT
                              !.tool = r.heldTool, !.visit = r.current, !.body = "ok", !.to = o.to, !.named = TRUE]
          OBVIOUS
        <4>3. x.type = "tool_result" /\ x.visit = r.current /\ x.body = "ok" /\ x.to = o.to
          BY <4>2 DEF VaultRecord
        <4>4. q = Keep(r, "results", x)
          BY <4>1, <4>2 DEF RecordToolResult
        <4>. QED BY <3>0, <3>4, <4>1, <4>3, <4>4 DEF Records
      <3>5. CASE o.call = "tool_error"
        <4>1. q = RecordToolError(r) /\ FiledAs(o) = "tool_result"
          BY <3>5 DEF Apply, FiledAs
        <4>2. PICK x : x = [VaultRecord("tool_result") EXCEPT
                              !.tool = r.heldTool, !.visit = r.current, !.body = "error"]
          OBVIOUS
        <4>3. x.type = "tool_result" /\ x.visit = r.current /\ x.body = "error" /\ x.to = None
          BY <4>2 DEF VaultRecord
        <4>4. q = Keep(r, "results", x)
          BY <4>1, <4>2 DEF RecordToolError
        <4>. QED BY <3>0, <3>5, <4>1, <4>3, <4>4 DEF Records
      <3>. QED BY <1>5, <3>1, <3>2, <3>3, <3>4, <3>5
    <2>2. PICK what \in Captured : \E x : q = Keep(r, what, x) /\ Records(x, o, r.current)
      BY <2>1
    <2>3. PICK x : q = Keep(r, what, x) /\ Records(x, o, r.current)
      BY <2>2
    <2>4. Loose(q) /\ SameCount(r, q) /\ SamePlace(r, q) /\ q.heldVisit = r.heldVisit
      BY <2>3, KeepBooks
    <2>5. Complete(r) => Files(types, r.vault, q.vault, o, r.current)
      BY <2>3, KeptFiles
    <2>. QED BY <2>4, <2>5
  <1>. QED BY <1>1, <1>2, <1>3, <1>4, <1>5 DEF Calls

\* The run s records is the one r records, at the same number and place.
SameRun(r, s) ==
  /\ s.config = r.config /\ s.finished = r.finished /\ s.heldVisit = r.heldVisit
  /\ s.live = r.live /\ SamePlace(r, s)

\* A record pushed.
LEMMA PushBooks ==
  ASSUME NEW r, Loose(r), NEW x, NEW s, s = Push(r, x)
  PROVE  /\ Loose(s) /\ SameRun(r, s) /\ s.exceeded = r.exceeded /\ s.vault = r.vault
         /\ s.events = Append(r.events, x)
  <1>1. s = [r EXCEPT !.events = Append(@, x)]
    BY DEF Push
  <1>2. Changes(r, s, {"events"}) /\ s.events = Append(r.events, x)
    BY <1>1 DEF Changes, Loose, RecorderFields
  <1>3. IsList(s.events)
    BY <1>2, ListAppend DEF IsAppended, Loose
  <1>4. /\ SameRun(r, s) /\ s.exceeded = r.exceeded /\ s.vault = r.vault
        /\ s.pendingTransitions = r.pendingTransitions
    BY <1>2 DEF Changes, RecorderFields, SameRun, SamePlace
  <1>. QED BY <1>2, <1>3, <1>4 DEF Loose, Changes, SameRun, SamePlace

\* A note of the host.
IsNote(N) == N.kind = "annotation" /\ N.seq = 0

\* The annotation of a visit that ended.
LEMMA AnnotateBooks ==
  ASSUME NEW r, Loose(r), NEW o, NEW s, s = AnnotateStage(r, o)
  PROVE  /\ Loose(s) /\ SameRun(r, s) /\ (r.exceeded => s.exceeded) /\ s.vault = r.vault
         /\ s.events = r.events \/ \E N : IsNote(N) /\ s.events = Append(r.events, N)
  <1>1. \/ s = r
        \/ \E n : \E b \in BOOLEAN : (r.exceeded => b) /\ s = [r EXCEPT !.dropped = n, !.exceeded = b]
        \/ \E N : IsNote(N) /\ s = Push(r, N)
    <2>1. PICK b : b = PublicRecord("annotation", o.stage, r.current)
      OBVIOUS
    <2>2. PICK N : N = [b EXCEPT !.shown = "marker", !.anchor = r.live]
      OBVIOUS
    <2>3. b.kind = "annotation" /\ b.seq = 0 /\ {"shown", "anchor"} \subseteq DOMAIN b
      BY <2>1 DEF PublicRecord
    <2>4. IsNote(N)
      BY <2>2, <2>3 DEF IsNote
    <2>5. CASE r.config.hook = "absent"
      BY <2>5 DEF AnnotateStage
    <2>6. CASE r.config.hook # "absent" /\ (r.config.hook = "fails" \/ (r.config.hook = "annotates" /\ Full(r)))
      <3>1. PICK c \in BOOLEAN : c = (r.config.hook = "annotates" \/ r.exceeded)
        OBVIOUS
      <3>2. PICK n : n = r.dropped + 1
        OBVIOUS
      <3>3. s = [r EXCEPT !.dropped = n, !.exceeded = c]
        BY <2>6, <3>1, <3>2 DEF AnnotateStage, Loose, RecorderFields
      <3>. QED BY <3>1, <3>3
    <2>7. CASE r.config.hook # "absent" /\ ~(r.config.hook = "fails" \/ (r.config.hook = "annotates" /\ Full(r)))
      <3>1. s = Push(r, N)
        BY <2>1, <2>2, <2>7 DEF AnnotateStage
      <3>. QED BY <2>4, <3>1
    <2>. QED BY <2>5, <2>6, <2>7
  <1>2. CASE s = r
    BY <1>2 DEF SameRun, SamePlace
  <1>3. CASE \E n : \E b \in BOOLEAN : (r.exceeded => b) /\ s = [r EXCEPT !.dropped = n, !.exceeded = b]
    <2>0. PICK n : \E b \in BOOLEAN : (r.exceeded => b) /\ s = [r EXCEPT !.dropped = n, !.exceeded = b]
      BY <1>3
    <2>1. PICK b \in BOOLEAN : (r.exceeded => b) /\ s = [r EXCEPT !.dropped = n, !.exceeded = b]
      BY <2>0
    <2>2. Changes(r, s, {"dropped", "exceeded"}) /\ s.exceeded = b
      BY <2>1 DEF Changes, Loose, RecorderFields
    <2>3. /\ SameRun(r, s) /\ s.vault = r.vault /\ s.events = r.events
          /\ s.pendingTransitions = r.pendingTransitions
      BY <2>2 DEF Changes, RecorderFields, SameRun, SamePlace
    <2>. QED BY <2>1, <2>2, <2>3 DEF Loose, Changes, SameRun, SamePlace
  <1>4. CASE \E N : IsNote(N) /\ s = Push(r, N)
    BY <1>4, PushBooks
  <1>. QED BY <1>1, <1>2, <1>3, <1>4

\* What is joined to the vault, if none of it is of these types.
LEMMA ConcatAddsNone ==
  ASSUME NEW v, NEW m, IsList(v), IsList(m), NEW types, \A i \in DOMAIN m : m[i].type \notin types
  PROVE  AddsNone(types, v, v \o m)
  <1>1. PICK w : w = v \o m
    OBVIOUS
  <1>2. /\ IsList(w) /\ Len(w) = Len(v) + Len(m)
        /\ \A i \in 1..(Len(v) + Len(m)) : w[i] = IF i <= Len(v) THEN v[i] ELSE m[i - Len(v)]
    BY <1>1, ListConcat
  <1>3. /\ Len(v) \in Nat /\ Len(m) \in Nat /\ DOMAIN v = 1..Len(v) /\ DOMAIN m = 1..Len(m)
        /\ DOMAIN w = 1..Len(w)
    BY <1>2, ListPlaces
  <1>4. Extends(v, w)
    BY <1>2, <1>3 DEF Extends
  <1>5. ASSUME NEW i \in DOMAIN w \ DOMAIN v PROVE w[i].type \notin types
    <2>1. i - Len(v) \in DOMAIN m /\ w[i] = m[i - Len(v)]
      BY <1>2, <1>3
    <2>. QED BY <2>1
  <1>. QED BY <1>1, <1>4, <1>5 DEF AddsNone

\* The evidence of a transition is filed when its event comes.
LEMMA FlushBooks ==
  ASSUME NEW r, Loose(r), NEW s, s = FlushTransitionEvidence(r), NEW types \in SUBSET Filing
  PROVE  /\ Loose(s) /\ SameRun(r, s) /\ s.exceeded = r.exceeded /\ s.events = r.events
         /\ AddsNone(types, r.vault, s.vault)
  <1>1. PICK pending : pending = At(r.pendingTransitions, r.current)
    OBVIOUS
  <1>2. PICK record : record = [VaultRecord("transition_evaluation") EXCEPT !.visit = r.current, !.seq = r.live]
    OBVIOUS
  <1>3. PICK more : more = [i \in DOMAIN pending |-> record]
    OBVIOUS
  <1>4. record.type = "transition_evaluation"
    BY <1>2 DEF VaultRecord
  <1>5. IsList(pending)
    BY <1>1 DEF Loose
  <1>6. IsList(more) /\ \A i \in DOMAIN more : more[i].type \notin types
    <2>1. PICK n \in Nat : DOMAIN pending = 1..n
      BY <1>5, ListPlaces
    <2>2. more = [i \in 1..n |-> record]
      BY <1>3, <2>1
    <2>3. more \in Seq({record})
      BY <2>2
    <2>4. "transition_evaluation" \notin types
      BY DEF Filing
    <2>. QED BY <1>4, <2>2, <2>3, <2>4 DEF IsList
  <1>7. CASE s = r
    BY <1>7, NothingAdded DEF SameRun, SamePlace, Loose
  <1>8. CASE s # r
    <2>1. s = [r EXCEPT !.pendingTransitions = Put(@, r.current, <<>>), !.vault = @ \o more]
      BY <1>1, <1>2, <1>3, <1>8 DEF FlushTransitionEvidence
    <2>2. /\ Changes(r, s, {"pendingTransitions", "vault"}) /\ s.vault = r.vault \o more
          /\ s.pendingTransitions = Put(r.pendingTransitions, r.current, <<>>)
      BY <2>1 DEF Changes, Loose, RecorderFields
    <2>3. \A v : IsList(At(s.pendingTransitions, v))
      BY <2>2, AtPut, EmptyList DEF Loose
    <2>4. AddsNone(types, r.vault, s.vault)
      BY <1>6, <2>2, ConcatAddsNone DEF Loose
    <2>5. SameRun(r, s) /\ s.exceeded = r.exceeded /\ s.events = r.events
      BY <2>2 DEF Changes, RecorderFields, SameRun, SamePlace
    <2>. QED BY <2>2, <2>3, <2>4, <2>5 DEF Loose, Changes, SameRun, SamePlace, AddsNone, Extends
  <1>. QED BY <1>7, <1>8

\* The ledger of s is that of r with the record of the event o as number n, and a
\* note of the host perhaps.
Posted(r, o, n, s) ==
  \E P : /\ Reports(P, o, n)
         /\ \/ s.events = Append(r.events, P)
            \/ \E N : IsNote(N) /\ s.events = Append(Append(r.events, P), N)

\* What the snapshot of a visit that ended files.
LEMMA SnapshotBooks ==
  ASSUME NEW r, Loose(r), NEW o, o.call = "event", o.kind = "stage_completed",
         NEW s, s = CaptureStageSnapshot(r, o), NEW types \in SUBSET Filing
  PROVE  /\ Loose(s) /\ SameRun(r, s) /\ s.exceeded = r.exceeded /\ s.events = r.events
         /\ Complete(r) => Files(types, r.vault, s.vault, o, r.current)
  <1>1. PICK x : x = [VaultRecord("stage_snapshot") EXCEPT
                        !.visit = r.current, !.seq = r.live, !.stage = o.stage, !.to = o.to]
    OBVIOUS
  <1>2. s = Keep(r, "snapshots", x)
    BY <1>1 DEF CaptureStageSnapshot
  <1>3. x.type = "stage_snapshot" /\ x.visit = r.current /\ x.stage = o.stage /\ x.to = o.to
    BY <1>1 DEF VaultRecord
  <1>4. Records(x, o, r.current)
    BY <1>3 DEF Records, FiledAs
  <1>5. "snapshots" \in Captured
    BY DEF Captured
  <1>6. Loose(s) /\ SameCount(r, s) /\ SamePlace(r, s) /\ s.heldVisit = r.heldVisit
    BY <1>2, KeepBooks
  <1>7. Complete(r) => Files(types, r.vault, s.vault, o, r.current)
    BY <1>2, <1>4, <1>5, KeptFiles
  <1>. QED BY <1>6, <1>7 DEF SameRun, SameCount

\* What an event does to the books, by what became of it.
Omitted(r, o, q) ==
  q.events = r.events /\ (q.exceeded \/ o.content = "name")
\* The event has its record in the ledger, and its file in a complete vault.
Entered(r, o, q) ==
  /\ o.content # "name" /\ ~r.exceeded /\ Posted(r, o, r.live + 1, q)
  /\ Complete(r) => \A types \in SUBSET Filing : Files(types, r.vault, q.vault, o, r.current)

\* An event counts, and has its record or is left out.
LEMMA EventBooks ==
  ASSUME NEW r, Loose(r), NEW o, o.call = "event", NEW q, q = Apply(r, o)
  PROVE  /\ Loose(q) /\ q.config = r.config /\ q.finished = r.finished /\ q.heldVisit = r.heldVisit
         /\ r.exceeded => q.exceeded
         /\ q.live = r.live + 1
         /\ o.kind # "stage_started" => SamePlace(r, q)
         /\ Omitted(r, o, q) \/ Entered(r, o, q)
  <1>1. PICK t : t = [r EXCEPT !.live = @ + 1]
    OBVIOUS
  <1>2. PICK s : s = Settled(t, o)
    OBVIOUS
  <1>3. PICK P : P = Project(t, s, o)
    OBVIOUS
  <1>4. PICK p : p = Push(s, P)
    OBVIOUS
  <1>5. Changes(r, t, {"live"}) /\ t.live = r.live + 1
    BY <1>1 DEF Changes, Loose, RecorderFields
  <1>6. /\ t.config = r.config /\ t.finished = r.finished /\ t.heldVisit = r.heldVisit
        /\ t.exceeded = r.exceeded /\ t.events = r.events /\ t.vault = r.vault
        /\ t.pendingTransitions = r.pendingTransitions /\ SamePlace(r, t)
    BY <1>5 DEF Changes, RecorderFields, SamePlace
  <1>7. Loose(t)
    BY <1>5, <1>6 DEF Loose, Changes, SamePlace
  <1>8. Loose(s) /\ SameBooks(t, s) /\ (o.kind # "stage_started" => SamePlace(t, s))
    BY <1>2, <1>7, SettledBooks
  <1>9. Loose(p) /\ SameRun(s, p) /\ p.exceeded = s.exceeded /\ p.vault = s.vault /\ p.events = Append(s.events, P)
    BY <1>4, <1>8, PushBooks
  <1>10. q = IF Full(t) THEN [t EXCEPT !.exceeded = TRUE]
             ELSE IF o.content = "name" THEN s
             ELSE CASE o.kind = "stage_completed" -> AnnotateStage(CaptureStageSnapshot(p, o), o)
                    [] o.kind = "transition_selected" -> FlushTransitionEvidence(p)
                    [] OTHER -> p
    <2>1. q = ObserveWorkflowEvent(r, o)
      BY DEF Apply
    <2>. QED BY <1>1, <1>2, <1>3, <1>4, <2>1 DEF ObserveWorkflowEvent
  <1>11. CASE Full(t)
    <2>1. q = [t EXCEPT !.exceeded = TRUE]
      BY <1>10, <1>11
    <2>2. Changes(t, q, {"exceeded"}) /\ q.exceeded
      BY <1>7, <2>1 DEF Changes, Loose, RecorderFields
    <2>3. SameRun(t, q) /\ q.events = t.events /\ q.vault = t.vault /\ q.pendingTransitions = t.pendingTransitions
      BY <2>2 DEF Changes, RecorderFields, SameRun, SamePlace
    <2>4. Loose(q)
      BY <1>7, <2>2, <2>3 DEF Loose, Changes, SameRun, SamePlace
    <2>. QED BY <1>5, <1>6, <2>2, <2>3, <2>4 DEF Omitted, SameRun, SamePlace
  <1>12. CASE ~Full(t) /\ o.content = "name"
    <2>1. q = s
      BY <1>10, <1>12
    <2>. QED BY <1>5, <1>6, <1>8, <1>12, <2>1 DEF Omitted, SameBooks, SamePlace
  <1>13. CASE ~Full(t) /\ o.content # "name"
    <2>1. Reports(P, o, r.live + 1)
      BY <1>3, <1>5, ProjectReports
    <2>2. ~r.exceeded
      BY <1>6, <1>13 DEF Full
    <2>3. /\ p.config = r.config /\ p.finished = r.finished /\ p.heldVisit = r.heldVisit /\ p.live = r.live + 1
          /\ p.exceeded = r.exceeded /\ p.events = Append(r.events, P) /\ p.vault = r.vault
          /\ (o.kind # "stage_started" => SamePlace(r, p))
      BY <1>5, <1>6, <1>8, <1>9 DEF SameRun, SameBooks, SamePlace
    <2>4. Complete(p) <=> Complete(r)
      BY <2>3 DEF Complete, VaultEnabled
    <2>5. CASE o.kind = "stage_completed"
      <3>1. PICK c : c = CaptureStageSnapshot(p, o)
        OBVIOUS
      <3>2. Loose(c) /\ SameRun(p, c) /\ c.exceeded = p.exceeded /\ c.events = p.events
        BY <1>9, <2>5, <3>1, SnapshotBooks
      <3>3. \A types \in SUBSET Filing : Complete(p) => Files(types, p.vault, c.vault, o, p.current)
        BY <1>9, <2>5, <3>1, SnapshotBooks
      <3>4. q = AnnotateStage(c, o)
        BY <1>10, <1>13, <2>5, <3>1
      <3>5. /\ Loose(q) /\ SameRun(c, q) /\ (c.exceeded => q.exceeded) /\ q.vault = c.vault
            /\ q.events = c.events \/ \E N : IsNote(N) /\ q.events = Append(c.events, N)
        BY <3>2, <3>4, AnnotateBooks
      <3>6. Posted(r, o, r.live + 1, q)
        BY <2>1, <2>3, <3>2, <3>5 DEF Posted
      <3>7. p.current = r.current
        BY <2>3, <2>5 DEF SamePlace
      <3>8. Complete(r) => \A types \in SUBSET Filing : Files(types, r.vault, q.vault, o, r.current)
        BY <2>3, <2>4, <3>3, <3>5, <3>7
      <3>9. Entered(r, o, q)
        BY <1>13, <2>2, <3>6, <3>8 DEF Entered
      <3>. QED BY <2>2, <2>3, <3>2, <3>5, <3>9 DEF SameRun, SamePlace
    <2>6. CASE o.kind # "stage_completed"
      <3>1. FiledAs(o) = None
        BY <2>6 DEF FiledAs
      <3>2. \A types \in SUBSET Filing : FiledAs(o) \notin types
        BY <3>1 DEF Filing, None
      <3>3. CASE o.kind = "transition_selected"
        <4>1. q = FlushTransitionEvidence(p)
          BY <1>10, <1>13, <3>3
        <4>2. Loose(q) /\ SameRun(p, q) /\ q.exceeded = p.exceeded /\ q.events = p.events
          BY <1>9, <4>1, FlushBooks
        <4>3. \A types \in SUBSET Filing : AddsNone(types, p.vault, q.vault)
          BY <1>9, <4>1, FlushBooks
        <4>4. \A types \in SUBSET Filing : Files(types, r.vault, q.vault, o, r.current)
          BY <2>3, <3>2, <4>3 DEF Files
        <4>5. Entered(r, o, q)
          BY <1>13, <2>1, <2>2, <2>3, <4>2, <4>4 DEF Entered, Posted
        <4>. QED BY <2>2, <2>3, <4>2, <4>5 DEF SameRun, SamePlace
      <3>4. CASE o.kind # "transition_selected"
        <4>1. q = p
          BY <1>10, <1>13, <2>6, <3>4
        <4>2. \A types \in SUBSET Filing : Files(types, r.vault, q.vault, o, r.current)
          BY <2>3, <3>2, <4>1, NothingAdded DEF Files, Loose
        <4>3. Entered(r, o, q)
          BY <1>13, <2>1, <2>2, <2>3, <4>1, <4>2 DEF Entered, Posted
        <4>. QED BY <1>9, <2>2, <2>3, <4>1, <4>3
      <3>. QED BY <3>3, <3>4
    <2>. QED BY <2>5, <2>6
  <1>. QED BY <1>11, <1>12, <1>13

-----------------------------------------------------------------------------
(* Recorders that kept count *)

\* The records of events, and a recorder that has one for every event it saw.
Numbered(events) == {e \in {events[i] : i \in DOMAIN events} : e.seq # 0}
\* There are at most as many numbered records as live events, with their numbers.
Counted(r) ==
  /\ IsFiniteSet(Numbered(r.events)) /\ Cardinality(Numbered(r.events)) \in 0..r.live
  /\ \A e \in Numbered(r.events) : e.seq \in 1..r.live
\* Nothing was left out: every live event has its record.
Kept(r) == ~r.exceeded /\ r.live = Cardinality(Numbered(r.events))

\* One more record is one more number, unless it is an annotation.
LEMMA NumberedAppend ==
  ASSUME NEW s, NEW e, NEW t, IsAppended(t, s, e)
  PROVE  /\ e.seq # 0 => Numbered(t) = Numbered(s) \cup {e}
         /\ e.seq = 0 => Numbered(t) = Numbered(s)
  <1>1. {t[i] : i \in DOMAIN t} = {s[i] : i \in DOMAIN s} \cup {e}
    <2>1. DOMAIN t = DOMAIN s \cup {Len(s) + 1} /\ t[Len(s) + 1] = e /\ \A i \in DOMAIN s : t[i] = s[i]
      BY DEF IsAppended
    <2>2. PICK n : n = Len(s) + 1
      OBVIOUS
    <2>3. DOMAIN t = DOMAIN s \cup {n} /\ t[n] = e
      BY <2>1, <2>2
    <2>. QED BY <2>1, <2>3
  <1>. QED BY <1>1 DEF Numbered

\* The ledger after an event that was entered.
LEMMA PostedEvents ==
  ASSUME NEW r, Loose(r), NEW o, NEW q, NEW n \in Nat \ {0}, Posted(r, o, n, q)
  PROVE  /\ \E P : P.seq = n /\ Numbered(q.events) = Numbered(r.events) \cup {P}
         /\ Keys(q.events) = IF Milestone(o) THEN Append(Keys(r.events), Key(o)) ELSE Keys(r.events)
  <1>1. PICK P : /\ Reports(P, o, n)
                 /\ \/ q.events = Append(r.events, P)
                    \/ \E N : IsNote(N) /\ q.events = Append(Append(r.events, P), N)
    BY DEF Posted
  <1>2. PICK t : t = Append(r.events, P)
    OBVIOUS
  <1>3. IsAppended(t, r.events, P)
    BY <1>2, ListAppend DEF Loose
  <1>4. P.seq = n /\ Numbered(t) = Numbered(r.events) \cup {P}
    BY <1>1, <1>3, NumberedAppend DEF Reports
  <1>5. Keys(t) = IF Milestone(P) THEN Append(Keys(r.events), Key(P)) ELSE Keys(r.events)
    BY <1>3, KeysAppend DEF Loose
  <1>6. Keys(t) = IF Milestone(o) THEN Append(Keys(r.events), Key(o)) ELSE Keys(r.events)
    BY <1>1, <1>5 DEF Reports
  <1>7. CASE q.events = t
    BY <1>4, <1>6, <1>7
  <1>8. CASE \E N : IsNote(N) /\ q.events = Append(t, N)
    <2>1. PICK N : IsNote(N) /\ q.events = Append(t, N)
      BY <1>8
    <2>2. PICK u : u = q.events
      OBVIOUS
    <2>3. IsList(t)
      BY <1>3 DEF IsAppended
    <2>4. IsAppended(u, t, N)
      BY <2>1, <2>2, <2>3, ListAppend
    <2>5. Numbered(u) = Numbered(t)
      BY <2>1, <2>4, NumberedAppend DEF IsNote
    <2>6. Keys(u) = Keys(t)
      <3>1. ~Milestone(N)
        BY <2>1 DEF IsNote, Milestone
      <3>. QED BY <2>3, <2>4, <3>1, KeysAppend
    <2>. QED BY <1>4, <1>6, <2>2, <2>5, <2>6
  <1>. QED BY <1>1, <1>2, <1>7, <1>8

\* What the comparison sees of a call.
IsSeen(o) == o.call = "event" /\ Milestone(o)
\* A call that leaves the place.
Stays(o) == o.call # "stage_visit" /\ ~(o.call = "event" /\ o.kind = "stage_started")

\* One call on a recorder: what holds of it after, and before if it kept count.
Called(r, o, q) ==
  /\ Loose(q) /\ Counted(q) /\ q.config = r.config /\ q.finished = r.finished
  /\ Stays(o) => SamePlace(r, q)
  /\ Kept(q) =>
       /\ Kept(r)
       /\ o.call = "event" => o.content # "name"
       /\ Keys(q.events) = IF IsSeen(o) THEN Append(Keys(r.events), Key(o)) ELSE Keys(r.events)
       /\ Complete(r) => \A types \in SUBSET Filing : Files(types, r.vault, q.vault, o, r.current)

\* What one call does to the books.
LEMMA CallBooks ==
  ASSUME NEW r, Loose(r), Counted(r), NEW o \in Calls, NEW q, q = Apply(r, o)
  PROVE  Called(r, o, q)
  <1>1. CASE o.call # "event"
    <2>1. Loose(q) /\ SameCount(r, q) /\ (Stays(o) => SamePlace(r, q))
      BY <1>1, HookBooks DEF Stays
    <2>2. Complete(r) => \A types \in SUBSET Filing : Files(types, r.vault, q.vault, o, r.current)
      BY <1>1, HookBooks
    <2>3. Counted(q) /\ (Kept(q) <=> Kept(r))
      BY <2>1 DEF SameCount, Counted, Kept
    <2>. QED BY <1>1, <2>1, <2>2, <2>3 DEF Called, SameCount, IsSeen
  <1>2. CASE o.call = "event"
    <2>1. /\ Loose(q) /\ q.config = r.config /\ q.finished = r.finished
          /\ r.exceeded => q.exceeded
          /\ q.live = r.live + 1
          /\ o.kind # "stage_started" => SamePlace(r, q)
          /\ Omitted(r, o, q) \/ Entered(r, o, q)
      BY <1>2, EventBooks
    <2>2. r.live \in Nat /\ 1..r.live \subseteq 1..q.live
      BY <2>1 DEF Loose
    <2>3. CASE Omitted(r, o, q)
      <3>1. q.events = r.events /\ (q.exceeded \/ o.content = "name")
        BY <2>3 DEF Omitted
      <3>2. PICK k : k = Cardinality(Numbered(r.events))
        OBVIOUS
      <3>3. k \in 0..r.live
        BY <3>2 DEF Counted
      <3>4. k \in 0..q.live /\ k # q.live
        BY <2>1, <2>2, <3>3
      <3>5. Counted(q)
        BY <2>2, <3>1, <3>2, <3>4 DEF Counted
      <3>6. ~Kept(q)
        BY <3>1, <3>2, <3>4 DEF Kept
      <3>. QED BY <1>2, <2>1, <3>5, <3>6 DEF Called, Stays
    <2>4. CASE Entered(r, o, q)
      <3>1. PICK n \in Nat : n = r.live
        BY <2>2
      <3>2. Posted(r, o, n + 1, q) /\ n + 1 \in Nat \ {0}
        BY <2>4, <3>1 DEF Entered
      <3>3. PICK P : P.seq = n + 1 /\ Numbered(q.events) = Numbered(r.events) \cup {P}
        BY <3>2, PostedEvents
      <3>4. Keys(q.events) = IF Milestone(o) THEN Append(Keys(r.events), Key(o)) ELSE Keys(r.events)
        BY <3>2, PostedEvents
      <3>5. P \notin Numbered(r.events)
        <4>1. \A e \in Numbered(r.events) : e.seq \in 1..n
          BY <3>1 DEF Counted
        <4>2. ~(n + 1 \in 1..n)
          OBVIOUS
        <4>. QED BY <3>3, <4>1, <4>2
      <3>6. PICK E : E = Numbered(r.events)
        OBVIOUS
      <3>7. PICK k : k = Cardinality(E)
        OBVIOUS
      <3>8. IsFiniteSet(E) /\ k \in 0..n /\ P \notin E /\ Numbered(q.events) = E \cup {P}
        BY <3>1, <3>3, <3>5, <3>6, <3>7 DEF Counted
      <3>9. IsFiniteSet(E \cup {P}) /\ Cardinality(E \cup {P}) = k + 1
        BY <3>7, <3>8, FS_AddElement
      <3>10. q.live = n + 1 /\ k + 1 \in 0..(n + 1) /\ P.seq \in 1..(n + 1) /\ 1..n \subseteq 1..(n + 1)
        BY <2>1, <3>1, <3>3, <3>8
      <3>11. \A e \in E \cup {P} : e.seq \in 1..(n + 1)
        BY <3>1, <3>6, <3>10 DEF Counted
      <3>12. Counted(q)
        BY <3>8, <3>9, <3>10, <3>11 DEF Counted
      <3>13. Kept(q) => Kept(r)
        <4>1. k \in Nat /\ (n + 1 = k + 1 => n = k)
          BY <3>8
        <4>2. Cardinality(Numbered(q.events)) = k + 1
          BY <3>8, <3>9
        <4>. QED BY <2>1, <3>1, <3>6, <3>7, <3>10, <4>1, <4>2 DEF Kept
      <3>14. o.content # "name" /\ (Complete(r) => \A types \in SUBSET Filing : Files(types, r.vault, q.vault, o, r.current))
        BY <2>4 DEF Entered
      <3>. QED BY <1>2, <2>1, <3>4, <3>12, <3>13, <3>14 DEF Called, Stays, IsSeen
    <2>. QED BY <2>1, <2>3, <2>4
  <1>. QED BY <1>1, <1>2

-----------------------------------------------------------------------------
(* What the calls of a step write *)

\* s goes from r to q with the calls c, one by one.
Booked(s, r, c, q) ==
  /\ s[0] = r /\ q = s[Len(c)]
  /\ \A n \in 1..Len(c) : c[n] \in Calls /\ Called(s[n - 1], c[n], s[n])
  /\ \A n \in 0..Len(c) : Loose(s[n]) /\ s[n].config = r.config
  /\ Kept(q) => \A n \in 0..Len(c) : Kept(s[n])

\* What holds of a step as a whole.
StepBooks(r, q) ==
  Loose(q) /\ Counted(q) /\ q.config = r.config /\ q.finished = r.finished /\ (Kept(q) => Kept(r))

\* The calls of a step go from recorder to recorder, and none is left out in between
\* if none is in the end.
LEMMA StepChain ==
  ASSUME NEW r, Loose(r), Counted(r), NEW c \in Seq(Calls), Len(c) \in 0..5, NEW q, q = After(r, c)
  PROVE  StepBooks(r, q) /\ \E s : Booked(s, r, c, q)
  <1>1. PICK s : /\ s[0] = r
                 /\ \A n \in 1..Len(c) : s[n] = Apply(s[n - 1], c[n])
                 /\ After(r, c) = s[Len(c)]
    BY AfterCalls
  <1>2. PICK L \in Nat : L = Len(c)
    OBVIOUS
  <1>3. \A n \in 1..L : c[n] \in Calls
    BY <1>2, ElementOfSeq
  <1>. DEFINE T == {n \in Nat : n <= L =>
                       /\ Loose(s[n]) /\ Counted(s[n]) /\ s[n].config = r.config /\ s[n].finished = r.finished
                       /\ n # 0 => Called(s[n - 1], c[n], s[n])}
  <1>4. 0 \in T
    BY <1>1
  <1>5. ASSUME NEW n \in Nat, n \in T PROVE n + 1 \in T
    <2>. SUFFICES ASSUME n + 1 <= L
                  PROVE  /\ Loose(s[n + 1]) /\ Counted(s[n + 1]) /\ s[n + 1].config = r.config
                         /\ s[n + 1].finished = r.finished
                         /\ Called(s[n], c[n + 1], s[n + 1])
      OBVIOUS
    <2>1. n <= L /\ n + 1 \in 1..L /\ (n + 1) - 1 = n
      OBVIOUS
    <2>2. Loose(s[n]) /\ Counted(s[n]) /\ s[n].config = r.config /\ s[n].finished = r.finished
      BY <1>5, <2>1
    <2>3. s[n + 1] = Apply(s[n], c[n + 1])
      BY <1>1, <1>2, <2>1
    <2>4. Called(s[n], c[n + 1], s[n + 1])
      BY <1>3, <2>1, <2>2, <2>3, CallBooks
    <2>. QED BY <2>2, <2>4 DEF Called
  <1>. HIDE DEF T
  <1>6. \A n \in Nat : n \in T
    BY <1>4, <1>5, Induct
  <1>7. \A n \in 1..L : Called(s[n - 1], c[n], s[n])
    <2>. SUFFICES ASSUME NEW n \in 1..L PROVE Called(s[n - 1], c[n], s[n])
      OBVIOUS
    <2>1. n \in Nat /\ n <= L /\ n # 0
      OBVIOUS
    <2>. QED BY <1>6, <2>1 DEF T
  <1>8. \A n \in 0..L : Loose(s[n]) /\ s[n].config = r.config
    <2>. SUFFICES ASSUME NEW n \in 0..L PROVE Loose(s[n]) /\ s[n].config = r.config
      OBVIOUS
    <2>1. n \in Nat /\ n <= L
      OBVIOUS
    <2>. QED BY <1>6, <2>1 DEF T
  <1>9. Loose(q) /\ Counted(q) /\ q.config = r.config /\ q.finished = r.finished
    <2>1. L <= L
      OBVIOUS
    <2>2. q = s[L]
      BY <1>1, <1>2
    <2>. QED BY <1>6, <2>1, <2>2 DEF T
  <1>10. ASSUME Kept(q) PROVE \A n \in 0..L : Kept(s[n])
    <2>. DEFINE U == {n \in Nat : n <= L => Kept(s[L - n])}
    <2>1. 0 \in U
      BY <1>1, <1>2, <1>10
    <2>2. ASSUME NEW n \in Nat, n \in U PROVE n + 1 \in U
      <3>. SUFFICES ASSUME n + 1 <= L PROVE Kept(s[L - (n + 1)])
        OBVIOUS
      <3>1. PICK m \in 1..L : m = L - n
        OBVIOUS
      <3>2. m - 1 = L - (n + 1) /\ n <= L
        BY <3>1
      <3>3. Kept(s[m])
        BY <2>2, <3>1, <3>2
      <3>4. Called(s[m - 1], c[m], s[m])
        BY <1>7
      <3>. QED BY <3>2, <3>3, <3>4 DEF Called
    <2>. HIDE DEF U
    <2>3. \A n \in Nat : n \in U
      BY <2>1, <2>2, Induct
    <2>4. ASSUME NEW n \in 0..L PROVE Kept(s[n])
      <3>1. L - n \in Nat /\ L - n <= L /\ L - (L - n) = n
        OBVIOUS
      <3>. QED BY <2>3, <3>1 DEF U
    <2>. QED BY <2>4
  <1>11. Kept(q) => Kept(r)
    <2>1. 0 \in 0..L
      OBVIOUS
    <2>. QED BY <1>1, <1>10, <2>1
  <1>12. Booked(s, r, c, q)
    BY <1>1, <1>2, <1>3, <1>7, <1>8, <1>10 DEF Booked
  <1>. QED BY <1>9, <1>11, <1>12 DEF StepBooks

\* Calls that leave the place, up to the call m, leave it.
LEMMA ChainStays ==
  ASSUME NEW r, NEW c, NEW q, NEW s, Booked(s, r, c, q), NEW L \in Nat, L = Len(c), NEW m \in 0..L,
         \A k \in 1..m : Stays(c[k])
  PROVE  SamePlace(r, s[m])
  <1>. DEFINE T == {n \in Nat : n <= m => SamePlace(r, s[n])}
  <1>1. 0 \in T
    BY DEF Booked, SamePlace
  <1>2. ASSUME NEW n \in Nat, n \in T PROVE n + 1 \in T
    <2>. SUFFICES ASSUME n + 1 <= m PROVE SamePlace(r, s[n + 1])
      OBVIOUS
    <2>1. n <= m /\ n + 1 \in 1..m /\ n + 1 \in 1..L /\ (n + 1) - 1 = n
      OBVIOUS
    <2>2. SamePlace(r, s[n])
      BY <1>2, <2>1
    <2>3. Called(s[n], c[n + 1], s[n + 1])
      BY <2>1 DEF Booked
    <2>. QED BY <2>1, <2>2, <2>3 DEF Called, SamePlace
  <1>. HIDE DEF T
  <1>3. m \in T
    BY <1>1, <1>2, Induct
  <1>. QED BY <1>3 DEF T

\* The call n writes as Files says, if count was kept.
LEMMA ChainFiles ==
  ASSUME NEW r, NEW c, NEW q, NEW s, Booked(s, r, c, q), Kept(q), Complete(r), NEW L \in Nat, L = Len(c),
         NEW n \in 1..L, NEW types \in SUBSET Filing
  PROVE  Files(types, s[n - 1].vault, s[n].vault, c[n], s[n - 1].current)
  <1>1. n \in 0..L /\ n - 1 \in 0..L
    OBVIOUS
  <1>2. Called(s[n - 1], c[n], s[n]) /\ Kept(s[n]) /\ s[n - 1].config = r.config
    BY <1>1 DEF Booked
  <1>3. Complete(s[n - 1])
    BY <1>2 DEF Complete, VaultEnabled
  <1>. QED BY <1>2, <1>3 DEF Called

\* Calls between i and m that file nothing of these types add nothing of them.
LEMMA ChainAddsNone ==
  ASSUME NEW r, NEW c, NEW q, NEW s, Booked(s, r, c, q), Kept(q), Complete(r), NEW L \in Nat, L = Len(c),
         NEW types \in SUBSET Filing, NEW i \in 0..L, NEW m \in 0..L, i <= m,
         \A k \in (i + 1)..m : FiledAs(c[k]) \notin types
  PROVE  AddsNone(types, s[i].vault, s[m].vault)
  <1>. DEFINE T == {n \in Nat : i + n <= m => AddsNone(types, s[i].vault, s[i + n].vault)}
  <1>1. 0 \in T
    <2>1. IsList(s[i].vault) /\ i + 0 = i
      BY DEF Booked, Loose
    <2>. QED BY <2>1, NothingAdded
  <1>2. ASSUME NEW n \in Nat, n \in T PROVE n + 1 \in T
    <2>. SUFFICES ASSUME i + (n + 1) <= m PROVE AddsNone(types, s[i].vault, s[i + (n + 1)].vault)
      OBVIOUS
    <2>1. PICK k \in (i + 1)..m : k = i + (n + 1)
      OBVIOUS
    <2>2. k \in 1..L /\ k - 1 = i + n /\ i + n <= m
      BY <2>1
    <2>3. AddsNone(types, s[i].vault, s[k - 1].vault)
      BY <1>2, <2>2
    <2>4. Files(types, s[k - 1].vault, s[k].vault, c[k], s[k - 1].current)
      BY <2>2, ChainFiles
    <2>5. AddsNone(types, s[k - 1].vault, s[k].vault)
      BY <2>4 DEF Files
    <2>. QED BY <2>1, <2>3, <2>5, AddsChain
  <1>. HIDE DEF T
  <1>3. \A n \in Nat : n \in T
    BY <1>1, <1>2, Induct
  <1>4. m - i \in Nat /\ i + (m - i) = m
    OBVIOUS
  <1>. QED BY <1>3, <1>4 DEF T

\* The only call of c that files a record of these types is the call k.
Sole(types, c, k) ==
  /\ k \in 1..Len(c) /\ FiledAs(c[k]) \in types
  /\ \A i \in 1..Len(c) : i # k => FiledAs(c[i]) \notin types
\* No call of c does.
NoneOf(types, c) == \A i \in 1..Len(c) : FiledAs(c[i]) \notin types

\* A step none of whose calls files a type adds no record of it.
LEMMA StepAddsNone ==
  ASSUME NEW r, NEW c, Len(c) \in Nat, NEW q, NEW s, Booked(s, r, c, q), Kept(q), Complete(r),
         NEW types \in SUBSET Filing, NoneOf(types, c)
  PROVE  AddsNone(types, r.vault, q.vault)
  <1>1. PICK L \in Nat : L = Len(c)
    OBVIOUS
  <1>2. 0 \in 0..L /\ L \in 0..L /\ 0 <= L /\ \A k \in (0 + 1)..L : FiledAs(c[k]) \notin types
    BY <1>1 DEF NoneOf
  <1>3. AddsNone(types, s[0].vault, s[L].vault)
    BY <1>1, <1>2, ChainAddsNone
  <1>. QED BY <1>1, <1>3 DEF Booked

\* A step one of whose calls files a type adds that record only.
LEMMA StepAddsOnly ==
  ASSUME NEW r, NEW c, Len(c) \in Nat, NEW q, NEW s, Booked(s, r, c, q), Kept(q), Complete(r),
         NEW types \in SUBSET Filing, NEW k, Sole(types, c, k), \A i \in 1..(k - 1) : Stays(c[i])
  PROVE  \E x : Records(x, c[k], r.current) /\ AddsOnly(types, r.vault, q.vault, x)
  <1>1. PICK L \in Nat : L = Len(c)
    OBVIOUS
  <1>2. k \in 1..L /\ k - 1 \in 0..L /\ k \in 0..L /\ 0 \in 0..L /\ L \in 0..L /\ 0 <= k - 1 /\ k <= L
    BY <1>1 DEF Sole
  <1>3. AddsNone(types, s[0].vault, s[k - 1].vault)
    <2>1. \A i \in (0 + 1)..(k - 1) : FiledAs(c[i]) \notin types
      <3>. SUFFICES ASSUME NEW i \in (0 + 1)..(k - 1) PROVE FiledAs(c[i]) \notin types
        OBVIOUS
      <3>1. i \in 1..L /\ i # k
        BY <1>2
      <3>. QED BY <1>1, <3>1 DEF Sole
    <2>. QED BY <1>1, <1>2, <2>1, ChainAddsNone
  <1>4. AddsNone(types, s[k].vault, s[L].vault)
    <2>1. \A i \in (k + 1)..L : FiledAs(c[i]) \notin types
      <3>. SUFFICES ASSUME NEW i \in (k + 1)..L PROVE FiledAs(c[i]) \notin types
        OBVIOUS
      <3>1. i \in 1..L /\ i # k
        BY <1>2
      <3>. QED BY <1>1, <3>1 DEF Sole
    <2>. QED BY <1>1, <1>2, <2>1, ChainAddsNone
  <1>5. SamePlace(r, s[k - 1])
    BY <1>1, <1>2, ChainStays
  <1>6. Files(types, s[k - 1].vault, s[k].vault, c[k], s[k - 1].current)
    BY <1>1, <1>2, ChainFiles
  <1>7. PICK x : Records(x, c[k], s[k - 1].current) /\ AddsOnly(types, s[k - 1].vault, s[k].vault, x)
    BY <1>6 DEF Files, Sole
  <1>8. AddsOnly(types, s[0].vault, s[k].vault, x)
    BY <1>3, <1>7, AddsThen
  <1>9. AddsOnly(types, s[0].vault, s[L].vault, x)
    BY <1>4, <1>8, AddsChain
  <1>10. s[0] = r /\ q = s[L] /\ s[k - 1].current = r.current
    BY <1>1, <1>5 DEF Booked, SamePlace
  <1>. QED BY <1>7, <1>9, <1>10

-----------------------------------------------------------------------------
(* What a step adds to a path *)

\* The call a is the call b, but for what it holds.
AsCalled(a, b) ==
  a.call = b.call /\ a.kind = b.kind /\ a.stage = b.stage /\ a.to = b.to /\ a.denied = b.denied
\* Lists of such calls.
Mirrors(d, c) ==
  IsList(d) /\ Len(d) = Len(c) /\ \A k \in 1..Len(c) : AsCalled(d[k], c[k])

\* f collects the events of d.
Emits(f, d) == Collects(f, d, {i \in DOMAIN d : d[i].call = "event"}) /\ EventsOf(d) = f[Len(d)]

\* One more call emits its event behind those emitted.
LEMMA EmitsOne ==
  ASSUME NEW d, IsList(d), NEW f, Emits(f, d), NEW p, IsList(p), NEW n \in Nat, n + 1 <= Len(d)
  PROVE  /\ d[n + 1].call # "event" => p \o f[n + 1] = p \o f[n]
         /\ d[n + 1].call = "event" => IsAppended(p \o f[n + 1], p \o f[n], d[n + 1])
         /\ IsList(f[n]) /\ IsList(p \o f[n])
  <1>. DEFINE K == {i \in DOMAIN d : d[i].call = "event"}
  <1>1. Len(d) \in Nat /\ DOMAIN d = 1..Len(d)
    BY ListPlaces
  <1>2. n + 1 \in 1..Len(d) /\ (n + 1) - 1 = n /\ n \in 0..Len(d) /\ (n + 1 \in K <=> d[n + 1].call = "event")
    BY <1>1
  <1>. HIDE DEF K
  <1>3. Collects(f, d, K)
    BY DEF Emits, K
  <1>4. f[n + 1] = IF n + 1 \in K THEN Append(f[n], d[n + 1]) ELSE f[n]
    BY <1>2, <1>3 DEF Collects
  <1>5. IsList(f[n])
    BY <1>2, <1>3, CollectsPart DEF IsPart
  <1>6. IsList(p \o f[n])
    BY <1>5, ListConcat
  <1>7. ASSUME d[n + 1].call = "event" PROVE IsAppended(p \o f[n + 1], p \o f[n], d[n + 1])
    <2>1. PICK e : e = d[n + 1]
      OBVIOUS
    <2>2. PICK u : u = f[n]
      OBVIOUS
    <2>3. f[n + 1] = Append(u, e)
      BY <1>2, <1>4, <1>7, <2>1, <2>2
    <2>4. p \o Append(u, e) = Append(p \o u, e)
      BY <1>5, <2>2, ConcatOne
    <2>5. IsAppended(Append(p \o u, e), p \o u, e)
      BY <1>6, <2>2, ListAppend
    <2>. QED BY <2>1, <2>2, <2>3, <2>4, <2>5
  <1>. QED BY <1>2, <1>4, <1>5, <1>6, <1>7

\* The events of all calls of a list.
LEMMA EmitsAll ==
  ASSUME NEW d, IsList(d), NEW p, IsList(p)
  PROVE  \E f : Emits(f, d) /\ p \o f[0] = p /\ IsList(p \o f[Len(d)])
  <1>. DEFINE K == {i \in DOMAIN d : d[i].call = "event"}
  <1>1. PICK f : Collects(f, d, K) /\ Pick(d, K) = f[Len(d)]
    BY PickCollects
  <1>2. f[0] = <<>> /\ p \o <<>> = p
    BY <1>1, EmptyList, ConcatOne DEF Collects
  <1>3. Len(d) \in 0..Len(d)
    BY ListPlaces
  <1>4. IsList(f[Len(d)])
    BY <1>1, <1>3, CollectsPart DEF IsPart
  <1>5. IsList(p \o f[Len(d)])
    BY <1>4, ListConcat
  <1>6. Emits(f, d)
    BY <1>1 DEF Emits, EventsOf
  <1>. QED BY <1>2, <1>5, <1>6

\* A replayed step that mirrors a recorded one keeps the paths alike.
LEMMA PathKeys ==
  ASSUME NEW r, NEW c, NEW q, NEW s, Booked(s, r, c, q), Kept(q), NEW d, Mirrors(d, c),
         NEW p, IsList(p), Keys(p) = Keys(r.events)
  PROVE  IsList(p \o EventsOf(d)) /\ Keys(p \o EventsOf(d)) = Keys(q.events)
  <1>1. IsList(d) /\ Len(d) = Len(c) /\ \A k \in 1..Len(c) : AsCalled(d[k], c[k])
    BY DEF Mirrors
  <1>2. PICK f : Emits(f, d) /\ p \o f[0] = p /\ IsList(p \o f[Len(d)])
    BY <1>1, EmitsAll
  <1>3. PICK L \in Nat : L = Len(d)
    BY <1>1, ListPlaces
  <1>. DEFINE T == {n \in Nat : n <= L => Keys(p \o f[n]) = Keys(s[n].events)}
  <1>4. 0 \in T
    BY <1>2 DEF Booked
  <1>5. ASSUME NEW n \in Nat, n \in T PROVE n + 1 \in T
    <2>. SUFFICES ASSUME n + 1 <= L PROVE Keys(p \o f[n + 1]) = Keys(s[n + 1].events)
      OBVIOUS
    <2>1. n <= L /\ n + 1 \in 1..L /\ (n + 1) - 1 = n /\ n + 1 \in 0..L
      OBVIOUS
    <2>2. Keys(p \o f[n]) = Keys(s[n].events)
      BY <1>5, <2>1
    <2>3. Called(s[n], c[n + 1], s[n + 1]) /\ Kept(s[n + 1])
      BY <1>1, <1>3, <2>1 DEF Booked
    <2>4. Keys(s[n + 1].events) = IF IsSeen(c[n + 1]) THEN Append(Keys(s[n].events), Key(c[n + 1]))
                                  ELSE Keys(s[n].events)
      BY <2>3 DEF Called
    <2>5. AsCalled(d[n + 1], c[n + 1])
      BY <1>1, <1>3, <2>1
    <2>6. /\ (IsSeen(c[n + 1]) <=> IsSeen(d[n + 1])) /\ Key(c[n + 1]) = Key(d[n + 1])
      BY <2>5 DEF AsCalled, IsSeen, Milestone, Key
    <2>7. PICK u : u = p \o f[n]
      OBVIOUS
    <2>8. PICK w : w = p \o f[n + 1]
      OBVIOUS
    <2>9. IsList(u) /\ (d[n + 1].call # "event" => w = u) /\ (d[n + 1].call = "event" => IsAppended(w, u, d[n + 1]))
      <3>0. IsList(d) /\ Emits(f, d) /\ IsList(p) /\ n \in Nat /\ n + 1 <= Len(d)
        BY <1>1, <1>2, <1>3, <2>1
      <3>1. /\ d[n + 1].call # "event" => p \o f[n + 1] = p \o f[n]
            /\ d[n + 1].call = "event" => IsAppended(p \o f[n + 1], p \o f[n], d[n + 1])
            /\ IsList(p \o f[n])
        <4>1. ASSUME d[n + 1].call # "event" PROVE p \o f[n + 1] = p \o f[n]
          BY ONLY <3>0, <4>1, EmitsOne
        <4>2. d[n + 1].call = "event" => IsAppended(p \o f[n + 1], p \o f[n], d[n + 1])
          BY ONLY <3>0, EmitsOne
        <4>3. IsList(p \o f[n])
          BY ONLY <3>0, EmitsOne
        <4>. QED BY <4>1, <4>2, <4>3
      <3>. QED BY <2>7, <2>8, <3>1
    <2>10. Keys(w) = IF IsSeen(d[n + 1]) THEN Append(Keys(u), Key(d[n + 1])) ELSE Keys(u)
      <3>1. CASE d[n + 1].call # "event"
        BY <2>9, <3>1 DEF IsSeen
      <3>2. CASE d[n + 1].call = "event"
        <4>1. Keys(w) = IF Milestone(d[n + 1]) THEN Append(Keys(u), Key(d[n + 1])) ELSE Keys(u)
          BY <2>9, <3>2, KeysAppend
        <4>. QED BY <3>2, <4>1 DEF IsSeen
      <3>. QED BY <3>1, <3>2
    <2>. QED BY <2>2, <2>4, <2>6, <2>7, <2>8, <2>10
  <1>. HIDE DEF T
  <1>6. L \in T
    BY <1>4, <1>5, Induct
  <1>7. Keys(p \o f[L]) = Keys(s[L].events)
    BY <1>6 DEF T
  <1>. QED BY <1>1, <1>2, <1>3, <1>7 DEF Emits, Booked

\* No visit starts within the first m calls.
NoStart(d, m) == \A k \in 1..m : d[k].kind # "stage_started"

\* While no visit starts a path keeps their number, and gains the output of the one that ends.
LEMMA PathVisits ==
  ASSUME NEW d, IsList(d), NEW f, Emits(f, d), NEW p, IsList(p), p \o f[0] = p, NEW v \in Nat, HasStarted(p, v),
         NEW L \in Nat, L = Len(d), NEW m \in 0..L, NoStart(d, m)
  PROVE  /\ HasStarted(p \o f[m], v) /\ Outputs(p) \subseteq Outputs(p \o f[m])
         /\ \A k \in 1..m : d[k].call = "event" /\ d[k].kind = "stage_completed" =>
               <<v, d[k].to>> \in Outputs(p \o f[m])
  <1>. DEFINE T == {n \in Nat : n <= m =>
                      /\ HasStarted(p \o f[n], v) /\ Outputs(p) \subseteq Outputs(p \o f[n])
                      /\ \A k \in 1..n : d[k].call = "event" /\ d[k].kind = "stage_completed" =>
                            <<v, d[k].to>> \in Outputs(p \o f[n])}
  <1>1. 0 \in T
    <2>1. HasStarted(p \o f[0], v) /\ Outputs(p) \subseteq Outputs(p \o f[0])
      OBVIOUS
    <2>2. 1..0 = {}
      OBVIOUS
    <2>3. \A k \in 1..0 : d[k].call = "event" /\ d[k].kind = "stage_completed" => <<v, d[k].to>> \in Outputs(p \o f[0])
      BY <2>2
    <2>4. 0 \in Nat
      OBVIOUS
    <2>. QED BY ONLY <2>1, <2>3, <2>4, Zenon
  <1>2. ASSUME NEW n \in Nat, n \in T PROVE n + 1 \in T
    <2>. SUFFICES ASSUME n + 1 <= m
                  PROVE  /\ HasStarted(p \o f[n + 1], v) /\ Outputs(p) \subseteq Outputs(p \o f[n + 1])
                         /\ \A k \in 1..(n + 1) : d[k].call = "event" /\ d[k].kind = "stage_completed" =>
                               <<v, d[k].to>> \in Outputs(p \o f[n + 1])
      OBVIOUS
    <2>1. n <= m /\ n + 1 \in 1..m /\ n + 1 <= Len(d)
      OBVIOUS
    <2>2. PICK u : u = p \o f[n]
      OBVIOUS
    <2>3. PICK w : w = p \o f[n + 1]
      OBVIOUS
    <2>4. PICK e : e = d[n + 1]
      OBVIOUS
    <2>5. /\ HasStarted(u, v) /\ Outputs(p) \subseteq Outputs(u)
          /\ \A k \in 1..n : d[k].call = "event" /\ d[k].kind = "stage_completed" => <<v, d[k].to>> \in Outputs(u)
      BY <1>2, <2>1, <2>2
    <2>6. IsList(u) /\ (e.call # "event" => w = u) /\ (e.call = "event" => IsAppended(w, u, e))
      <3>0. IsList(d) /\ Emits(f, d) /\ IsList(p) /\ n \in Nat /\ n + 1 <= Len(d)
        BY <2>1
      <3>1. /\ d[n + 1].call # "event" => p \o f[n + 1] = p \o f[n]
            /\ d[n + 1].call = "event" => IsAppended(p \o f[n + 1], p \o f[n], d[n + 1])
            /\ IsList(p \o f[n])
        <4>1. ASSUME d[n + 1].call # "event" PROVE p \o f[n + 1] = p \o f[n]
          BY ONLY <3>0, <4>1, EmitsOne
        <4>2. d[n + 1].call = "event" => IsAppended(p \o f[n + 1], p \o f[n], d[n + 1])
          BY ONLY <3>0, EmitsOne
        <4>3. IsList(p \o f[n])
          BY ONLY <3>0, EmitsOne
        <4>. QED BY <4>1, <4>2, <4>3
      <3>. QED BY <2>2, <2>3, <2>4, <3>1
    <2>7. e.kind # "stage_started"
      BY <2>1, <2>4 DEF NoStart
    <2>8. /\ HasStarted(w, v) /\ Outputs(u) \subseteq Outputs(w)
          /\ e.call = "event" /\ e.kind = "stage_completed" => <<v, e.to>> \in Outputs(w)
      <3>1. CASE e.call # "event"
        BY <2>5, <2>6, <3>1
      <3>2. CASE e.call = "event"
        BY <2>5, <2>6, <2>7, <3>2, PathAppend
      <3>. QED BY <3>1, <3>2
    <2>9. \A k \in 1..(n + 1) : d[k].call = "event" /\ d[k].kind = "stage_completed" => <<v, d[k].to>> \in Outputs(w)
      <3>. SUFFICES ASSUME NEW k \in 1..(n + 1), d[k].call = "event" /\ d[k].kind = "stage_completed"
                    PROVE  <<v, d[k].to>> \in Outputs(w)
        OBVIOUS
      <3>1. CASE k = n + 1
        BY <2>4, <2>8, <3>1
      <3>2. CASE k # n + 1
        <4>1. k \in 1..n
          BY <3>2
        <4>. QED BY <2>5, <2>8, <4>1
      <3>. QED BY <3>1, <3>2
    <2>. QED BY <2>3, <2>5, <2>8, <2>9
  <1>. HIDE DEF T
  <1>3. m \in T
    <2>1. \A n \in Nat : n \in T
      BY <1>1, <1>2, Induct
    <2>2. m \in Nat
      OBVIOUS
    <2>. QED BY <2>1, <2>2
  <1>. QED BY <1>3 DEF T

\* The replayed path of a recorder: the events it saw, and the visits that started.
PathOf(p, r) == IsList(p) /\ Keys(p) = Keys(r.events) /\ HasStarted(p, r.visits)

\* A step in which no visit starts.
LEMMA PathStays ==
  ASSUME NEW r, Loose(r), NEW c, Len(c) \in Nat, NEW q, NEW s, Booked(s, r, c, q), Kept(q), NEW d, Mirrors(d, c),
         NEW p, PathOf(p, r), \A k \in 1..Len(c) : Stays(c[k]) /\ c[k].kind # "stage_started"
  PROVE  /\ PathOf(p \o EventsOf(d), q) /\ SamePlace(r, q)
         /\ Outputs(p) \subseteq Outputs(p \o EventsOf(d))
         /\ \A k \in 1..Len(c) : c[k].call = "event" /\ c[k].kind = "stage_completed" =>
               <<r.visits, c[k].to>> \in Outputs(p \o EventsOf(d))
  <1>1. IsList(d) /\ Len(d) = Len(c) /\ \A k \in 1..Len(c) : AsCalled(d[k], c[k])
    BY DEF Mirrors
  <1>2. PICK L \in Nat : L = Len(d) /\ L = Len(c)
    BY <1>1
  <1>3. IsList(p \o EventsOf(d)) /\ Keys(p \o EventsOf(d)) = Keys(q.events)
    BY PathKeys DEF PathOf
  <1>4. SamePlace(r, q)
    <2>1. L \in 0..L /\ \A k \in 1..L : Stays(c[k])
      BY <1>2
    <2>2. SamePlace(r, s[L])
      BY <1>2, <2>1, ChainStays
    <2>. QED BY <1>2, <2>2 DEF Booked
  <1>5. PICK f : Emits(f, d) /\ p \o f[0] = p /\ IsList(p \o f[Len(d)])
    BY <1>1, EmitsAll DEF PathOf
  <1>6. L \in 0..L /\ NoStart(d, L) /\ r.visits \in Nat
    BY <1>1, <1>2 DEF NoStart, AsCalled, Loose
  <1>7. /\ HasStarted(p \o f[L], r.visits) /\ Outputs(p) \subseteq Outputs(p \o f[L])
        /\ \A k \in 1..L : d[k].call = "event" /\ d[k].kind = "stage_completed" =>
               <<r.visits, d[k].to>> \in Outputs(p \o f[L])
    BY <1>1, <1>2, <1>5, <1>6, PathVisits DEF PathOf
  <1>8. EventsOf(d) = f[L]
    BY <1>2, <1>5 DEF Emits
  <1>9. \A k \in 1..Len(c) : c[k].call = "event" /\ c[k].kind = "stage_completed" =>
               <<r.visits, c[k].to>> \in Outputs(p \o EventsOf(d))
    BY <1>1, <1>2, <1>7, <1>8 DEF AsCalled
  <1>. QED BY <1>3, <1>4, <1>7, <1>8, <1>9 DEF PathOf, SamePlace

\* A step whose last call starts a visit.
LEMMA PathStarts ==
  ASSUME NEW r, Loose(r), NEW c, NEW L \in Nat, L + 1 = Len(c), NEW q, NEW s, Booked(s, r, c, q), Kept(q),
         NEW d, Mirrors(d, c), NEW p, PathOf(p, r),
         \A k \in 1..L : c[k].kind # "stage_started", c[L + 1].call = "event", c[L + 1].kind = "stage_started",
         q.visits = r.visits + 1
  PROVE  PathOf(p \o EventsOf(d), q) /\ Outputs(p) \subseteq Outputs(p \o EventsOf(d))
  <1>1. IsList(d) /\ Len(d) = Len(c) /\ \A k \in 1..Len(c) : AsCalled(d[k], c[k])
    BY DEF Mirrors
  <1>2. IsList(p \o EventsOf(d)) /\ Keys(p \o EventsOf(d)) = Keys(q.events)
    BY PathKeys DEF PathOf
  <1>3. PICK f : Emits(f, d) /\ p \o f[0] = p /\ IsList(p \o f[Len(d)])
    BY <1>1, EmitsAll DEF PathOf
  <1>4. PICK M \in Nat : M = L + 1 /\ M = Len(d)
    BY <1>1
  <1>5. L \in 0..M /\ L + 1 \in 1..Len(c) /\ L + 1 <= Len(d) /\ r.visits \in Nat /\ \A k \in 1..L : k \in 1..Len(c)
    BY <1>1, <1>4 DEF Loose
  <1>6. NoStart(d, L) /\ d[L + 1].call = "event" /\ d[L + 1].kind = "stage_started"
    BY <1>1, <1>5 DEF NoStart, AsCalled
  <1>7. HasStarted(p \o f[L], r.visits) /\ Outputs(p) \subseteq Outputs(p \o f[L])
    BY <1>1, <1>3, <1>4, <1>5, <1>6, PathVisits DEF PathOf
  <1>8. IsAppended(p \o f[L + 1], p \o f[L], d[L + 1])
    BY <1>1, <1>3, <1>5, <1>6, EmitsOne DEF PathOf
  <1>9. HasStarted(p \o f[L + 1], r.visits + 1) /\ Outputs(p \o f[L]) \subseteq Outputs(p \o f[L + 1])
    <2>1. PICK u : u = p \o f[L]
      OBVIOUS
    <2>2. PICK w : w = p \o f[L + 1]
      OBVIOUS
    <2>3. PICK e : e = d[L + 1]
      OBVIOUS
    <2>4. HasStarted(u, r.visits) /\ IsAppended(w, u, e) /\ e.kind = "stage_started"
      BY <1>6, <1>7, <1>8, <2>1, <2>2, <2>3
    <2>5. HasStarted(w, r.visits + 1) /\ Outputs(u) \subseteq Outputs(w)
      BY <1>5, <2>4, PathAppend
    <2>. QED BY <2>1, <2>2, <2>5
  <1>10. EventsOf(d) = f[L + 1]
    BY <1>3, <1>4 DEF Emits
  <1>. QED BY <1>2, <1>7, <1>9, <1>10 DEF PathOf

-----------------------------------------------------------------------------
(* Records of one type *)

\* What is answered during a replay.
TapeTypes == {"model_response", "policy_evaluation", "tool_result"}
\* The attempts on file, and their answers.
Requests(r) == OfType(r.vault, "model_request")
\* The answers on file.
Responses(r) == OfType(r.vault, "model_response")

\* There are finitely many records of a type.
LEMMA FiniteOfType ==
  ASSUME NEW v, IsList(v), NEW type
  PROVE  IsFiniteSet(OfType(v, type)) /\ Cardinality(OfType(v, type)) \in Nat
  <1>1. PICK n \in Nat : DOMAIN v = 1..n
    BY ListPlaces
  <1>2. 1 \in Int /\ n \in Int
    OBVIOUS
  <1>3. IsFiniteSet(1..n)
    BY <1>2, FS_Interval
  <1>4. OfType(v, type) \subseteq 1..n
    BY <1>1 DEF OfType
  <1>5. IsFiniteSet(OfType(v, type))
    BY <1>3, <1>4, FS_Subset
  <1>. QED BY <1>5, FS_CardinalityType

\* What is added counts, once.
LEMMA NoneOfType ==
  ASSUME NEW v, NEW w, NEW types, AddsNone(types, v, w), NEW type \in types
  PROVE  OfType(w, type) = OfType(v, type)
  <1>1. \A i \in DOMAIN w : i \in OfType(w, type) => i \in OfType(v, type)
    BY DEF AddsNone, Extends, OfType
  <1>2. \A i \in DOMAIN v : i \in OfType(v, type) => i \in OfType(w, type)
    BY DEF AddsNone, Extends, OfType
  <1>. QED BY <1>1, <1>2 DEF OfType

\* One record of a type is one place more.
LEMMA OneOfType ==
  ASSUME NEW v, NEW w, NEW types, NEW x, AddsOnly(types, v, w, x), NEW type \in types
  PROVE  /\ x.type # type => OfType(w, type) = OfType(v, type)
         /\ x.type = type =>
              \E j \in DOMAIN w \ DOMAIN v : w[j] = x /\ OfType(w, type) = OfType(v, type) \cup {j}
  <1>1. PICK j \in DOMAIN w \ DOMAIN v : w[j] = x /\ \A i \in DOMAIN w \ DOMAIN v : w[i].type \in types => i = j
    BY DEF AddsOnly
  <1>2. \A i \in DOMAIN w : i \in OfType(w, type) => i \in OfType(v, type) \/ (i = j /\ x.type = type)
    BY <1>1 DEF AddsOnly, Extends, OfType
  <1>3. \A i \in DOMAIN v : i \in OfType(v, type) => i \in OfType(w, type)
    BY DEF AddsOnly, Extends, OfType
  <1>4. x.type = type => j \in OfType(w, type)
    BY <1>1 DEF OfType
  <1>5. OfType(w, type) \subseteq DOMAIN w /\ OfType(v, type) \subseteq DOMAIN v
    BY DEF OfType
  <1>6. x.type # type => OfType(w, type) = OfType(v, type)
    BY <1>2, <1>3, <1>5 DEF AddsOnly, Extends
  <1>7. x.type = type => OfType(w, type) = OfType(v, type) \cup {j}
    BY <1>1, <1>2, <1>3, <1>4, <1>5 DEF AddsOnly, Extends
  <1>. QED BY <1>1, <1>6, <1>7

\* One record of a type counts one more.
LEMMA CountOne ==
  ASSUME NEW v, IsList(v), NEW w, NEW types, NEW x, AddsOnly(types, v, w, x), x.type \in types
  PROVE  Cardinality(OfType(w, x.type)) = Cardinality(OfType(v, x.type)) + 1
  <1>1. PICK type \in types : type = x.type
    OBVIOUS
  <1>2. PICK j \in DOMAIN w \ DOMAIN v : OfType(w, type) = OfType(v, type) \cup {j}
    BY <1>1, OneOfType
  <1>3. j \notin OfType(v, type) /\ IsFiniteSet(OfType(v, type))
    BY <1>2, FiniteOfType DEF OfType
  <1>4. Cardinality(OfType(v, type) \cup {j}) = Cardinality(OfType(v, type)) + 1
    BY <1>3, FS_AddElement
  <1>. QED BY <1>1, <1>2, <1>4

\* The snapshots, as the comparison and the tape read them.
SnapshotTypes == {"stage_snapshot"}

\* Without a snapshot filed, outputs and stages stay.
LEMMA NoSnapshot ==
  ASSUME NEW v, NEW w, AddsNone(SnapshotTypes, v, w)
  PROVE  Snapshots(w) = Snapshots(v) /\ \A visit : StagesOf(w, visit) = StagesOf(v, visit)
  <1>1. OfType(w, "stage_snapshot") = OfType(v, "stage_snapshot")
    BY NoneOfType DEF SnapshotTypes
  <1>2. \A i \in OfType(v, "stage_snapshot") : w[i] = v[i]
    BY DEF AddsNone, Extends, OfType
  <1>3. Snapshots(w) = {<<w[i].visit, w[i].to>> : i \in OfType(w, "stage_snapshot")}
    BY DEF Snapshots, ToSet, OfType
  <1>4. Snapshots(v) = {<<v[i].visit, v[i].to>> : i \in OfType(v, "stage_snapshot")}
    BY DEF Snapshots, ToSet, OfType
  <1>5. ASSUME NEW visit PROVE StagesOf(w, visit) = StagesOf(v, visit)
    BY <1>1, <1>2 DEF StagesOf
  <1>. QED BY <1>1, <1>2, <1>3, <1>4, <1>5

\* A snapshot adds its output, and tells the stage of its visit.
LEMMA OneSnapshot ==
  ASSUME NEW v, NEW w, NEW x, AddsOnly(SnapshotTypes, v, w, x)
  PROVE  /\ Snapshots(w) = Snapshots(v) \cup {<<x.visit, x.to>>}
         /\ \A visit : StagesOf(w, visit) = IF visit = x.visit THEN StagesOf(v, visit) \cup {x.stage}
                                            ELSE StagesOf(v, visit)
         /\ \A i \in OfType(w, "stage_snapshot") : (i \in OfType(v, "stage_snapshot") /\ w[i] = v[i]) \/ w[i] = x
  <1>1. PICK j \in DOMAIN w \ DOMAIN v :
          w[j] = x /\ OfType(w, "stage_snapshot") = OfType(v, "stage_snapshot") \cup {j}
    <2>1. x.type = "stage_snapshot" /\ "stage_snapshot" \in SnapshotTypes
      BY DEF AddsOnly, SnapshotTypes
    <2>. QED BY <2>1, OneOfType
  <1>2. \A i \in OfType(v, "stage_snapshot") : w[i] = v[i]
    BY DEF AddsOnly, Extends, OfType
  <1>3. Snapshots(w) = {<<w[i].visit, w[i].to>> : i \in OfType(w, "stage_snapshot")}
    BY DEF Snapshots, ToSet, OfType
  <1>4. Snapshots(v) = {<<v[i].visit, v[i].to>> : i \in OfType(v, "stage_snapshot")}
    BY DEF Snapshots, ToSet, OfType
  <1>5. Snapshots(w) = Snapshots(v) \cup {<<x.visit, x.to>>}
    BY <1>1, <1>2, <1>3, <1>4
  <1>6. ASSUME NEW visit
        PROVE  StagesOf(w, visit) = IF visit = x.visit THEN StagesOf(v, visit) \cup {x.stage}
                                    ELSE StagesOf(v, visit)
    <2>1. StagesOf(w, visit) = {w[i].stage : i \in {k \in OfType(w, "stage_snapshot") : w[k].visit = visit}}
      BY DEF StagesOf
    <2>2. StagesOf(v, visit) = {v[i].stage : i \in {k \in OfType(v, "stage_snapshot") : v[k].visit = visit}}
      BY DEF StagesOf
    <2>3. CASE visit = x.visit
      <3>1. {k \in OfType(w, "stage_snapshot") : w[k].visit = visit}
              = {k \in OfType(v, "stage_snapshot") : v[k].visit = visit} \cup {j}
        BY <1>1, <1>2, <2>3
      <3>. QED BY <1>1, <1>2, <2>1, <2>2, <2>3, <3>1
    <2>4. CASE visit # x.visit
      <3>1. {k \in OfType(w, "stage_snapshot") : w[k].visit = visit}
              = {k \in OfType(v, "stage_snapshot") : v[k].visit = visit}
        BY <1>1, <1>2, <2>4
      <3>. QED BY <1>2, <2>1, <2>2, <2>4, <3>1
    <2>. QED BY <2>3, <2>4
  <1>7. \A i \in OfType(w, "stage_snapshot") : (i \in OfType(v, "stage_snapshot") /\ w[i] = v[i]) \/ w[i] = x
    BY <1>1, <1>2
  <1>. QED BY <1>5, <1>6, <1>7

-----------------------------------------------------------------------------
(* A run that goes on, and what its recorder keeps meanwhile *)

\* Where a visit is under way, and where the run is lost.
Inside == {"ask", "gate", "call", "done"}
\* Where a run is lost.
Lost == {"failing", "failed", "interrupted"}

\* A run that is not lost, recorded without a gap; and every attempt was answered.
Going(l, r) == Kept(r) /\ Complete(r) /\ l.at \notin Lost
\* A run that goes on and had every attempt answered.
Fine(l, r) == Going(l, r) /\ Cardinality(Requests(r)) = Cardinality(Responses(r))

\* Snapshots are of visits that began, and none of the present one.
Fresh(l, r) ==
  /\ \A i \in OfType(r.vault, "stage_snapshot") : r.vault[i].visit \in 0..r.visits
  /\ l.at \in Inside =>
       /\ r.current = r.visits
       /\ \A i \in OfType(r.vault, "stage_snapshot") : r.vault[i].visit # r.current

\* The recorder of a run: there are no more responses than requests.
BookInv(l, r) ==
  /\ Loose(r) /\ Counted(r)
  /\ Going(l, r) => Fresh(l, r) /\ Cardinality(Responses(r)) <= Cardinality(Requests(r))

\* What a replay and its comparison depend on, of a run and its recorder.
View(l, r) == [run |-> l, vault |-> r.vault, events |-> r.events, visits |-> r.visits, current |-> r.current]

\* The path p is that of the view x, with its outputs.
Repeats(p, x) == PathOf(p, x) /\ Snapshots(x.vault) \subseteq Outputs(p)
\* A replayed step leads from x to y.
Leads(x, y, step) ==
  step.run = y.run /\ \A p : Repeats(p, x) => Repeats(p \o EventsOf(step.calls), y)
\* From x to y one record is filed that a replay takes, of this type and of the visit.
Answer(x, y, v, type) == v.type = type /\ v.visit = x.current /\ AddsOnly(TapeTypes, x.vault, y.vault, v)
\* A replay at x that is given what was filed from x to y goes on at y.
Follows(x, y) ==
  \/ x.run.at = "next" /\ Leads(x, y, StartStage(x.run)) /\ AddsNone(TapeTypes, x.vault, y.vault)
  \/ x.run.at = "done" /\ Leads(x, y, CompleteStage(x.run)) /\ AddsNone(TapeTypes, x.vault, y.vault)
  \/ x.run.at = "ask" /\ \E v : /\ Answer(x, y, v, "model_response")
                                /\ Leads(x, y, Ask(x.run, [class |-> v.body, to |-> v.to]))
  \/ x.run.at = "gate" /\ \E v : /\ Answer(x, y, v, "policy_evaluation")
                                 /\ Leads(x, y, Gate(x.run, v.body))
  \/ x.run.at = "call" /\ \E v : /\ Answer(x, y, v, "tool_result")
                                 /\ Leads(x, y, CallTool(x.run, [class |-> v.body, to |-> v.to], "plain"))

\* At the gate of a model's stage, the vault has a response that asked for a tool.
Wanted(x) ==
  x.run.at = "gate" /\ x.run.stage \in ModelStages =>
    \E i \in OfType(x.vault, "model_response") : x.vault[i].body = "tool"

\* Where a step takes a run: it stays in its visit, begins one, or ends it.
Within(l, r, m, q) ==
  /\ l.at \in Inside /\ m.at \in Inside /\ m.stage = l.stage /\ SamePlace(r, q)
  /\ AddsNone(SnapshotTypes, r.vault, q.vault)
\* It begins a visit.
Enters(l, r, m, q) ==
  /\ l.at \notin Inside /\ m.at \in Inside /\ m.stage = l.stage
  /\ q.visits = r.visits + 1 /\ q.current = q.visits
  /\ AddsNone(SnapshotTypes, r.vault, q.vault)
\* It ends one, and files its snapshot.
Leaves(l, r, m, q) ==
  /\ l.at \in Inside /\ m.at \notin Inside /\ SamePlace(r, q)
  /\ \E x : x.visit = r.current /\ x.stage = l.stage /\ AddsOnly(SnapshotTypes, r.vault, q.vault, x)
\* What a step files of an attempt: nothing, both parts, or the request alone.
Even(r, q) ==
  \/ /\ Cardinality(Requests(q)) = Cardinality(Requests(r))
     /\ Cardinality(Responses(q)) = Cardinality(Responses(r))
  \/ /\ Cardinality(Requests(q)) = Cardinality(Requests(r)) + 1
     /\ Cardinality(Responses(q)) = Cardinality(Responses(r)) + 1
\* An attempt without an answer.
Lags(r, q) ==
  /\ Cardinality(Requests(q)) = Cardinality(Requests(r)) + 1
  /\ Cardinality(Responses(q)) = Cardinality(Responses(r))

\* A step of a run that goes on.
Moves(l, r, m, q) ==
  /\ l.at \notin Lost /\ m.stage \in Stages
  /\ Within(l, r, m, q) \/ Enters(l, r, m, q) \/ Leaves(l, r, m, q)
  /\ \/ Lags(r, q)
     \/ Even(r, q) /\ Follows(View(l, r), View(m, q)) /\ (Wanted(View(l, r)) => Wanted(View(m, q)))

\* A step of a run that goes on keeps the books; if every attempt is answered after
\* it, every attempt was before.
LEMMA MoveBooks ==
  ASSUME NEW l, NEW r, BookInv(l, r), NEW m, NEW q, StepBooks(r, q), Going(m, q) => Moves(l, r, m, q)
  PROVE  /\ BookInv(m, q)
         /\ Fine(m, q) => Fine(l, r) /\ Even(r, q)
  <1>1. Loose(q) /\ Counted(q)
    BY DEF StepBooks
  <1>2. SUFFICES ASSUME Going(m, q)
                 PROVE  /\ Fresh(m, q) /\ Cardinality(Responses(q)) <= Cardinality(Requests(q))
                        /\ Fine(m, q) => Fine(l, r) /\ Even(r, q)
    BY <1>1 DEF BookInv, Fine
  <1>3. Moves(l, r, m, q)
    BY <1>2
  <1>4. Going(l, r)
    <2>1. Kept(r) /\ q.config = r.config
      BY <1>2 DEF Going, StepBooks
    <2>. QED BY <1>2, <1>3, <2>1 DEF Going, Moves, Complete, VaultEnabled
  <1>5. Fresh(l, r) /\ Cardinality(Responses(r)) <= Cardinality(Requests(r))
    BY <1>4 DEF BookInv
  <1>6. /\ Cardinality(Requests(r)) \in Nat /\ Cardinality(Responses(r)) \in Nat
        /\ Cardinality(Requests(q)) \in Nat /\ Cardinality(Responses(q)) \in Nat
    BY <1>1, FiniteOfType DEF BookInv, Loose, Requests, Responses
  <1>7. Even(r, q) \/ Lags(r, q)
    BY <1>3 DEF Moves
  <1>8. Cardinality(Responses(q)) <= Cardinality(Requests(q))
    BY <1>5, <1>6, <1>7 DEF Even, Lags
  <1>9. Cardinality(Requests(q)) = Cardinality(Responses(q)) =>
          Even(r, q) /\ Cardinality(Requests(r)) = Cardinality(Responses(r))
    BY <1>5, <1>6, <1>7 DEF Even, Lags
  <1>10. r.visits \in Nat /\ q.visits \in Nat
    BY <1>1 DEF BookInv, Loose
  <1>11. Fresh(m, q)
    <2>1. CASE Within(l, r, m, q)
      <3>1. OfType(q.vault, "stage_snapshot") = OfType(r.vault, "stage_snapshot")
        BY <2>1, NoneOfType DEF Within, SnapshotTypes
      <3>2. \A i \in OfType(r.vault, "stage_snapshot") : q.vault[i] = r.vault[i]
        BY <2>1 DEF Within, AddsNone, Extends, OfType
      <3>. QED BY <1>5, <2>1, <3>1, <3>2 DEF Fresh, Within, SamePlace
    <2>2. CASE Enters(l, r, m, q)
      <3>1. OfType(q.vault, "stage_snapshot") = OfType(r.vault, "stage_snapshot")
        BY <2>2, NoneOfType DEF Enters, SnapshotTypes
      <3>2. \A i \in OfType(r.vault, "stage_snapshot") : q.vault[i] = r.vault[i]
        BY <2>2 DEF Enters, AddsNone, Extends, OfType
      <3>3. q.visits = r.visits + 1 /\ q.current = r.visits + 1 /\ m.at \in Inside
        BY <2>2 DEF Enters
      <3>4. \A i \in OfType(q.vault, "stage_snapshot") : q.vault[i].visit \in 0..r.visits
        BY <1>5, <3>1, <3>2 DEF Fresh
      <3>5. \A n \in 0..r.visits : n \in 0..q.visits /\ n # q.current
        BY <1>10, <3>3
      <3>. QED BY <3>3, <3>4, <3>5 DEF Fresh
    <2>3. CASE Leaves(l, r, m, q)
      <3>1. PICK x : x.visit = r.current /\ x.stage = l.stage /\ AddsOnly(SnapshotTypes, r.vault, q.vault, x)
        BY <2>3 DEF Leaves
      <3>2. \A i \in OfType(q.vault, "stage_snapshot") :
              (i \in OfType(r.vault, "stage_snapshot") /\ q.vault[i] = r.vault[i]) \/ q.vault[i] = x
        BY <3>1, OneSnapshot
      <3>3. r.current = r.visits /\ q.visits = r.visits /\ m.at \notin Inside
        BY <1>5, <2>3 DEF Fresh, Leaves, SamePlace
      <3>4. x.visit \in 0..q.visits
        BY <1>10, <3>1, <3>3
      <3>. QED BY <1>5, <3>2, <3>3, <3>4 DEF Fresh
    <2>. QED BY <1>3, <2>1, <2>2, <2>3 DEF Moves
  <1>. QED BY <1>2, <1>4, <1>8, <1>9, <1>11 DEF Fine

-----------------------------------------------------------------------------
(* The history of a run *)

\* The view a run begins with.
Opened(x) ==
  /\ x.run = BeginRun.run /\ Repeats(<<>> \o EventsOf(BeginRun.calls), x)
  /\ \A i \in DOMAIN x.vault : x.vault[i].type \notin TapeTypes

\* The view x is behind the view z: the visit of x is still that of z, or z tells its
\* stage by its snapshot.
Behind(x, z) ==
  /\ x.run.stage \in Stages /\ Wanted(x) /\ Extends(x.vault, z.vault)
  /\ x.run.at \in Inside =>
       \/ /\ z.run.at \in Inside /\ z.current = x.current /\ z.run.stage = x.run.stage
          /\ StagesOf(z.vault, x.current) = {}
       \/ /\ StagesOf(z.vault, x.current) = {x.run.stage} /\ x.current \in 0..z.visits
          /\ z.run.at \in Inside => x.current # z.current

\* The views a run went through up to z.
History(H, z) ==
  /\ z \in H /\ \E x \in H : Opened(x)
  /\ \A x \in H : Behind(x, z) /\ (x = z \/ \E y \in H : Follows(x, y))

\* What a vault holds it holds for good.
LEMMA ExtendsChain ==
  ASSUME NEW u, NEW v, NEW w, Extends(u, v), Extends(v, w)
  PROVE  Extends(u, w)
  BY DEF Extends

\* A visit without a snapshot has no stage.
LEMMA NoStages ==
  ASSUME NEW v, NEW visit, \A i \in OfType(v, "stage_snapshot") : v[i].visit # visit
  PROVE  StagesOf(v, visit) = {}
  BY DEF StagesOf

\* What was behind the run stays behind it.
LEMMA StaysBehind ==
  ASSUME NEW l, NEW r, BookInv(l, r), Going(l, r), NEW m, NEW q, StepBooks(r, q),
         Moves(l, r, m, q), NEW x, Behind(x, View(l, r))
  PROVE  Behind(x, View(m, q))
  <1>1. PICK z : z = View(l, r)
    OBVIOUS
  <1>2. PICK y : y = View(m, q)
    OBVIOUS
  <1>3. /\ z.run = l /\ z.vault = r.vault /\ z.visits = r.visits /\ z.current = r.current
        /\ y.run = m /\ y.vault = q.vault /\ y.visits = q.visits /\ y.current = q.current
    BY <1>1, <1>2 DEF View
  <1>4. /\ x.run.stage \in Stages /\ Wanted(x) /\ Extends(x.vault, r.vault)
        /\ x.run.at \in Inside =>
             \/ /\ l.at \in Inside /\ r.current = x.current /\ l.stage = x.run.stage
                /\ StagesOf(r.vault, x.current) = {}
             \/ /\ StagesOf(r.vault, x.current) = {x.run.stage} /\ x.current \in 0..r.visits
                /\ l.at \in Inside => x.current # r.current
    BY <1>1, <1>3 DEF Behind
  <1>5. Within(l, r, m, q) \/ Enters(l, r, m, q) \/ Leaves(l, r, m, q)
    BY DEF Moves
  <1>6. Extends(r.vault, q.vault)
    BY <1>5 DEF Within, Enters, Leaves, AddsNone, AddsOnly
  <1>7. Extends(x.vault, q.vault)
    BY <1>4, <1>6, ExtendsChain
  <1>8. r.visits \in Nat /\ Fresh(l, r)
    BY DEF BookInv, Loose
  <1>9. ASSUME x.run.at \in Inside
        PROVE  \/ /\ m.at \in Inside /\ q.current = x.current /\ m.stage = x.run.stage
                  /\ StagesOf(q.vault, x.current) = {}
               \/ /\ StagesOf(q.vault, x.current) = {x.run.stage} /\ x.current \in 0..q.visits
                  /\ m.at \in Inside => x.current # q.current
    <2>1. CASE Within(l, r, m, q)
      <3>1. StagesOf(q.vault, x.current) = StagesOf(r.vault, x.current)
        BY <2>1, NoSnapshot DEF Within
      <3>. QED BY <1>4, <1>9, <2>1, <3>1 DEF Within, SamePlace
    <2>2. CASE Enters(l, r, m, q)
      <3>1. StagesOf(q.vault, x.current) = StagesOf(r.vault, x.current)
        BY <2>2, NoSnapshot DEF Enters
      <3>2. l.at \notin Inside /\ q.visits = r.visits + 1 /\ q.current = r.visits + 1
        BY <2>2 DEF Enters
      <3>3. StagesOf(r.vault, x.current) = {x.run.stage} /\ x.current \in 0..r.visits
        BY <1>4, <1>9, <3>2
      <3>4. x.current \in 0..q.visits /\ x.current # q.current
        BY <1>8, <3>2, <3>3
      <3>. QED BY <3>1, <3>3, <3>4
    <2>3. CASE Leaves(l, r, m, q)
      <3>1. PICK v : v.visit = r.current /\ v.stage = l.stage /\ AddsOnly(SnapshotTypes, r.vault, q.vault, v)
        BY <2>3 DEF Leaves
      <3>2. StagesOf(q.vault, x.current) = IF x.current = r.current THEN StagesOf(r.vault, x.current) \cup {l.stage}
                                           ELSE StagesOf(r.vault, x.current)
        <4>1. \A visit : StagesOf(q.vault, visit) = IF visit = v.visit THEN StagesOf(r.vault, visit) \cup {v.stage}
                                                    ELSE StagesOf(r.vault, visit)
          BY <3>1, OneSnapshot
        <4>. QED BY <3>1, <4>1
      <3>3. l.at \in Inside /\ m.at \notin Inside /\ q.visits = r.visits /\ r.current = r.visits
        BY <1>8, <2>3 DEF Leaves, SamePlace, Fresh
      <3>4. r.current \in 0..q.visits
        BY <1>8, <3>3
      <3>. QED BY <1>4, <1>9, <3>2, <3>3, <3>4
    <2>. QED BY <1>5, <2>1, <2>2, <2>3
  <1>. QED BY <1>2, <1>3, <1>4, <1>7, <1>9 DEF Behind

\* A step of a run that goes on adds a view to its history.
LEMMA HistoryGrows ==
  ASSUME NEW l, NEW r, BookInv(l, r), Going(l, r), NEW m, NEW q, StepBooks(r, q), BookInv(m, q), Going(m, q),
         Moves(l, r, m, q), Even(r, q), NEW H, History(H, View(l, r))
  PROVE  History(H \cup {View(m, q)}, View(m, q))
  <1>1. PICK z : z = View(l, r)
    OBVIOUS
  <1>2. PICK y : y = View(m, q)
    OBVIOUS
  <1>3. /\ y.run = m /\ y.vault = q.vault /\ y.visits = q.visits /\ y.current = q.current
    BY <1>2 DEF View
  <1>4. ~Lags(r, q)
    <2>1. Cardinality(Requests(r)) \in Nat /\ Cardinality(Responses(r)) \in Nat
      BY FiniteOfType DEF BookInv, Loose, Requests, Responses
    <2>. QED BY <2>1 DEF Even, Lags
  <1>5. Follows(z, y) /\ (Wanted(z) => Wanted(y)) /\ m.stage \in Stages
    BY <1>1, <1>2, <1>4 DEF Moves
  <1>6. z \in H /\ Behind(z, z)
    BY <1>1 DEF History
  <1>7. Wanted(y)
    BY <1>5, <1>6 DEF Behind
  <1>8. Behind(y, y)
    <2>1. Extends(q.vault, q.vault)
      BY DEF BookInv, Loose, Extends
    <2>2. m.at \in Inside => StagesOf(q.vault, q.current) = {}
      BY NoStages DEF BookInv, Fresh
    <2>. QED BY <1>3, <1>5, <1>7, <2>1, <2>2 DEF Behind
  <1>9. \A x \in H : Behind(x, y)
    BY <1>1, <1>2, StaysBehind DEF History
  <1>10. \A x \in H : \E w \in H \cup {y} : Follows(x, w)
    BY <1>1, <1>5 DEF History
  <1>11. \E x \in H \cup {y} : Opened(x)
    BY DEF History
  <1>. QED BY <1>2, <1>8, <1>9, <1>10, <1>11 DEF History

-----------------------------------------------------------------------------
(* Steps that are replayed alike *)

\* The recorder goes from r to q with the calls c of a run that goes on at m.
Stepped(l, r, c, m, q) ==
  BookInv(l, r) /\ c \in Seq(Calls) /\ Len(c) \in 0..5 /\ q = After(r, c) /\ Going(m, q)

\* What is known of such a step.
LEMMA SteppedBooks ==
  ASSUME NEW l, NEW r, NEW c, NEW m, NEW q, Stepped(l, r, c, m, q)
  PROVE  /\ Loose(r) /\ IsList(c) /\ Len(c) \in Nat /\ Kept(q) /\ Complete(r)
         /\ \E s : Booked(s, r, c, q)
  <1>1. StepBooks(r, q) /\ \E s : Booked(s, r, c, q)
    BY StepChain DEF Stepped, BookInv
  <1>2. Complete(r)
    BY <1>1 DEF StepBooks, Stepped, Going, Complete, VaultEnabled
  <1>3. Len(c) \in Nat /\ IsList(c)
    BY DEF Stepped, IsList
  <1>. QED BY <1>1, <1>2, <1>3 DEF Stepped, BookInv, Going

\* Calls within a visit: it neither begins nor ends.
Keeps(c) ==
  \A k \in 1..Len(c) : Stays(c[k]) /\ c[k].kind # "stage_started" /\ FiledAs(c[k]) # "stage_snapshot"

\* A list mirrors itself.
LEMMA MirrorsItself ==
  ASSUME NEW c, IsList(c)
  PROVE  Mirrors(c, c)
  BY DEF Mirrors, AsCalled

\* A step within a visit, and the replayed step that mirrors it.
LEMMA InsideMove ==
  ASSUME NEW l, NEW r, NEW c, NEW m, NEW q, Stepped(l, r, c, m, q), Keeps(c),
         l.at \in Inside, m.at \in Inside, m.stage = l.stage, NEW d, Mirrors(d, c)
  PROVE  Within(l, r, m, q) /\ Leads(View(l, r), View(m, q), Step(m, d))
  <1>1. Loose(r) /\ IsList(c) /\ Len(c) \in Nat /\ Kept(q) /\ Complete(r)
    BY SteppedBooks
  <1>2. PICK s : Booked(s, r, c, q)
    BY SteppedBooks
  <1>3. SnapshotTypes \in SUBSET Filing /\ NoneOf(SnapshotTypes, c)
    BY DEF SnapshotTypes, Filing, NoneOf, Keeps
  <1>4. AddsNone(SnapshotTypes, r.vault, q.vault)
    BY <1>1, <1>2, <1>3, StepAddsNone
  <1>5. Snapshots(q.vault) = Snapshots(r.vault)
    BY <1>4, NoSnapshot
  <1>6. PICK x : x = View(l, r)
    OBVIOUS
  <1>7. PICK y : y = View(m, q)
    OBVIOUS
  <1>8. /\ x.run = l /\ x.vault = r.vault /\ x.events = r.events /\ x.visits = r.visits
        /\ y.run = m /\ y.vault = q.vault /\ y.events = q.events /\ y.visits = q.visits
    BY <1>6, <1>7 DEF View
  <1>9. SamePlace(r, q)
    <2>1. PICK L \in Nat : L = Len(c)
      BY <1>1
    <2>2. L \in 0..L /\ \A k \in 1..L : Stays(c[k])
      BY <2>1 DEF Keeps
    <2>3. SamePlace(r, s[L])
      BY <1>2, <2>1, <2>2, ChainStays
    <2>. QED BY <1>2, <2>1, <2>3 DEF Booked
  <1>10. ASSUME NEW p, Repeats(p, x) PROVE Repeats(p \o EventsOf(d), y)
    <2>1. PathOf(p, r) /\ Snapshots(r.vault) \subseteq Outputs(p)
      BY <1>8, <1>10 DEF Repeats, PathOf
    <2>2. \A k \in 1..Len(c) : Stays(c[k]) /\ c[k].kind # "stage_started"
      BY DEF Keeps
    <2>3. PathOf(p \o EventsOf(d), q) /\ Outputs(p) \subseteq Outputs(p \o EventsOf(d))
      BY <1>1, <1>2, <2>1, <2>2, PathStays
    <2>. QED BY <1>5, <1>8, <2>1, <2>3 DEF Repeats, PathOf
  <1>11. Step(m, d).run = m /\ Step(m, d).calls = d
    BY DEF Step
  <1>12. Leads(x, y, Step(m, d))
    BY <1>8, <1>10, <1>11 DEF Leads
  <1>. QED BY <1>4, <1>6, <1>7, <1>9, <1>12 DEF Within

\* Calls of a visit of which the call j files what a replay takes.
Asking == {"event", "model_call", "model_request", "tool_call"}
\* One call of a list, the j-th, files the answer; the others do not.
Answering(c, j) ==
  /\ j \in 1..Len(c) /\ FiledAs(c[j]) \in TapeTypes /\ c[j].call # "event"
  /\ \A k \in 1..Len(c) : c[k].kind \notin {"stage_started", "stage_completed"}
  /\ \A k \in 1..Len(c) : k # j => c[k].call \in Asking

\* Such calls keep to their visit, and file one record a replay takes.
LEMMA AnsweringCalls ==
  ASSUME NEW c, NEW j, Answering(c, j)
  PROVE  Keeps(c) /\ Sole(TapeTypes, c, j)
  <1>1. \A k \in 1..Len(c) : k # j => FiledAs(c[k]) \in {None, "model_request"}
    BY DEF Answering, Asking, FiledAs
  <1>2. None \notin TapeTypes /\ "model_request" \notin TapeTypes /\ "stage_snapshot" \notin TapeTypes
    BY DEF TapeTypes, None
  <1>3. \A k \in 1..Len(c) : c[k].call # "stage_visit"
    <2>1. c[j].call # "stage_visit"
      BY DEF Answering, FiledAs, TapeTypes, None
    <2>. QED BY <2>1 DEF Answering, Asking
  <1>4. \A k \in 1..Len(c) : FiledAs(c[k]) # "stage_snapshot"
    BY <1>1, <1>2 DEF Answering, None
  <1>5. Sole(TapeTypes, c, j)
    BY <1>1, <1>2 DEF Sole, Answering
  <1>6. Keeps(c)
    BY <1>3, <1>4 DEF Keeps, Stays, Answering
  <1>. QED BY <1>5, <1>6

\* What is filed by the call j, as the replay finds it.
LEMMA AnswerMove ==
  ASSUME NEW l, NEW r, NEW c, NEW m, NEW q, Stepped(l, r, c, m, q), NEW j, Answering(c, j)
  PROVE  \E v : /\ Answer(View(l, r), View(m, q), v, FiledAs(c[j]))
                /\ Records(v, c[j], r.current)
                /\ AddsOnly(TapeTypes, r.vault, q.vault, v)
  <1>1. Loose(r) /\ IsList(c) /\ Len(c) \in Nat /\ Kept(q) /\ Complete(r)
    BY SteppedBooks
  <1>2. PICK s : Booked(s, r, c, q)
    BY SteppedBooks
  <1>3. Keeps(c) /\ Sole(TapeTypes, c, j)
    BY AnsweringCalls
  <1>4. TapeTypes \in SUBSET Filing
    BY DEF TapeTypes, Filing
  <1>5. \A i \in 1..(j - 1) : Stays(c[i])
    <2>. SUFFICES ASSUME NEW i \in 1..(j - 1) PROVE Stays(c[i])
      OBVIOUS
    <2>1. i \in 1..Len(c)
      BY <1>1, <1>3 DEF Sole
    <2>. QED BY <1>3, <2>1 DEF Keeps
  <1>6. PICK v : Records(v, c[j], r.current) /\ AddsOnly(TapeTypes, r.vault, q.vault, v)
    BY <1>1, <1>2, <1>3, <1>4, <1>5, StepAddsOnly
  <1>7. Answer(View(l, r), View(m, q), v, FiledAs(c[j]))
    BY <1>6 DEF Answer, View, Records
  <1>. QED BY <1>6, <1>7

\* How many requests and responses a step files.
LEMMA RequestsOf ==
  ASSUME NEW l, NEW r, NEW c, NEW m, NEW q, Stepped(l, r, c, m, q)
  PROVE  /\ NoneOf({"model_request"}, c) => Requests(q) = Requests(r)
         /\ \A k : Sole({"model_request"}, c, k) /\ (\A i \in 1..(k - 1) : Stays(c[i])) =>
                     Cardinality(Requests(q)) = Cardinality(Requests(r)) + 1
         /\ NoneOf(TapeTypes, c) => Responses(q) = Responses(r)
  <1>1. Loose(r) /\ IsList(c) /\ Len(c) \in Nat /\ Kept(q) /\ Complete(r)
    BY SteppedBooks
  <1>2. PICK s : Booked(s, r, c, q)
    BY SteppedBooks
  <1>3. PICK types : types = {"model_request"}
    OBVIOUS
  <1>4. types \in SUBSET Filing /\ TapeTypes \in SUBSET Filing /\ "model_response" \in TapeTypes
    BY <1>3 DEF Filing, TapeTypes
  <1>5. NoneOf(types, c) => Requests(q) = Requests(r)
    BY <1>1, <1>2, <1>3, <1>4, StepAddsNone, NoneOfType DEF Requests
  <1>6. ASSUME NEW k, Sole(types, c, k), \A i \in 1..(k - 1) : Stays(c[i])
        PROVE  Cardinality(Requests(q)) = Cardinality(Requests(r)) + 1
    <2>1. PICK v : Records(v, c[k], r.current) /\ AddsOnly(types, r.vault, q.vault, v)
      BY <1>1, <1>2, <1>4, <1>6, StepAddsOnly
    <2>2. v.type = "model_request"
      BY <1>3, <2>1 DEF AddsOnly
    <2>. QED BY <1>1, <1>3, <2>1, <2>2, CountOne DEF Requests, Loose
  <1>7. NoneOf(TapeTypes, c) => Responses(q) = Responses(r)
    BY <1>1, <1>2, <1>4, StepAddsNone, NoneOfType DEF Responses
  <1>. QED BY <1>3, <1>5, <1>6, <1>7

\* And the answers.
LEMMA ResponsesOf ==
  ASSUME NEW r, Loose(r), NEW q, NEW v, AddsOnly(TapeTypes, r.vault, q.vault, v)
  PROVE  /\ v.type = "model_response" => Cardinality(Responses(q)) = Cardinality(Responses(r)) + 1
         /\ v.type # "model_response" => Responses(q) = Responses(r)
  <1>1. v.type = "model_response" => Cardinality(Responses(q)) = Cardinality(Responses(r)) + 1
    BY CountOne DEF Responses, Loose, TapeTypes
  <1>2. v.type # "model_response" => Responses(q) = Responses(r)
    <2>1. "model_response" \in TapeTypes
      BY DEF TapeTypes
    <2>. QED BY <2>1, OneOfType DEF Responses
  <1>. QED BY <1>1, <1>2

-----------------------------------------------------------------------------
(* The calls of the steps *)

\* One more call.
LEMMA OneMoreCall ==
  ASSUME NEW c \in Seq(Calls), NEW e \in Calls, NEW d, d = Append(c, e)
  PROVE  /\ d \in Seq(Calls) /\ Len(d) = Len(c) + 1 /\ d[Len(c) + 1] = e
         /\ \A k \in 1..Len(c) : d[k] = c[k]
  BY AppendProperties

\* The event of a retry.
LEMMA RetryCall ==
  ASSUME NEW stage \in Stages, NEW kind \in StageKinds
  PROVE  /\ Event(kind, stage) \in Calls /\ Event(kind, stage).call = "event" /\ Event(kind, stage).kind = kind
  BY StageEvent

\* The calls of an attempt: asked, and answered unless it was silent.
IsAsked(c) ==
  /\ c[1].call = "model_call" /\ c[1].kind = None /\ c[2].call = "model_request" /\ c[2].kind = None
\* The events of an attempt.
AskKinds == {"model_completed", "model_retry", "model_delta"}
\* The calls of an attempt that is answered.
AnsweredList(c, class, to) ==
  /\ c \in Seq(Calls) /\ Len(c) \in 4..5 /\ IsAsked(c)
  /\ c[3].call = "model_response" /\ c[3].kind = None /\ c[3].body = class /\ c[3].to = to
  /\ \A k \in 4..Len(c) : c[k].call = "event" /\ c[k].kind \in AskKinds
\* The calls of one that is not.
SilentList(c) ==
  /\ c \in Seq(Calls) /\ Len(c) = 4 /\ IsAsked(c)
  /\ \A k \in 3..Len(c) : c[k].call = "event" /\ c[k].kind \in AskKinds

\* The calls of a request.
LEMMA AskedList ==
  ASSUME NEW c, c = <<Hook("model_call", None), Hook("model_request", None)>>
  PROVE  c \in Seq(Calls) /\ Len(c) = 2 /\ IsAsked(c)
  <1>1. PICK a : a = Hook("model_call", None)
    OBVIOUS
  <1>2. PICK b : b = Hook("model_request", None)
    OBVIOUS
  <1>3. a \in Calls /\ a.call = "model_call" /\ b \in Calls /\ b.call = "model_request"
    BY <1>1, <1>2, HookCall DEF CallNames, Bodies
  <1>4. a.kind = None /\ b.kind = None
    BY <1>1, <1>2 DEF Hook, Blank
  <1>5. c \in Seq(Calls) /\ Len(c) = 2 /\ c[1] = a /\ c[2] = b
    BY <1>1, <1>2, <1>3
  <1>. QED BY <1>3, <1>4, <1>5 DEF IsAsked

\* The calls of a request and its answer.
LEMMA ToldList ==
  ASSUME NEW q, q \in Seq(Calls), Len(q) = 2, IsAsked(q), NEW stage \in Stages, NEW class \in Bodies, NEW to \in MaybeStage,
         NEW c, c = q \o <<[Hook("model_response", class) EXCEPT !.to = to], Event("model_completed", stage)>>
  PROVE  AnsweredList(c, class, to) /\ Len(c) = 4
  <1>1. PICK a : a = [Hook("model_response", class) EXCEPT !.to = to]
    OBVIOUS
  <1>2. PICK b : b = Event("model_completed", stage)
    OBVIOUS
  <1>3. PICK h : h = Hook("model_response", class)
    OBVIOUS
  <1>4. h \in Calls /\ h.call = "model_response" /\ h.body = class /\ h.kind = None
    <2>1. "model_response" \in CallNames
      BY DEF CallNames
    <2>2. h.kind = None
      BY <1>3 DEF Hook, Blank
    <2>. QED BY <1>3, <2>1, <2>2, HookCall
  <1>5. a \in Calls /\ a.call = "model_response" /\ a.kind = None /\ a.body = class /\ a.to = to
    BY <1>1, <1>3, <1>4 DEF Calls
  <1>6. b \in Calls /\ b.call = "event" /\ b.kind = "model_completed"
    BY <1>2, RetryCall DEF StageKinds, ModelKinds
  <1>7. PICK t : t = <<a, b>>
    OBVIOUS
  <1>8. t \in Seq(Calls) /\ Len(t) = 2 /\ t[1] = a /\ t[2] = b
    BY <1>5, <1>6, <1>7
  <1>9. c = q \o t
    BY <1>1, <1>2, <1>7
  <1>10. c \in Seq(Calls)
    BY <1>8, <1>9, ConcatProperties
  <1>11. Len(c) = Len(q) + Len(t) /\ \A i \in 1..(Len(q) + Len(t)) : c[i] = IF i <= Len(q) THEN q[i] ELSE t[i - Len(q)]
    <2>1. /\ Len(q \o t) = Len(q) + Len(t)
          /\ \A i \in 1..(Len(q) + Len(t)) : (q \o t)[i] = IF i <= Len(q) THEN q[i] ELSE t[i - Len(q)]
      BY <1>8, ConcatProperties
    <2>. QED BY <1>9, <2>1
  <1>12. Len(c) = 4 /\ \A i \in 1..4 : c[i] = IF i <= 2 THEN q[i] ELSE t[i - 2]
    BY <1>8, <1>11
  <1>13. c[1] = q[1] /\ c[2] = q[2] /\ c[3] = a /\ c[4] = b
    BY <1>8, <1>12
  <1>14. IsAsked(c)
    BY <1>13 DEF IsAsked
  <1>15. \A k \in 4..Len(c) : c[k].call = "event" /\ c[k].kind \in AskKinds
    <2>1. \A k \in 4..Len(c) : k = 4
      BY <1>12
    <2>. QED BY <1>6, <1>13, <2>1 DEF AskKinds
  <1>. QED BY <1>5, <1>10, <1>12, <1>13, <1>14, <1>15 DEF AnsweredList

\* And those of the retry.
LEMMA ToldRetried ==
  ASSUME NEW q, NEW class, NEW to, AnsweredList(q, class, to), Len(q) = 4, NEW stage \in Stages,
         NEW c, c = Append(q, Event("model_retry", stage))
  PROVE  AnsweredList(c, class, to)
  <1>1. PICK e : e = Event("model_retry", stage)
    OBVIOUS
  <1>2. e \in Calls /\ e.call = "event" /\ e.kind = "model_retry"
    BY <1>1, RetryCall DEF StageKinds, ModelKinds
  <1>3. q \in Seq(Calls)
    BY DEF AnsweredList
  <1>4. c \in Seq(Calls) /\ Len(c) = 5 /\ c[5] = e /\ \A k \in 1..4 : c[k] = q[k]
    BY <1>1, <1>2, <1>3, OneMoreCall
  <1>5. c[1] = q[1] /\ c[2] = q[2] /\ c[3] = q[3] /\ c[4] = q[4]
    BY <1>4
  <1>6. \A k \in 4..Len(c) : c[k].call = "event" /\ c[k].kind \in AskKinds
    <2>1. \A k \in 4..Len(c) : k = 4 \/ k = 5
      BY <1>4
    <2>2. 4 \in 4..Len(q)
      OBVIOUS
    <2>. QED BY <1>2, <1>4, <1>5, <2>1, <2>2 DEF AskKinds, AnsweredList
  <1>. QED BY <1>4, <1>5, <1>6 DEF AnsweredList, IsAsked

\* The calls of an attempt without an answer, and of its retry.
LEMMA SilentRetried ==
  ASSUME NEW q, q \in Seq(Calls), Len(q) = 2, IsAsked(q), NEW stage \in Stages,
         NEW c, c = Append(Append(q, Event("model_delta", stage)), Event("model_retry", stage))
  PROVE  SilentList(c)
  <1>1. PICK e : e = Event("model_retry", stage)
    OBVIOUS
  <1>2. PICK a : a = Event("model_delta", stage)
    OBVIOUS
  <1>3. PICK p : p = Append(q, a)
    OBVIOUS
  <1>4. e \in Calls /\ e.call = "event" /\ e.kind = "model_retry"
    BY <1>1, RetryCall DEF StageKinds, ModelKinds
  <1>5. a \in Calls /\ a.call = "event" /\ a.kind = "model_delta"
    BY <1>2, RetryCall DEF StageKinds, ModelKinds
  <1>6. p \in Seq(Calls) /\ Len(p) = 3 /\ p[3] = a /\ \A k \in 1..2 : p[k] = q[k]
    BY <1>3, <1>5, OneMoreCall
  <1>7. c = Append(p, e)
    BY <1>1, <1>2, <1>3
  <1>8. c \in Seq(Calls) /\ Len(c) = 4 /\ c[4] = e /\ \A k \in 1..3 : c[k] = p[k]
    BY <1>4, <1>6, <1>7, OneMoreCall
  <1>9. c[1] = q[1] /\ c[2] = q[2] /\ c[3] = a
    BY <1>6, <1>8
  <1>10. \A k \in 3..Len(c) : k = 3 \/ k = 4
    BY <1>8
  <1>. QED BY <1>4, <1>5, <1>8, <1>9, <1>10 DEF SilentList, IsAsked, AskKinds

\* What these calls file.
LEMMA AnsweredFiles ==
  ASSUME NEW c, NEW class, NEW to, AnsweredList(c, class, to)
  PROVE  /\ Answering(c, 3) /\ FiledAs(c[3]) = "model_response"
         /\ Sole({"model_request"}, c, 2)
  <1>1. Len(c) \in {4, 5}
    BY DEF AnsweredList
  <1>2. \A k \in 1..Len(c) : k = 1 \/ k = 2 \/ k = 3 \/ k \in 4..Len(c)
    BY <1>1
  <1>3. 2 \in 1..Len(c) /\ 3 \in 1..Len(c)
    <2>1. PICK n \in {4, 5} : n = Len(c)
      BY <1>1
    <2>2. 2 \in 1..n /\ 3 \in 1..n
      OBVIOUS
    <2>. QED BY <2>1, <2>2
  <1>4. FiledAs(c[3]) = "model_response" /\ FiledAs(c[2]) = "model_request" /\ FiledAs(c[1]) = None
    BY DEF AnsweredList, IsAsked, FiledAs
  <1>5. \A k \in 4..Len(c) : FiledAs(c[k]) = None
    BY DEF AnsweredList, FiledAs, AskKinds
  <1>6. Sole({"model_request"}, c, 2)
    BY <1>2, <1>3, <1>4, <1>5 DEF Sole, None
  <1>7. \A k \in 1..Len(c) : c[k].kind \notin {"stage_started", "stage_completed"}
    BY <1>2 DEF AnsweredList, IsAsked, AskKinds, None
  <1>8. \A k \in 1..Len(c) : k # 3 => c[k].call \in Asking
    BY <1>2 DEF AnsweredList, IsAsked, Asking
  <1>9. c[3].call # "event"
    BY DEF AnsweredList
  <1>. QED BY <1>3, <1>4, <1>6, <1>7, <1>8, <1>9 DEF Answering, TapeTypes

\* What an attempt without an answer files.
LEMMA SilentFiles ==
  ASSUME NEW c, SilentList(c)
  PROVE  Keeps(c) /\ NoneOf(TapeTypes, c) /\ Sole({"model_request"}, c, 2)
  <1>1. Len(c) = 4
    BY DEF SilentList
  <1>2. \A k \in 1..Len(c) : k = 1 \/ k = 2 \/ k \in 3..Len(c)
    BY <1>1
  <1>3. 2 \in 1..Len(c)
    BY <1>1
  <1>4. FiledAs(c[2]) = "model_request" /\ FiledAs(c[1]) = None
    BY DEF SilentList, IsAsked, FiledAs
  <1>5. \A k \in 3..Len(c) : FiledAs(c[k]) = None
    BY DEF SilentList, FiledAs, AskKinds
  <1>6. Sole({"model_request"}, c, 2)
    BY <1>2, <1>3, <1>4, <1>5 DEF Sole, None
  <1>7. NoneOf(TapeTypes, c)
    BY <1>2, <1>4, <1>5 DEF NoneOf, TapeTypes, None
  <1>8. Keeps(c)
    BY <1>2, <1>4, <1>5 DEF Keeps, Stays, SilentList, IsAsked, AskKinds, None
  <1>. QED BY <1>6, <1>7, <1>8

-----------------------------------------------------------------------------
(* Each step of a run that goes on is one a replay follows *)

\* A step on which an answer is filed, and the replayed step on that answer.
LEMMA AnsweredMove ==
  ASSUME NEW l, NEW r, NEW c, NEW m, NEW q, Stepped(l, r, c, m, q), NEW j, Answering(c, j),
         l.at \in Inside, m.at \in Inside, m.stage = l.stage, NEW d, Mirrors(d, c)
  PROVE  /\ Within(l, r, m, q) /\ Leads(View(l, r), View(m, q), Step(m, d))
         /\ \E v : /\ Answer(View(l, r), View(m, q), v, FiledAs(c[j])) /\ Records(v, c[j], r.current)
                   /\ AddsOnly(TapeTypes, r.vault, q.vault, v)
  <1>1. Keeps(c)
    BY AnsweringCalls
  <1>2. Within(l, r, m, q) /\ Leads(View(l, r), View(m, q), Step(m, d))
    BY <1>1, InsideMove
  <1>. QED BY <1>2, AnswerMove

\* An answer of the vault that asks for a tool stays there.
LEMMA StaysWanted ==
  ASSUME NEW x, NEW y, NEW v, Answer(x, y, v, "model_response"), v.body = "tool"
  PROVE  Wanted(y)
  <1>1. v.type = "model_response" /\ \E i \in DOMAIN y.vault : y.vault[i] = v
    BY DEF Answer, AddsOnly
  <1>. QED BY <1>1 DEF Wanted, OfType

\* An attempt that is answered, and after which the run goes on.
LEMMA AskMove ==
  ASSUME NEW l, l.at = "ask", l.stage \in Stages, NEW r, NEW c, NEW m, NEW q, Stepped(l, r, c, m, q),
         NEW class, NEW to, AnsweredList(c, class, to), m.at \in Inside, m.stage = l.stage,
         m.at = "gate" => class = "tool", Ask(l, [class |-> class, to |-> to]) = Step(m, c)
  PROVE  Moves(l, r, m, q)
  <1>1. Answering(c, 3) /\ FiledAs(c[3]) = "model_response" /\ Sole({"model_request"}, c, 2)
    BY AnsweredFiles
  <1>2. l.at \in Inside
    BY DEF Inside
  <1>3. Loose(r) /\ Mirrors(c, c)
    BY SteppedBooks, MirrorsItself
  <1>4. Within(l, r, m, q) /\ Leads(View(l, r), View(m, q), Step(m, c))
    BY <1>1, <1>2, <1>3, AnsweredMove
  <1>5. PICK v : /\ Answer(View(l, r), View(m, q), v, "model_response") /\ Records(v, c[3], r.current)
                 /\ AddsOnly(TapeTypes, r.vault, q.vault, v)
    BY <1>1, <1>2, <1>3, AnsweredMove
  <1>6. v.body = class /\ v.to = to /\ v.type = "model_response"
    BY <1>1, <1>5 DEF Records, AnsweredList
  <1>7. Follows(View(l, r), View(m, q))
    <2>1. View(l, r).run = l
      BY DEF View
    <2>. QED BY <1>4, <1>5, <1>6, <2>1 DEF Follows
  <1>8. Even(r, q)
    <2>1. \A i \in 1..(2 - 1) : Stays(c[i])
      BY DEF AnsweredList, IsAsked, Stays
    <2>2. Cardinality(Requests(q)) = Cardinality(Requests(r)) + 1
      BY <1>1, <2>1, RequestsOf
    <2>3. Cardinality(Responses(q)) = Cardinality(Responses(r)) + 1
      BY <1>3, <1>5, <1>6, ResponsesOf
    <2>. QED BY <2>2, <2>3 DEF Even
  <1>9. Wanted(View(m, q))
    <2>1. CASE m.at = "gate"
      BY <1>5, <1>6, <2>1, StaysWanted
    <2>2. CASE m.at # "gate"
      BY <2>2 DEF Wanted, View
    <2>. QED BY <2>1, <2>2
  <1>. QED BY <1>4, <1>7, <1>8, <1>9 DEF Moves, Lost

\* An attempt that was not.
LEMMA SilentMove ==
  ASSUME NEW l, l.at = "ask", l.stage \in Stages, NEW r, NEW c, NEW m, NEW q, Stepped(l, r, c, m, q),
         SilentList(c), m.at \in Inside, m.stage = l.stage
  PROVE  Moves(l, r, m, q)
  <1>1. Keeps(c) /\ NoneOf(TapeTypes, c) /\ Sole({"model_request"}, c, 2)
    BY SilentFiles
  <1>2. l.at \in Inside
    BY DEF Inside
  <1>3. Mirrors(c, c)
    BY SteppedBooks, MirrorsItself
  <1>4. Within(l, r, m, q)
    BY <1>1, <1>2, <1>3, InsideMove
  <1>5. \A i \in 1..(2 - 1) : Stays(c[i])
    BY DEF SilentList, IsAsked, Stays
  <1>6. Cardinality(Requests(q)) = Cardinality(Requests(r)) + 1 /\ Responses(q) = Responses(r)
    BY <1>1, <1>5, RequestsOf
  <1>7. Lags(r, q)
    BY <1>6 DEF Lags
  <1>. QED BY <1>4, <1>7 DEF Moves, Lost

\* A run that fails does not go on.
LEMMA FailingLost ==
  ASSUME NEW l \in Runs, NEW c, NEW m, m = Failing(l, c).run, NEW q
  PROVE  ~Going(m, q)
  BY DEF Failing, Step, Runs, Going, Lost

\* Where a retry takes a run.
LEMMA RetriedRun ==
  ASSUME NEW l \in Runs, NEW m, m = [l EXCEPT !.at = "ask", !.retries = @ + 1]
  PROVE  m.at = "ask" /\ m.stage = l.stage
  <1>1. "ask" \in Points /\ l.retries + 1 \in Nat
    BY DEF Runs, Points
  <1>2. PICK n \in Nat : n = l.retries + 1
    BY <1>1
  <1>3. m = [l EXCEPT !.at = "ask", !.retries = n]
    BY <1>2
  <1>. QED BY <1>3 DEF Runs

\* Asking a model is a step of a run that goes on, whatever it answers.
LEMMA AskMoves ==
  ASSUME NEW l, LiveInv(l), l.at = "ask", NEW r, BookInv(l, r), NEW answer \in Answers(l.stage),
         NEW m, m = Ask(l, answer).run, NEW c, c = Ask(l, answer).calls,
         NEW q, q = After(r, c), Going(m, q)
  PROVE  Moves(l, r, m, q)
  <1>0. l \in Runs /\ l.stage \in Stages
    BY DEF LiveInv, Runs
  <1>1. /\ answer.class \in Bodies /\ answer.to \in MaybeStage
        /\ answer.class \in {"final", "invalid", "tool", "silent", "error"}
    BY <1>0, ScriptAssumption DEF Answers, Bodies, MaybeStage
  <1>2. answer = [class |-> answer.class, to |-> answer.to]
    BY DEF Answers
  <1>3. PICK u : u = <<Hook("model_call", None), Hook("model_request", None)>>
    OBVIOUS
  <1>4. u \in Seq(Calls) /\ Len(u) = 2 /\ IsAsked(u)
    BY <1>3, AskedList
  <1>5. PICK p : p = u \o <<[Hook("model_response", answer.class) EXCEPT !.to = answer.to],
                            Event("model_completed", l.stage)>>
    OBVIOUS
  <1>6. AnsweredList(p, answer.class, answer.to) /\ Len(p) = 4
    BY <1>0, <1>1, <1>4, <1>5, ToldList
  <1>7. ASSUME AnsweredList(c, answer.class, answer.to) \/ SilentList(c)
        PROVE  Stepped(l, r, c, m, q)
    <2>1. c \in Seq(Calls) /\ Len(c) \in 0..5
      BY <1>7 DEF AnsweredList, SilentList
    <2>. QED BY <2>1 DEF Stepped
  <1>8. CASE answer.class \in {"final", "tool"}
    <2>1. c = p
      BY <1>3, <1>5, <1>8 DEF Ask, Step
    <2>2. Ask(l, answer) = Step(m, c)
      BY <1>3, <1>5, <1>8 DEF Ask, Step
    <2>3. m.at \in {"done", "gate"} /\ m.stage = l.stage /\ (m.at = "gate" => answer.class = "tool")
      <3>1. CASE answer.class = "final"
        <4>1. PICK x \in MaybeStage : x = answer.to
          BY <1>1
        <4>2. m = [l EXCEPT !.at = "done", !.out = x]
          BY <3>1, <4>1 DEF Ask, Step
        <4>3. m.at = "done" /\ m.stage = l.stage
          BY <1>0, <4>2 DEF Runs
        <4>. QED BY <4>3
      <3>2. CASE answer.class = "tool"
        <4>1. m = [l EXCEPT !.at = "gate"]
          BY <3>2 DEF Ask, Step
        <4>2. "gate" \in Points
          BY DEF Points
        <4>. QED BY <1>0, <3>2, <4>1, <4>2, MovedTo
      <3>. QED BY <1>8, <3>1, <3>2
    <2>4. m.at \in Inside
      BY <2>3 DEF Inside
    <2>5. Ask(l, [class |-> answer.class, to |-> answer.to]) = Step(m, c)
      BY <1>2, <2>2
    <2>. QED BY <1>0, <1>6, <1>7, <2>1, <2>3, <2>4, <2>5, AskMove
  <1>9. CASE answer.class = "invalid"
    <2>1. Ask(l, answer) = Retry(l, p)
      BY <1>3, <1>5, <1>9 DEF Ask
    <2>2. l.retries < MaxRetries
      <3>1. SUFFICES ASSUME ~(l.retries < MaxRetries) PROVE FALSE
        OBVIOUS
      <3>2. m = Failing(l, p).run
        BY <2>1, <3>1 DEF Retry
      <3>. QED BY <1>0, <3>2, FailingLost
    <2>3. c = Append(p, Event("model_retry", l.stage)) /\ m = [l EXCEPT !.at = "ask", !.retries = @ + 1]
      BY <2>1, <2>2 DEF Retry, Step
    <2>4. Ask(l, answer) = Step(m, c)
      BY <2>1, <2>2, <2>3 DEF Retry
    <2>5. m.at = "ask" /\ m.stage = l.stage
      BY <1>0, <2>3, RetriedRun
    <2>6. AnsweredList(c, answer.class, answer.to)
      BY <1>0, <1>6, <2>3, ToldRetried
    <2>7. m.at \in Inside /\ m.at # "gate"
      BY <2>5 DEF Inside
    <2>8. Ask(l, [class |-> answer.class, to |-> answer.to]) = Step(m, c)
      BY <1>2, <2>4
    <2>. QED BY <1>0, <1>7, <2>5, <2>6, <2>7, <2>8, AskMove
  <1>10. CASE answer.class = "silent"
    <2>1. PICK t : t = Append(u, Event("model_delta", l.stage))
      OBVIOUS
    <2>2. Ask(l, answer) = Retry(l, t)
      BY <1>3, <1>10, <2>1 DEF Ask
    <2>3. l.retries < MaxRetries
      <3>1. SUFFICES ASSUME ~(l.retries < MaxRetries) PROVE FALSE
        OBVIOUS
      <3>2. m = Failing(l, t).run
        BY <2>2, <3>1 DEF Retry
      <3>. QED BY <1>0, <3>2, FailingLost
    <2>4. c = Append(t, Event("model_retry", l.stage)) /\ m = [l EXCEPT !.at = "ask", !.retries = @ + 1]
      BY <2>2, <2>3 DEF Retry, Step
    <2>5. m.at = "ask" /\ m.stage = l.stage
      BY <1>0, <2>4, RetriedRun
    <2>6. SilentList(c)
      BY <1>0, <1>4, <2>1, <2>4, SilentRetried
    <2>7. m.at \in Inside
      BY <2>5 DEF Inside
    <2>. QED BY <1>0, <1>7, <2>5, <2>6, <2>7, SilentMove
  <1>11. CASE answer.class = "error"
    <2>1. m = Failing(l, u).run
      BY <1>3, <1>11 DEF Ask
    <2>. QED BY <1>0, <2>1, FailingLost
  <1>. QED BY <1>1, <1>8, <1>9, <1>10, <1>11

\* A policy's verdict, or a tool's answer, after which the run goes on.
LEMMA ToolMove ==
  ASSUME NEW l, l.at \in {"gate", "call"}, l.stage \in Stages, NEW r, NEW c, NEW m, NEW q, Stepped(l, r, c, m, q),
         m.at \in Inside, m.at # "gate", m.stage = l.stage, NEW j, Answering(c, j), NEW d, Mirrors(d, c),
         FiledAs(c[j]) # "model_response", \A k \in 1..Len(c) : c[k].call # "model_request",
         \A v : Records(v, c[j], r.current) =>
           /\ l.at = "gate" => FiledAs(c[j]) = "policy_evaluation" /\ Gate(l, v.body) = Step(m, d)
           /\ l.at = "call" => /\ FiledAs(c[j]) = "tool_result"
                               /\ CallTool(l, [class |-> v.body, to |-> v.to], "plain") = Step(m, d)
  PROVE  Moves(l, r, m, q)
  <1>1. l.at \in Inside
    BY DEF Inside
  <1>2. Within(l, r, m, q) /\ Leads(View(l, r), View(m, q), Step(m, d))
    BY <1>1, AnsweredMove
  <1>3. PICK v : /\ Answer(View(l, r), View(m, q), v, FiledAs(c[j])) /\ Records(v, c[j], r.current)
                 /\ AddsOnly(TapeTypes, r.vault, q.vault, v)
    BY <1>1, AnsweredMove
  <1>4. Follows(View(l, r), View(m, q))
    <2>1. View(l, r).run = l
      BY DEF View
    <2>2. CASE l.at = "gate"
      BY <1>2, <1>3, <2>1, <2>2 DEF Follows
    <2>3. CASE l.at = "call"
      BY <1>2, <1>3, <2>1, <2>3 DEF Follows
    <2>. QED BY <2>2, <2>3
  <1>5. Even(r, q)
    <2>1. Loose(r)
      BY SteppedBooks
    <2>2. v.type # "model_response"
      BY <1>3 DEF Records
    <2>3. Responses(q) = Responses(r)
      BY <1>3, <2>1, <2>2, ResponsesOf
    <2>4. NoneOf({"model_request"}, c)
      <3>. SUFFICES ASSUME NEW k \in 1..Len(c) PROVE FiledAs(c[k]) \notin {"model_request"}
        BY DEF NoneOf
      <3>. QED BY DEF FiledAs, None
    <2>. QED BY <2>3, <2>4, RequestsOf DEF Even
  <1>6. Wanted(View(m, q))
    BY DEF Wanted, View
  <1>. QED BY <1>2, <1>4, <1>5, <1>6 DEF Moves, Lost

\* The calls of a policy's verdict, and those of a tool's answer.
GateList(c, body) ==
  /\ c \in Seq(Calls) /\ Len(c) \in 2..4
  /\ c[1].call = "event" /\ c[1].kind = "policy_checked"
  /\ c[2].call = "policy_evaluation" /\ c[2].kind = None /\ c[2].body = body
  /\ \A k \in 3..Len(c) : c[k].call = "event" /\ c[k].kind \in {"policy_denied", "model_retry"}
\* The calls of a tool call that returned, or failed.
CallList(c, call, to) ==
  /\ c \in Seq(Calls) /\ Len(c) \in 4..5
  /\ c[1].call = "tool_call" /\ c[1].kind = None
  /\ c[2].call = "event" /\ c[2].kind = "tool_call_started"
  /\ c[3].call = call /\ c[3].kind = None /\ c[3].to = to
  /\ \A k \in 4..Len(c) : c[k].call = "event" /\ c[k].kind \in ToolKinds \cup {"model_retry"}

\* A gate files its verdict.
LEMMA GateFiles ==
  ASSUME NEW c, NEW body, GateList(c, body)
  PROVE  /\ Answering(c, 2) /\ FiledAs(c[2]) = "policy_evaluation"
         /\ \A k \in 1..Len(c) : c[k].call # "model_request"
  <1>1. Len(c) \in 2..4
    BY DEF GateList
  <1>2. \A k \in 1..Len(c) : k = 1 \/ k = 2 \/ k \in 3..Len(c)
    BY <1>1
  <1>3. 2 \in 1..Len(c)
    BY <1>1
  <1>4. FiledAs(c[2]) = "policy_evaluation"
    BY DEF GateList, FiledAs
  <1>5. \A k \in 1..Len(c) : c[k].kind \notin {"stage_started", "stage_completed"}
    BY <1>2 DEF GateList, None
  <1>6. \A k \in 1..Len(c) : k # 2 => c[k].call \in Asking
    BY <1>2 DEF GateList, Asking
  <1>7. \A k \in 1..Len(c) : c[k].call # "model_request"
    BY <1>2 DEF GateList
  <1>8. c[2].call # "event"
    BY DEF GateList
  <1>. QED BY <1>3, <1>4, <1>5, <1>6, <1>7, <1>8 DEF Answering, TapeTypes

\* A tool call files its result.
LEMMA CallFiles ==
  ASSUME NEW c, NEW call \in {"tool_result", "tool_error"}, NEW to, CallList(c, call, to)
  PROVE  /\ Answering(c, 3) /\ FiledAs(c[3]) = "tool_result"
         /\ \A k \in 1..Len(c) : c[k].call # "model_request"
  <1>1. Len(c) \in 4..5
    BY DEF CallList
  <1>2. \A k \in 1..Len(c) : k = 1 \/ k = 2 \/ k = 3 \/ k \in 4..Len(c)
    BY <1>1
  <1>3. 3 \in 1..Len(c)
    BY <1>1
  <1>4. FiledAs(c[3]) = "tool_result"
    BY DEF CallList, FiledAs
  <1>5. \A k \in 1..Len(c) : c[k].kind \notin {"stage_started", "stage_completed"}
    BY <1>2 DEF CallList, None, ToolKinds
  <1>6. \A k \in 1..Len(c) : k # 3 => c[k].call \in Asking
    BY <1>2 DEF CallList, Asking
  <1>7. \A k \in 1..Len(c) : c[k].call # "model_request"
    BY <1>2 DEF CallList
  <1>8. c[3].call # "event"
    BY DEF CallList
  <1>. QED BY <1>3, <1>4, <1>5, <1>6, <1>7, <1>8 DEF Answering, TapeTypes

\* Where a run goes on after ToolFails.
LEMMA ToolFailsRun ==
  ASSUME NEW l \in Runs, NEW c, NEW m, m = ToolFails(l, c).run, NEW q, Going(m, q)
  PROVE  /\ l.stage \in ModelStages /\ m.at = "ask" /\ m.stage = l.stage
         /\ ToolFails(l, c) = Step(m, Append(c, Event("model_retry", l.stage)))
  <1>1. l.stage \in ModelStages
    <2>1. SUFFICES ASSUME l.stage \notin ModelStages PROVE FALSE
      OBVIOUS
    <2>2. m = Failing(l, c).run
      BY <2>1 DEF ToolFails
    <2>. QED BY <2>2, FailingLost
  <1>2. m = [l EXCEPT !.at = "ask"]
    BY <1>1 DEF ToolFails, Step
  <1>3. m.at = "ask" /\ m.stage = l.stage
    BY <1>2 DEF Runs
  <1>4. ToolFails(l, c) = Step(m, Append(c, Event("model_retry", l.stage)))
    BY <1>1, <1>2 DEF ToolFails
  <1>. QED BY <1>1, <1>3, <1>4

\* Passing the gate, or failing to, is a step of a run that goes on.
LEMMA GateMoves ==
  ASSUME NEW l, LiveInv(l), l.at = "gate", NEW r, BookInv(l, r), NEW answer \in Verdicts,
         NEW m, m = Gate(l, answer).run, NEW c, c = Gate(l, answer).calls,
         NEW q, q = After(r, c), Going(m, q)
  PROVE  Moves(l, r, m, q)
  <1>0. l \in Runs /\ l.stage \in Stages
    BY DEF LiveInv, Runs
  <1>1. PICK denied \in BOOLEAN : denied = (answer # "allowed")
    OBVIOUS
  <1>2. PICK body \in {"denied", "allowed"} : body = IF denied THEN "denied" ELSE "allowed"
    OBVIOUS
  <1>3. PICK a : a = [Event("policy_checked", l.stage) EXCEPT !.denied = denied]
    OBVIOUS
  <1>4. PICK b : b = Hook("policy_evaluation", body)
    OBVIOUS
  <1>5. a \in Calls /\ a.call = "event" /\ a.kind = "policy_checked"
    <2>1. PICK e : e = Event("policy_checked", l.stage)
      OBVIOUS
    <2>2. e \in Calls /\ e.call = "event" /\ e.kind = "policy_checked"
      BY <1>0, <2>1, RetryCall DEF StageKinds
    <2>. QED BY <1>3, <2>1, <2>2, CallDenied
  <1>6. b \in Calls /\ b.call = "policy_evaluation" /\ b.body = body
    BY <1>4, HookCall DEF CallNames, Bodies
  <1>7. b.kind = None
    BY <1>4 DEF Hook, Blank
  <1>8. PICK p : p = <<a, b>>
    OBVIOUS
  <1>9. p \in Seq(Calls) /\ Len(p) = 2 /\ p[1] = a /\ p[2] = b
    BY <1>5, <1>6, <1>8
  <1>10. p = <<[Event("policy_checked", l.stage) EXCEPT !.denied = (answer # "allowed")],
               Hook("policy_evaluation", IF answer # "allowed" THEN "denied" ELSE "allowed")>>
    BY <1>1, <1>2, <1>3, <1>4, <1>8
  <1>11. ASSUME GateList(c, body), m.at \in {"ask", "call"}, m.stage = l.stage, body = answer, Gate(l, answer) = Step(m, c)
         PROVE  Moves(l, r, m, q)
    <2>1. Answering(c, 2) /\ FiledAs(c[2]) = "policy_evaluation" /\ \A k \in 1..Len(c) : c[k].call # "model_request"
      BY <1>11, GateFiles
    <2>2. c \in Seq(Calls) /\ Len(c) \in 0..5
      BY <1>11 DEF GateList
    <2>3. Stepped(l, r, c, m, q)
      BY <2>2 DEF Stepped
    <2>4. Mirrors(c, c)
      BY <2>3, SteppedBooks, MirrorsItself
    <2>5. ASSUME NEW v, Records(v, c[2], r.current) PROVE v.body = answer
      BY <1>11, <2>5 DEF Records, GateList
    <2>6. m.at \in Inside /\ m.at # "gate" /\ l.at \in {"gate", "call"}
      BY <1>11 DEF Inside
    <2>7. PICK j : j = 2
      OBVIOUS
    <2>8. FiledAs(c[j]) = "policy_evaluation" /\ FiledAs(c[j]) # "model_response" /\ Answering(c, j)
      BY <2>1, <2>7
    <2>9. ASSUME NEW v, Records(v, c[j], r.current)
          PROVE  /\ l.at = "gate" => FiledAs(c[j]) = "policy_evaluation" /\ Gate(l, v.body) = Step(m, c)
                 /\ l.at = "call" => /\ FiledAs(c[j]) = "tool_result"
                                     /\ CallTool(l, [class |-> v.body, to |-> v.to], "plain") = Step(m, c)
      BY <1>11, <2>5, <2>7, <2>8, <2>9
    <2>10. /\ l.at \in {"gate", "call"} /\ l.stage \in Stages /\ m.at \in Inside /\ m.at # "gate" /\ m.stage = l.stage
           /\ \A k \in 1..Len(c) : c[k].call # "model_request"
      BY <1>0, <1>11, <2>1, <2>6
    <2>. QED BY <2>3, <2>4, <2>8, <2>9, <2>10, ToolMove
  <1>12. CASE answer = "allowed"
    <2>1. c = p /\ m = [l EXCEPT !.at = "call"]
      BY <1>10, <1>12 DEF Gate, Step
    <2>2. Gate(l, answer) = Step(m, c)
      BY <1>10, <1>12, <2>1 DEF Gate
    <2>3. m.at = "call" /\ m.stage = l.stage
      <3>1. "call" \in Points
        BY DEF Points
      <3>. QED BY <1>0, <2>1, <3>1, MovedTo
    <2>4. GateList(c, body)
      <3>0. Len(c) = 2
        BY <1>9, <2>1
      <3>1. 3..Len(c) = {} /\ Len(c) \in 2..4
        BY <3>0
      <3>. QED BY <1>5, <1>6, <1>7, <1>9, <2>1, <3>1 DEF GateList
    <2>. QED BY <1>1, <1>2, <1>11, <1>12, <2>2, <2>3, <2>4
  <1>13. CASE answer = "denied"
    <2>1. PICK e : e = Event("policy_denied", l.stage)
      OBVIOUS
    <2>2. PICK f : f = Event("model_retry", l.stage)
      OBVIOUS
    <2>3. e \in Calls /\ e.call = "event" /\ e.kind = "policy_denied" /\ f \in Calls /\ f.call = "event" /\ f.kind = "model_retry"
      BY <1>0, <2>1, <2>2, RetryCall DEF StageKinds, ModelKinds
    <2>4. PICK t : t = Append(p, e)
      OBVIOUS
    <2>5. Gate(l, answer) = ToolFails(l, t)
      BY <1>10, <1>13, <2>1, <2>4 DEF Gate
    <2>6. m.at = "ask" /\ m.stage = l.stage /\ Gate(l, answer) = Step(m, Append(t, f))
      BY <1>0, <2>2, <2>5, ToolFailsRun
    <2>7. c = Append(t, f) /\ Gate(l, answer) = Step(m, c)
      BY <2>6 DEF Step
    <2>8. t \in Seq(Calls) /\ Len(t) = 3 /\ t[3] = e /\ \A k \in 1..2 : t[k] = p[k]
      BY <1>9, <2>3, <2>4, OneMoreCall
    <2>9. c \in Seq(Calls) /\ Len(c) = 4 /\ c[4] = f /\ \A k \in 1..3 : c[k] = t[k]
      BY <2>3, <2>7, <2>8, OneMoreCall
    <2>10. c[1] = a /\ c[2] = b /\ c[3] = e
      BY <1>9, <2>8, <2>9
    <2>11. GateList(c, body)
      <3>1. \A k \in 3..Len(c) : k = 3 \/ k = 4
        BY <2>9
      <3>2. Len(c) \in 2..4
        BY <2>9
      <3>. QED BY <1>5, <1>6, <1>7, <2>3, <2>9, <2>10, <3>1, <3>2 DEF GateList
    <2>. QED BY <1>1, <1>2, <1>11, <1>13, <2>6, <2>7, <2>11
  <1>14. CASE answer = "unavailable"
    <2>1. m = Failing(l, p).run
      BY <1>10, <1>14 DEF Gate
    <2>. QED BY <1>0, <2>1, FailingLost
  <1>. QED BY <1>12, <1>13, <1>14 DEF Verdicts

\* Four calls, in two parts.
LEMMA FourCalls ==
  ASSUME NEW a \in Calls, NEW b \in Calls, NEW x \in Calls, NEW y \in Calls, NEW c, c = <<a, b>> \o <<x, y>>
  PROVE  c \in Seq(Calls) /\ Len(c) = 4 /\ c[1] = a /\ c[2] = b /\ c[3] = x /\ c[4] = y
  <1>1. PICK s : s = <<a, b>>
    OBVIOUS
  <1>2. PICK t : t = <<x, y>>
    OBVIOUS
  <1>3. s \in Seq(Calls) /\ Len(s) = 2 /\ s[1] = a /\ s[2] = b /\ t \in Seq(Calls) /\ Len(t) = 2 /\ t[1] = x /\ t[2] = y
    BY <1>1, <1>2
  <1>4. c = s \o t
    BY <1>1, <1>2
  <1>5. c \in Seq(Calls)
    BY <1>3, <1>4, ConcatProperties
  <1>6. Len(c) = Len(s) + Len(t) /\ \A i \in 1..(Len(s) + Len(t)) : c[i] = IF i <= Len(s) THEN s[i] ELSE t[i - Len(s)]
    BY <1>3, <1>4, ConcatProperties
  <1>7. Len(c) = 4 /\ \A i \in 1..4 : c[i] = IF i <= 2 THEN s[i] ELSE t[i - 2]
    BY <1>3, <1>6
  <1>. QED BY <1>3, <1>5, <1>7

\* What a call holds does not change what it is.
LEMMA HoldsAlike ==
  ASSUME NEW o \in Calls, NEW x \in Contents, NEW y \in Contents
  PROVE  AsCalled([o EXCEPT !.content = x], [o EXCEPT !.content = y])
  BY DEF AsCalled, Calls

\* Calls that differ in what the second holds.
LEMMA MirrorsSecond ==
  ASSUME NEW c, NEW d, d \in Seq(Calls), Len(c) \in Nat, Len(d) = Len(c), AsCalled(d[2], c[2]),
         \A k \in 1..Len(c) : k # 2 => d[k] = c[k]
  PROVE  Mirrors(d, c)
  <1>1. IsList(d)
    BY DEF IsList
  <1>2. \A k \in 1..Len(c) : AsCalled(d[k], c[k])
    BY DEF AsCalled
  <1>. QED BY <1>1, <1>2 DEF Mirrors

\* A tool call that is replayed with other arguments is replayed alike.
LEMMA CallMove ==
  ASSUME NEW l, l.at = "call", l.stage \in Stages, NEW r, BookInv(l, r), NEW m, NEW c, NEW q, q = After(r, c), Going(m, q),
         NEW call \in {"tool_result", "tool_error"}, NEW to, CallList(c, call, to), m.at \in {"ask", "done"},
         m.stage = l.stage, NEW d, Mirrors(d, c), call = "tool_error" => to = None,
         CallTool(l, [class |-> IF call = "tool_result" THEN "ok" ELSE "error", to |-> to], "plain") = Step(m, d)
  PROVE  Moves(l, r, m, q)
  <1>1. Answering(c, 3) /\ FiledAs(c[3]) = "tool_result" /\ \A k \in 1..Len(c) : c[k].call # "model_request"
    BY CallFiles
  <1>2. c \in Seq(Calls) /\ Len(c) \in 0..5
    BY DEF CallList
  <1>3. Stepped(l, r, c, m, q)
    BY <1>2 DEF Stepped
  <1>4. ASSUME NEW v, Records(v, c[3], r.current)
        PROVE  v.body = (IF call = "tool_result" THEN "ok" ELSE "error") /\ v.to = to
    <2>1. c[3].call = call /\ c[3].to = to
      BY DEF CallList
    <2>2. CASE call = "tool_result"
      BY <1>4, <2>1, <2>2 DEF Records
    <2>3. CASE call = "tool_error"
      BY <1>4, <2>1, <2>3 DEF Records
    <2>. QED BY <2>2, <2>3
  <1>5. m.at \in Inside /\ m.at # "gate" /\ l.at \in {"gate", "call"}
    BY DEF Inside
  <1>. QED BY <1>1, <1>3, <1>4, <1>5, ToolMove

\* Calling a tool is a step of a run that goes on, whatever it answers.
LEMMA CallMoves ==
  ASSUME NEW l, LiveInv(l), l.at = "call", NEW r, BookInv(l, r), NEW result \in Results(l.stage), NEW content \in Contents,
         NEW m, m = CallTool(l, result, content).run, NEW c, c = CallTool(l, result, content).calls,
         NEW q, q = After(r, c), Going(m, q)
  PROVE  Moves(l, r, m, q)
  <1>0. l \in Runs /\ l.stage \in Stages
    BY DEF LiveInv, Runs
  <1>1. /\ result.to \in MaybeStage /\ result.class \in {"ok", "error"}
        /\ result.class = "ok" /\ l.stage \notin ModelStages \cup Exits => result.to \in Edges[l.stage]
        /\ result.class = "error" => result.to = None
    BY <1>0, ScriptAssumption DEF Results, MaybeStage
  <1>2. PICK a : a = Hook("tool_call", None)
    OBVIOUS
  <1>3. PICK e : e = Event("tool_call_started", l.stage)
    OBVIOUS
  <1>4. PICK b : b = [e EXCEPT !.content = content]
    OBVIOUS
  <1>5. PICK p : p = [e EXCEPT !.content = "plain"]
    OBVIOUS
  <1>6. a \in Calls /\ a.call = "tool_call" /\ a.kind = None
    <2>1. a.kind = None
      BY <1>2 DEF Hook, Blank
    <2>. QED BY <1>2, <2>1, HookCall DEF CallNames, Bodies
  <1>7. e \in Calls /\ e.call = "event" /\ e.kind = "tool_call_started"
    BY <1>0, <1>3, RetryCall DEF StageKinds, ToolKinds
  <1>8. /\ b \in Calls /\ b.call = "event" /\ b.kind = "tool_call_started"
        /\ p \in Calls /\ AsCalled(p, b)
    <2>1. "plain" \in Contents
      BY DEF Contents
    <2>. QED BY <1>4, <1>5, <1>7, <2>1, CallHolding, HoldsAlike
  <1>9. CASE result.class = "ok"
    <2>1. PICK h : h = Hook("tool_result", "ok")
      OBVIOUS
    <2>2. PICK x : x = [h EXCEPT !.to = result.to]
      OBVIOUS
    <2>3. PICK y : y = Event("tool_call_completed", l.stage)
      OBVIOUS
    <2>4. x \in Calls /\ x.call = "tool_result" /\ x.kind = None /\ x.to = result.to
      <3>1. h \in Calls /\ h.call = "tool_result"
        BY <2>1, HookCall DEF CallNames, Bodies
      <3>2. h.kind = None
        BY <2>1 DEF Hook, Blank
      <3>. QED BY <1>1, <2>2, <3>1, <3>2, CallTo
    <2>5. y \in Calls /\ y.call = "event" /\ y.kind = "tool_call_completed"
      BY <1>0, <2>3, RetryCall DEF StageKinds, ToolKinds
    <2>6. PICK d : d = <<a, p>> \o <<x, y>>
      OBVIOUS
    <2>7. PICK to : to = result.to
      OBVIOUS
    <2>8. /\ CallTool(l, result, content) = Step(Returned(l, to), <<a, b>> \o <<x, y>>)
          /\ CallTool(l, result, "plain") = Step(Returned(l, to), <<a, p>> \o <<x, y>>)
      BY <1>2, <1>3, <1>4, <1>5, <1>9, <2>1, <2>2, <2>3, <2>7 DEF CallTool, Returned
    <2>9. m = Returned(l, to) /\ c = <<a, b>> \o <<x, y>> /\ CallTool(l, result, "plain") = Step(m, d)
      BY <2>6, <2>8 DEF Step
    <2>10. m.stage = l.stage /\ m.at \in {"ask", "done"}
      BY <1>1, <1>9, <2>7, <2>9, ReturnedRun
    <2>11. c \in Seq(Calls) /\ Len(c) = 4 /\ c[1] = a /\ c[2] = b /\ c[3] = x /\ c[4] = y
      BY <1>6, <1>8, <2>4, <2>5, <2>9, FourCalls
    <2>12. d \in Seq(Calls) /\ Len(d) = 4 /\ d[1] = a /\ d[2] = p /\ d[3] = x /\ d[4] = y
      BY <1>6, <1>8, <2>4, <2>5, <2>6, FourCalls
    <2>13. CallList(c, "tool_result", to)
      <3>1. \A k \in 4..Len(c) : k = 4
        BY <2>11
      <3>2. Len(c) \in 4..5
        BY <2>11
      <3>. QED BY <1>6, <1>8, <2>4, <2>5, <2>7, <2>11, <3>1, <3>2 DEF CallList, ToolKinds
    <2>14. Mirrors(d, c)
      <3>1. \A k \in 1..Len(c) : k # 2 => d[k] = c[k]
        <4>1. \A k \in 1..Len(c) : k = 1 \/ k = 2 \/ k = 3 \/ k = 4
          BY <2>11
        <4>. QED BY <2>11, <2>12, <4>1
      <3>. QED BY <1>8, <2>11, <2>12, <3>1, MirrorsSecond
    <2>15. result = [class |-> "ok", to |-> to]
      BY <1>9, <2>7 DEF Results
    <2>16. CallTool(l, [class |-> IF "tool_result" = "tool_result" THEN "ok" ELSE "error", to |-> to], "plain") = Step(m, d)
      BY <2>9, <2>15
    <2>. QED BY <1>0, <2>10, <2>13, <2>14, <2>16, CallMove
  <1>10. CASE result.class = "error"
    <2>1. PICK x : x = Hook("tool_error", "error")
      OBVIOUS
    <2>2. PICK y : y = Event("tool_call_failed", l.stage)
      OBVIOUS
    <2>3. PICK z : z = Event("model_retry", l.stage)
      OBVIOUS
    <2>4. x \in Calls /\ x.call = "tool_error" /\ x.kind = None /\ x.to = None
      <3>1. x.kind = None /\ x.to = None
        BY <2>1 DEF Hook, Blank
      <3>. QED BY <2>1, <3>1, HookCall DEF CallNames, Bodies
    <2>5. /\ y \in Calls /\ y.call = "event" /\ y.kind = "tool_call_failed"
          /\ z \in Calls /\ z.call = "event" /\ z.kind = "model_retry"
      BY <1>0, <2>2, <2>3, RetryCall DEF StageKinds, ToolKinds, ModelKinds
    <2>6. PICK s : s = <<a, b>> \o <<x, y>>
      OBVIOUS
    <2>7. PICK t : t = <<a, p>> \o <<x, y>>
      OBVIOUS
    <2>8. CallTool(l, result, content) = ToolFails(l, s) /\ CallTool(l, result, "plain") = ToolFails(l, t)
      BY <1>2, <1>3, <1>4, <1>5, <1>10, <2>1, <2>2, <2>6, <2>7 DEF CallTool
    <2>9. m.stage = l.stage /\ m.at = "ask" /\ l.stage \in ModelStages /\ ToolFails(l, s) = Step(m, Append(s, z))
      BY <1>0, <2>3, <2>8, ToolFailsRun
    <2>10. PICK d : d = Append(t, z)
      OBVIOUS
    <2>11. c = Append(s, z) /\ CallTool(l, result, "plain") = Step(m, d)
      <3>1. ToolFails(l, s).run = [l EXCEPT !.at = "ask"] /\ ToolFails(l, t) = Step([l EXCEPT !.at = "ask"], Append(t, z))
        BY <2>3, <2>9 DEF ToolFails, Step
      <3>2. ToolFails(l, s).run = m /\ ToolFails(l, s).calls = Append(s, z)
        BY <2>9 DEF Step
      <3>3. c = Append(s, z)
        BY <2>8, <3>2
      <3>4. CallTool(l, result, "plain") = Step(m, d)
        BY <2>8, <2>10, <3>1, <3>2
      <3>. QED BY <3>3, <3>4
    <2>12. s \in Seq(Calls) /\ Len(s) = 4 /\ s[1] = a /\ s[2] = b /\ s[3] = x /\ s[4] = y
      BY <1>6, <1>8, <2>4, <2>5, <2>6, FourCalls
    <2>13. t \in Seq(Calls) /\ Len(t) = 4 /\ t[1] = a /\ t[2] = p /\ t[3] = x /\ t[4] = y
      BY <1>6, <1>8, <2>4, <2>5, <2>7, FourCalls
    <2>14. c \in Seq(Calls) /\ Len(c) = 5 /\ c[5] = z /\ \A k \in 1..4 : c[k] = s[k]
      <3>1. c \in Seq(Calls) /\ Len(c) = Len(s) + 1 /\ c[Len(s) + 1] = z /\ \A k \in 1..Len(s) : c[k] = s[k]
        <4>1. s \in Seq(Calls) /\ z \in Calls /\ c = Append(s, z)
          BY <2>5, <2>11, <2>12
        <4>. QED BY <4>1, OneMoreCall
      <3>. QED BY <2>12, <3>1
    <2>15. d \in Seq(Calls) /\ Len(d) = 5 /\ d[5] = z /\ \A k \in 1..4 : d[k] = t[k]
      <3>1. d \in Seq(Calls) /\ Len(d) = Len(t) + 1 /\ d[Len(t) + 1] = z /\ \A k \in 1..Len(t) : d[k] = t[k]
        <4>1. t \in Seq(Calls) /\ z \in Calls /\ d = Append(t, z)
          BY <2>5, <2>10, <2>13
        <4>. QED BY <4>1, OneMoreCall
      <3>. QED BY <2>13, <3>1
    <2>16. c[1] = a /\ c[2] = b /\ c[3] = x /\ c[4] = y /\ d[1] = a /\ d[2] = p /\ d[3] = x /\ d[4] = y
      BY <2>12, <2>13, <2>14, <2>15
    <2>17. CallList(c, "tool_error", None)
      <3>1. \A k \in 4..Len(c) : k = 4 \/ k = 5
        BY <2>14
      <3>2. Len(c) \in 4..5
        BY <2>14
      <3>. QED BY <1>6, <1>8, <2>4, <2>5, <2>14, <2>16, <3>1, <3>2 DEF CallList, ToolKinds
    <2>18. Mirrors(d, c)
      <3>1. \A k \in 1..Len(c) : k # 2 => d[k] = c[k]
        <4>1. \A k \in 1..Len(c) : k = 1 \/ k = 2 \/ k = 3 \/ k = 4 \/ k = 5
          BY <2>14
        <4>. QED BY <2>14, <2>15, <2>16, <4>1
      <3>. QED BY <1>8, <2>14, <2>15, <2>16, <3>1, MirrorsSecond
    <2>19. result = [class |-> "error", to |-> None]
      BY <1>1, <1>10 DEF Results
    <2>20. CallTool(l, [class |-> IF "tool_error" = "tool_result" THEN "ok" ELSE "error", to |-> None], "plain") = Step(m, d)
      BY <2>11, <2>19
    <2>. QED BY <1>0, <2>9, <2>17, <2>18, <2>20, CallMove
  <1>. QED BY <1>1, <1>9, <1>10

\* The event that a visit begins is about the visit its hook announced.
LEMMA StartPlace ==
  ASSUME NEW r, LedgerInv(r), Rest(r), ~r.exceeded, NEW o \in Calls, o.call = "stage_visit", o.stage \in Stages,
         NEW e \in Calls, e.call = "event", e.kind = "stage_started", e.content = "plain", e.stage = o.stage,
         NEW q, q = Apply(Apply(r, o), e), ~q.exceeded
  PROVE  q.visits = r.visits + 1 /\ q.current = q.visits
  <1>1. PICK s : s = Apply(r, o)
    OBVIOUS
  <1>2. /\ LedgerInv(s) /\ ~s.exceeded
        /\ s.current \in Ids
        /\ At(s.pendingVisits, o.stage) = Append(At(r.pendingVisits, o.stage), s.current)
    BY <1>1, StageVisitHook
  <1>3. s = BeginStageVisit(r, o.stage)
    BY <1>1 DEF Apply
  <1>4. s.visits = r.visits + 1 /\ s.current = r.visits + 1
    BY <1>3 DEF BeginStageVisit, RecorderFields, LedgerInv
  <1>5. At(s.pendingVisits, o.stage) = <<s.current>>
    <2>1. <<s.current>> = Append(<<>>, s.current)
      BY <1>2, EmptySeq, Appended
    <2>. QED BY <1>2, <2>1 DEF Rest
  <1>6. Changes(s, q, {"live", "events", "current", "pendingVisits"}) /\ q.current = s.current
    BY <1>1, <1>2, <1>5, StageStartedEvent
  <1>7. q.visits = s.visits
    BY <1>6 DEF Changes, RecorderFields
  <1>. QED BY <1>4, <1>6, <1>7

\* A visit begins.
LEMMA StartMoves ==
  ASSUME NEW l, NEW r, InStep(l, r), l.at = "next", BookInv(l, r),
         NEW m, m = StartStage(l).run, NEW c, c = StartStage(l).calls, NEW q, q = After(r, c), Going(m, q)
  PROVE  Moves(l, r, m, q)
  <1>0. l \in Runs /\ l.stage \in Stages /\ Resting(r)
    BY DEF InStep, LiveInv, Runs
  <1>1. PICK a : a = [Hook("stage_visit", None) EXCEPT !.stage = l.stage]
    OBVIOUS
  <1>2. PICK b : b = Event("stage_started", l.stage)
    OBVIOUS
  <1>3. a \in Calls /\ a.call = "stage_visit" /\ a.stage = l.stage /\ a.kind = None
    <2>1. PICK h : h = Hook("stage_visit", None)
      OBVIOUS
    <2>2. h \in Calls /\ h.call = "stage_visit"
      BY <2>1, HookCall DEF CallNames, Bodies
    <2>3. h.kind = None
      BY <2>1 DEF Hook, Blank
    <2>4. a = [h EXCEPT !.stage = l.stage]
      BY <1>1, <2>1
    <2>. QED BY <1>0, <2>2, <2>3, <2>4, CallIn DEF Calls, MaybeStage
  <1>4. /\ b \in Calls /\ b.call = "event" /\ b.kind = "stage_started" /\ b.content = "plain"
        /\ b.stage = l.stage
    BY <1>0, <1>2, StageEvent DEF StageKinds
  <1>5. c = <<a, b>> /\ m = [l EXCEPT !.at = IF l.stage \in ModelStages THEN "ask" ELSE "gate", !.retries = 0]
    BY <1>1, <1>2 DEF StartStage, Step
  <1>6. c \in Seq(Calls) /\ Len(c) = 2 /\ c[1] = a /\ c[2] = b
    BY <1>3, <1>4, <1>5
  <1>7. Stepped(l, r, c, m, q)
    BY <1>6 DEF Stepped
  <1>8. m.stage = l.stage /\ m.at = IF l.stage \in ModelStages THEN "ask" ELSE "gate"
    BY <1>0, <1>5 DEF Runs
  <1>9. Loose(r) /\ IsList(c) /\ Len(c) \in Nat /\ Kept(q) /\ Complete(r)
    BY <1>7, SteppedBooks
  <1>10. PICK s : Booked(s, r, c, q)
    BY <1>7, SteppedBooks
  <1>11. Kept(r)
    BY <1>6, StepChain DEF StepBooks, BookInv, Going
  <1>12. q.visits = r.visits + 1 /\ q.current = q.visits
    <2>1. q = Apply(Apply(r, a), b)
      BY <1>3, <1>4, <1>5, AfterTwo
    <2>2. ~r.exceeded /\ ~q.exceeded
      BY <1>9, <1>11 DEF Kept
    <2>3. LedgerInv(r) /\ Rest(r)
      BY <1>0, <2>2 DEF Resting
    <2>. QED BY <1>0, <1>3, <1>4, <2>1, <2>2, <2>3, StartPlace
  <1>13. \A k \in 1..Len(c) : k = 1 \/ k = 2
    BY <1>6
  <1>14. \A types \in SUBSET Filing : NoneOf(types, c)
    BY <1>3, <1>4, <1>6, <1>13 DEF NoneOf, FiledAs, Filing, None
  <1>15. {"model_request"} \in SUBSET Filing /\ TapeTypes \in SUBSET Filing /\ SnapshotTypes \in SUBSET Filing
    BY DEF Filing, TapeTypes, SnapshotTypes
  <1>16. AddsNone(TapeTypes, r.vault, q.vault) /\ AddsNone(SnapshotTypes, r.vault, q.vault)
    BY <1>9, <1>10, <1>14, <1>15, StepAddsNone
  <1>17. Even(r, q)
    BY <1>7, <1>14, <1>15, RequestsOf DEF Even
  <1>18. Enters(l, r, m, q)
    BY <1>8, <1>12, <1>16 DEF Enters, Inside
  <1>19. PICK x : x = View(l, r)
    OBVIOUS
  <1>20. PICK y : y = View(m, q)
    OBVIOUS
  <1>21. /\ x.run = l /\ x.vault = r.vault /\ x.events = r.events /\ x.visits = r.visits
         /\ y.run = m /\ y.vault = q.vault /\ y.events = q.events /\ y.visits = q.visits
    BY <1>19, <1>20 DEF View
  <1>22. ASSUME NEW p, Repeats(p, x) PROVE Repeats(p \o EventsOf(c), y)
    <2>1. PathOf(p, r) /\ Snapshots(r.vault) \subseteq Outputs(p)
      BY <1>21, <1>22 DEF Repeats, PathOf
    <2>2. Mirrors(c, c)
      BY <1>9, MirrorsItself
    <2>3. PICK L \in Nat : L = 1
      OBVIOUS
    <2>4. L + 1 = Len(c) /\ (\A k \in 1..L : c[k].kind # "stage_started") /\ c[L + 1].call = "event"
          /\ c[L + 1].kind = "stage_started"
      BY <1>3, <1>4, <1>6, <2>3 DEF None
    <2>5. PathOf(p \o EventsOf(c), q) /\ Outputs(p) \subseteq Outputs(p \o EventsOf(c))
      BY <1>9, <1>10, <1>12, <2>1, <2>2, <2>4, PathStarts
    <2>6. Snapshots(q.vault) = Snapshots(r.vault)
      BY <1>16, NoSnapshot
    <2>. QED BY <1>21, <2>1, <2>5, <2>6 DEF Repeats, PathOf
  <1>23. StartStage(l).run = m /\ StartStage(l).calls = c
    OBVIOUS
  <1>24. Follows(x, y)
    BY <1>16, <1>21, <1>22, <1>23 DEF Follows, Leads
  <1>25. Wanted(y)
    BY <1>8, <1>21 DEF Wanted
  <1>. QED BY <1>0, <1>8, <1>17, <1>18, <1>19, <1>20, <1>24, <1>25 DEF Moves, Lost

\* The calls at the end of a visit.
LeaveList(c, stage, out) ==
  /\ c \in Seq(Calls) /\ Len(c) \in 2..3
  /\ c[1].call = "event" /\ c[1].kind = "stage_completed" /\ c[1].stage = stage /\ c[1].to = out
  /\ \A k \in 2..Len(c) : \/ c[k].call = "transition_evaluation" /\ c[k].kind = None
                          \/ c[k].call = "event" /\ c[k].kind \in {"run_completed", "transition_selected"}

\* The end of a visit files its snapshot.
LEMMA LeaveFiles ==
  ASSUME NEW c, NEW stage, NEW out, LeaveList(c, stage, out)
  PROVE  /\ NoneOf(TapeTypes, c) /\ NoneOf({"model_request"}, c) /\ Sole(SnapshotTypes, c, 1)
         /\ \A k \in 1..Len(c) : Stays(c[k]) /\ c[k].kind # "stage_started"
  <1>1. Len(c) \in 2..3
    BY DEF LeaveList
  <1>2. \A k \in 1..Len(c) : k = 1 \/ k \in 2..Len(c)
    BY <1>1
  <1>3. 1 \in 1..Len(c)
    BY <1>1
  <1>4. FiledAs(c[1]) = "stage_snapshot"
    BY DEF LeaveList, FiledAs
  <1>5. \A k \in 2..Len(c) : FiledAs(c[k]) = None
    BY DEF LeaveList, FiledAs
  <1>6. NoneOf(TapeTypes, c) /\ NoneOf({"model_request"}, c)
    BY <1>2, <1>4, <1>5 DEF NoneOf, TapeTypes, None
  <1>7. Sole(SnapshotTypes, c, 1)
    BY <1>2, <1>3, <1>4, <1>5 DEF Sole, SnapshotTypes, None
  <1>8. \A k \in 1..Len(c) : Stays(c[k]) /\ c[k].kind # "stage_started"
    BY <1>2 DEF LeaveList, Stays, None
  <1>. QED BY <1>6, <1>7, <1>8

\* So it is a step of a run that goes on.
LEMMA LeaveMove ==
  ASSUME NEW l, l.at = "done", NEW r, NEW c, NEW m, NEW q, Stepped(l, r, c, m, q), LeaveList(c, l.stage, l.out),
         m.at \in {"complete", "next"}, m.stage \in Stages, CompleteStage(l) = Step(m, c)
  PROVE  Moves(l, r, m, q)
  <1>1. /\ NoneOf(TapeTypes, c) /\ NoneOf({"model_request"}, c) /\ Sole(SnapshotTypes, c, 1)
        /\ \A k \in 1..Len(c) : Stays(c[k]) /\ c[k].kind # "stage_started"
    BY LeaveFiles
  <1>2. Loose(r) /\ IsList(c) /\ Len(c) \in Nat /\ Kept(q) /\ Complete(r)
    BY SteppedBooks
  <1>3. PICK s : Booked(s, r, c, q)
    BY SteppedBooks
  <1>4. Kept(r)
    BY StepChain DEF StepBooks, Stepped, BookInv, Going
  <1>5. r.current = r.visits
    <2>1. Going(l, r)
      BY <1>2, <1>4 DEF Going, Lost
    <2>. QED BY <2>1 DEF Stepped, BookInv, Fresh, Inside
  <1>6. TapeTypes \in SUBSET Filing /\ SnapshotTypes \in SUBSET Filing
    BY DEF Filing, TapeTypes, SnapshotTypes
  <1>7. AddsNone(TapeTypes, r.vault, q.vault)
    BY <1>1, <1>2, <1>3, <1>6, StepAddsNone
  <1>8. PICK v : Records(v, c[1], r.current) /\ AddsOnly(SnapshotTypes, r.vault, q.vault, v)
    <2>1. \A i \in 1..(1 - 1) : Stays(c[i])
      OBVIOUS
    <2>. QED BY <1>1, <1>2, <1>3, <1>6, <2>1, StepAddsOnly
  <1>9. v.visit = r.current /\ v.stage = l.stage /\ v.to = l.out
    BY <1>8 DEF Records, LeaveList
  <1>10. SamePlace(r, q)
    <2>1. PICK L \in Nat : L = Len(c)
      BY <1>2
    <2>2. L \in 0..L /\ \A k \in 1..L : Stays(c[k])
      BY <1>1, <2>1
    <2>3. SamePlace(r, s[L])
      BY <1>3, <2>1, <2>2, ChainStays
    <2>. QED BY <1>3, <2>1, <2>3 DEF Booked
  <1>11. Leaves(l, r, m, q)
    BY <1>8, <1>9, <1>10 DEF Leaves, Inside
  <1>12. PICK x : x = View(l, r)
    OBVIOUS
  <1>13. PICK y : y = View(m, q)
    OBVIOUS
  <1>14. /\ x.run = l /\ x.vault = r.vault /\ x.events = r.events /\ x.visits = r.visits
         /\ y.run = m /\ y.vault = q.vault /\ y.events = q.events /\ y.visits = q.visits
    BY <1>12, <1>13 DEF View
  <1>15. ASSUME NEW p, Repeats(p, x) PROVE Repeats(p \o EventsOf(c), y)
    <2>1. PathOf(p, r) /\ Snapshots(r.vault) \subseteq Outputs(p)
      BY <1>14, <1>15 DEF Repeats, PathOf
    <2>2. Mirrors(c, c)
      BY <1>2, MirrorsItself
    <2>3. /\ PathOf(p \o EventsOf(c), q) /\ Outputs(p) \subseteq Outputs(p \o EventsOf(c))
          /\ \A k \in 1..Len(c) : c[k].call = "event" /\ c[k].kind = "stage_completed" =>
               <<r.visits, c[k].to>> \in Outputs(p \o EventsOf(c))
      BY <1>1, <1>2, <1>3, <2>1, <2>2, PathStays
    <2>4. <<r.visits, l.out>> \in Outputs(p \o EventsOf(c))
      <3>1. 1 \in 1..Len(c)
        BY <1>1 DEF Sole
      <3>. QED BY <2>3, <3>1 DEF LeaveList
    <2>5. Snapshots(q.vault) = Snapshots(r.vault) \cup {<<v.visit, v.to>>}
      BY <1>8, OneSnapshot
    <2>6. Snapshots(q.vault) \subseteq Outputs(p \o EventsOf(c))
      BY <1>5, <1>9, <2>1, <2>3, <2>4, <2>5
    <2>. QED BY <1>14, <2>3, <2>6 DEF Repeats, PathOf
  <1>16. CompleteStage(l).run = m /\ CompleteStage(l).calls = c
    BY DEF Step
  <1>17. Follows(x, y)
    BY <1>7, <1>14, <1>15, <1>16 DEF Follows, Leads
  <1>18. Even(r, q)
    BY <1>1, RequestsOf DEF Even
  <1>19. Wanted(y)
    BY <1>14 DEF Wanted
  <1>. QED BY <1>11, <1>12, <1>13, <1>17, <1>18, <1>19 DEF Moves, Lost

\* A visit ends.
LEMMA CompleteMoves ==
  ASSUME NEW l, LiveInv(l), l.at = "done", NEW r, BookInv(l, r),
         NEW m, m = CompleteStage(l).run, NEW c, c = CompleteStage(l).calls, NEW q, q = After(r, c), Going(m, q)
  PROVE  Moves(l, r, m, q)
  <1>0. l \in Runs /\ l.stage \in Stages /\ l.out \in MaybeStage
    BY DEF LiveInv, Runs
  <1>1. PICK e : e = Event("stage_completed", l.stage)
    OBVIOUS
  <1>2. PICK a : a = [e EXCEPT !.to = l.out]
    OBVIOUS
  <1>3. /\ a \in Calls /\ a.call = "event" /\ a.kind = "stage_completed" /\ a.stage = l.stage
        /\ a.to = l.out
    <2>1. e \in Calls /\ e.call = "event" /\ e.kind = "stage_completed" /\ e.stage = l.stage
      BY <1>0, <1>1, StageEvent DEF StageKinds
    <2>. QED BY <1>0, <1>2, <2>1, CallTo
  <1>4. ASSUME LeaveList(c, l.stage, l.out), m.at \in {"complete", "next"}, m.stage \in Stages,
               CompleteStage(l) = Step(m, c)
        PROVE  Moves(l, r, m, q)
    <2>1. c \in Seq(Calls) /\ Len(c) \in 0..5
      BY <1>4 DEF LeaveList
    <2>2. Stepped(l, r, c, m, q)
      BY <2>1 DEF Stepped
    <2>. QED BY <1>4, <2>2, LeaveMove
  <1>5. CASE l.stage \in Exits
    <2>1. PICK b : b = Event("run_completed", None)
      OBVIOUS
    <2>2. b \in Calls /\ b.call = "event" /\ b.kind = "run_completed"
      BY <2>1, EventCall DEF Kinds, MaybeStage
    <2>3. m = [l EXCEPT !.at = "complete"] /\ c = <<a, b>> /\ CompleteStage(l) = Step(m, c)
      BY <1>1, <1>2, <1>5, <2>1 DEF CompleteStage, Step
    <2>4. m.at = "complete" /\ m.stage \in Stages
      BY <1>0, <2>3 DEF Runs
    <2>5. c \in Seq(Calls) /\ Len(c) = 2 /\ c[1] = a /\ c[2] = b
      BY <1>3, <2>2, <2>3
    <2>6. LeaveList(c, l.stage, l.out)
      <3>1. (\A k \in 2..Len(c) : k = 2) /\ Len(c) \in 2..3
        BY <2>5
      <3>. QED BY <1>3, <2>2, <2>5, <3>1 DEF LeaveList
    <2>. QED BY <1>4, <2>3, <2>4, <2>6
  <1>6. CASE l.stage \notin Exits
    <2>1. PICK b : b = Hook("transition_evaluation", None)
      OBVIOUS
    <2>2. b \in Calls /\ b.call = "transition_evaluation" /\ b.kind = None
      <3>1. b.kind = None
        BY <2>1 DEF Hook, Blank
      <3>. QED BY <2>1, <3>1, HookCall DEF CallNames, Bodies
    <2>3. PICK f : f = Event("transition_selected", l.stage)
      OBVIOUS
    <2>4. PICK g : g = [f EXCEPT !.to = l.out]
      OBVIOUS
    <2>5. g \in Calls /\ g.call = "event" /\ g.kind = "transition_selected"
      <3>1. f \in Calls /\ f.call = "event" /\ f.kind = "transition_selected"
        BY <1>0, <2>3, StageEvent DEF StageKinds
      <3>. QED BY <1>0, <2>4, <3>1, CallTo
    <2>6. m = [l EXCEPT !.at = "next", !.stage = l.out] /\ c = <<a, b, g>> /\ CompleteStage(l) = Step(m, c)
      BY <1>1, <1>2, <1>6, <2>1, <2>3, <2>4 DEF CompleteStage, Step
    <2>7. m.at = "next" /\ m.stage \in Stages
      <3>1. l.out \in Stages
        BY <1>0, <1>6, ScriptAssumption DEF LiveInv
      <3>. QED BY <1>0, <2>6, <3>1 DEF Runs
    <2>8. c \in Seq(Calls) /\ Len(c) = 3 /\ c[1] = a /\ c[2] = b /\ c[3] = g
      BY <1>3, <2>2, <2>5, <2>6
    <2>9. LeaveList(c, l.stage, l.out)
      <3>1. (\A k \in 2..Len(c) : k = 2 \/ k = 3) /\ Len(c) \in 2..3
        BY <2>8
      <3>. QED BY <1>3, <2>2, <2>5, <2>8, <3>1 DEF LeaveList
    <2>. QED BY <1>4, <2>6, <2>7, <2>9
  <1>. QED BY <1>5, <1>6

-----------------------------------------------------------------------------
(* The calls of a step, whatever becomes of the run *)

\* The calls of a step are few; after one less there is room for one more.
AreCalls(c) == c \in Seq(Calls) /\ Len(c) \in 0..5
\* The calls of a step, but one.
FewCalls(c) == c \in Seq(Calls) /\ Len(c) \in 0..4

\* One more event fits.
LEMMA OneMoreFits ==
  ASSUME NEW c, FewCalls(c), NEW stage \in Stages, NEW kind \in StageKinds
  PROVE  AreCalls(c) /\ AreCalls(Append(c, Event(kind, stage)))
  <1>1. PICK e : e = Event(kind, stage)
    OBVIOUS
  <1>2. e \in Calls
    BY <1>1, RetryCall
  <1>3. PICK d : d = Append(c, e)
    OBVIOUS
  <1>4. d \in Seq(Calls) /\ Len(d) = Len(c) + 1
    BY <1>2, <1>3, OneMoreCall DEF FewCalls
  <1>5. Len(d) \in 0..5 /\ Len(c) \in 0..5
    <2>1. PICK n \in 0..4 : n = Len(c)
      BY DEF FewCalls
    <2>2. n \in 0..5 /\ n + 1 \in 0..5
      OBVIOUS
    <2>. QED BY <1>4, <2>1, <2>2
  <1>. QED BY <1>1, <1>3, <1>4, <1>5 DEF AreCalls, FewCalls

\* A failure and a retry fit.
LEMMA RetryFits ==
  ASSUME NEW l, l.stage \in Stages, NEW c, FewCalls(c)
  PROVE  AreCalls(Failing(l, c).calls) /\ AreCalls(Retry(l, c).calls) /\ AreCalls(ToolFails(l, c).calls)
  <1>1. AreCalls(c) /\ AreCalls(Append(c, Event("model_retry", l.stage)))
    BY OneMoreFits DEF StageKinds, ModelKinds
  <1>2. Failing(l, c).calls = c
    BY DEF Failing, Step
  <1>3. Retry(l, c).calls = IF l.retries < MaxRetries THEN Append(c, Event("model_retry", l.stage)) ELSE c
    BY <1>2 DEF Retry, Step
  <1>4. ToolFails(l, c).calls = IF l.stage \in ModelStages THEN Append(c, Event("model_retry", l.stage)) ELSE c
    BY <1>2 DEF ToolFails, Step
  <1>. QED BY <1>1, <1>2, <1>3, <1>4

\* The calls of an attempt fit.
LEMMA AskFits ==
  ASSUME NEW l, l.stage \in Stages, NEW answer \in Answers(l.stage)
  PROVE  AreCalls(Ask(l, answer).calls)
  <1>1. /\ answer.class \in Bodies /\ answer.to \in MaybeStage
        /\ answer.class \in {"final", "invalid", "tool", "silent", "error"}
    BY ScriptAssumption DEF Answers, Bodies, MaybeStage
  <1>2. PICK u : u = <<Hook("model_call", None), Hook("model_request", None)>>
    OBVIOUS
  <1>3. u \in Seq(Calls) /\ Len(u) = 2 /\ IsAsked(u)
    BY <1>2, AskedList
  <1>4. PICK p : p = u \o <<[Hook("model_response", answer.class) EXCEPT !.to = answer.to],
                            Event("model_completed", l.stage)>>
    OBVIOUS
  <1>5. p \in Seq(Calls) /\ Len(p) = 4
    <2>1. PICK stage \in Stages, class \in Bodies, to \in MaybeStage :
            stage = l.stage /\ class = answer.class /\ to = answer.to
      BY <1>1
    <2>2. p = u \o <<[Hook("model_response", class) EXCEPT !.to = to], Event("model_completed", stage)>>
      BY <1>4, <2>1
    <2>3. AnsweredList(p, class, to) /\ Len(p) = 4
      BY <1>3, <2>2, ToldList
    <2>. QED BY <2>3 DEF AnsweredList
  <1>6. FewCalls(p) /\ FewCalls(u)
    BY <1>3, <1>5 DEF FewCalls
  <1>7. PICK t : t = Append(u, Event("model_delta", l.stage))
    OBVIOUS
  <1>8. FewCalls(t)
    <2>1. PICK e : e = Event("model_delta", l.stage)
      OBVIOUS
    <2>2. e \in Calls
      BY <2>1, RetryCall DEF StageKinds, ModelKinds
    <2>3. t \in Seq(Calls) /\ Len(t) = Len(u) + 1
      BY <1>3, <1>7, <2>1, <2>2, OneMoreCall
    <2>. QED BY <1>3, <2>3 DEF FewCalls
  <1>9. CASE answer.class \in {"final", "tool"}
    <2>1. Ask(l, answer).calls = p
      BY <1>2, <1>4, <1>9 DEF Ask, Step
    <2>. QED BY <1>5, <2>1 DEF AreCalls
  <1>10. CASE answer.class = "invalid"
    <2>1. Ask(l, answer) = Retry(l, p)
      BY <1>2, <1>4, <1>10 DEF Ask
    <2>. QED BY <1>6, <2>1, RetryFits
  <1>11. CASE answer.class = "silent"
    <2>1. Ask(l, answer) = Retry(l, t)
      BY <1>2, <1>7, <1>11 DEF Ask
    <2>. QED BY <1>8, <2>1, RetryFits
  <1>12. CASE answer.class = "error"
    <2>1. Ask(l, answer) = Failing(l, u)
      BY <1>2, <1>12 DEF Ask
    <2>. QED BY <1>6, <2>1, RetryFits
  <1>. QED BY <1>1, <1>9, <1>10, <1>11, <1>12

\* Those of a gate fit.
LEMMA GateFits ==
  ASSUME NEW l, l.stage \in Stages, NEW answer \in Verdicts
  PROVE  AreCalls(Gate(l, answer).calls)
  <1>1. PICK denied \in BOOLEAN : denied = (answer # "allowed")
    OBVIOUS
  <1>2. PICK a : a = [Event("policy_checked", l.stage) EXCEPT !.denied = denied]
    OBVIOUS
  <1>3. PICK b : b = Hook("policy_evaluation", IF denied THEN "denied" ELSE "allowed")
    OBVIOUS
  <1>4. a \in Calls
    <2>1. PICK e : e = Event("policy_checked", l.stage)
      OBVIOUS
    <2>2. e \in Calls
      BY <2>1, RetryCall DEF StageKinds
    <2>. QED BY <1>2, <2>1, <2>2, CallDenied
  <1>5. b \in Calls
    BY <1>3, HookCall DEF CallNames, Bodies
  <1>6. PICK p : p = <<a, b>>
    OBVIOUS
  <1>7. p \in Seq(Calls) /\ Len(p) = 2
    BY <1>4, <1>5, <1>6
  <1>8. p = <<[Event("policy_checked", l.stage) EXCEPT !.denied = (answer # "allowed")],
              Hook("policy_evaluation", IF answer # "allowed" THEN "denied" ELSE "allowed")>>
    BY <1>1, <1>2, <1>3, <1>6
  <1>9. PICK t : t = Append(p, Event("policy_denied", l.stage))
    OBVIOUS
  <1>10. FewCalls(t) /\ FewCalls(p)
    <2>1. PICK e : e = Event("policy_denied", l.stage)
      OBVIOUS
    <2>2. e \in Calls
      BY <2>1, RetryCall DEF StageKinds
    <2>3. t \in Seq(Calls) /\ Len(t) = Len(p) + 1
      BY <1>7, <1>9, <2>1, <2>2, OneMoreCall
    <2>. QED BY <1>7, <2>3 DEF FewCalls
  <1>11. CASE answer = "allowed"
    <2>1. Gate(l, answer).calls = p
      BY <1>8, <1>11 DEF Gate, Step
    <2>. QED BY <1>7, <2>1 DEF AreCalls
  <1>12. CASE answer = "denied"
    <2>1. Gate(l, answer) = ToolFails(l, t)
      BY <1>8, <1>9, <1>12 DEF Gate
    <2>. QED BY <1>10, <2>1, RetryFits
  <1>13. CASE answer = "unavailable"
    <2>1. Gate(l, answer) = Failing(l, p)
      BY <1>8, <1>13 DEF Gate
    <2>. QED BY <1>10, <2>1, RetryFits
  <1>. QED BY <1>11, <1>12, <1>13 DEF Verdicts

\* Those of a tool call fit.
LEMMA CallFits ==
  ASSUME NEW l, l.stage \in Stages, NEW result \in Results(l.stage), NEW content \in Contents
  PROVE  AreCalls(CallTool(l, result, content).calls)
  <1>1. result.to \in MaybeStage /\ result.class \in {"ok", "error"}
    BY ScriptAssumption DEF Results, MaybeStage
  <1>2. PICK a : a = Hook("tool_call", None)
    OBVIOUS
  <1>3. PICK e : e = Event("tool_call_started", l.stage)
    OBVIOUS
  <1>4. PICK b : b = [e EXCEPT !.content = content]
    OBVIOUS
  <1>5. a \in Calls /\ b \in Calls
    <2>1. e \in Calls
      BY <1>3, RetryCall DEF StageKinds, ToolKinds
    <2>. QED BY <1>2, <1>4, <2>1, CallHolding, HookCall DEF CallNames, Bodies
  <1>6. CASE result.class = "ok"
    <2>1. PICK h : h = Hook("tool_result", "ok")
      OBVIOUS
    <2>2. PICK x : x = [h EXCEPT !.to = result.to]
      OBVIOUS
    <2>3. PICK y : y = Event("tool_call_completed", l.stage)
      OBVIOUS
    <2>4. x \in Calls /\ y \in Calls
      <3>1. h \in Calls
        BY <2>1, HookCall DEF CallNames, Bodies
      <3>2. y \in Calls
        BY <2>3, RetryCall DEF StageKinds, ToolKinds
      <3>. QED BY <1>1, <2>2, <3>1, <3>2, CallTo
    <2>5. PICK s : s = <<a, b>> \o <<x, y>>
      OBVIOUS
    <2>6. CallTool(l, result, content).calls = s
      BY <1>2, <1>3, <1>4, <1>6, <2>1, <2>2, <2>3, <2>5 DEF CallTool, Step
    <2>7. s \in Seq(Calls) /\ Len(s) = 4
      BY <1>5, <2>4, <2>5, FourCalls
    <2>. QED BY <2>6, <2>7 DEF AreCalls
  <1>7. CASE result.class = "error"
    <2>1. PICK x : x = Hook("tool_error", "error")
      OBVIOUS
    <2>2. PICK y : y = Event("tool_call_failed", l.stage)
      OBVIOUS
    <2>3. x \in Calls /\ y \in Calls
      <3>1. y \in Calls
        BY <2>2, RetryCall DEF StageKinds, ToolKinds
      <3>. QED BY <2>1, <3>1, HookCall DEF CallNames, Bodies
    <2>4. PICK s : s = <<a, b>> \o <<x, y>>
      OBVIOUS
    <2>5. CallTool(l, result, content) = ToolFails(l, s)
      BY <1>2, <1>3, <1>4, <1>7, <2>1, <2>2, <2>4 DEF CallTool
    <2>6. s \in Seq(Calls) /\ Len(s) = 4
      BY <1>5, <2>3, <2>4, FourCalls
    <2>. QED BY <2>5, <2>6, RetryFits DEF FewCalls
  <1>. QED BY <1>1, <1>6, <1>7

\* Those of the start of a visit fit.
LEMMA StartFits ==
  ASSUME NEW l, l.stage \in Stages
  PROVE  AreCalls(StartStage(l).calls)
  <1>1. PICK h : h = Hook("stage_visit", None)
    OBVIOUS
  <1>2. PICK a : a = [h EXCEPT !.stage = l.stage]
    OBVIOUS
  <1>3. PICK b : b = Event("stage_started", l.stage)
    OBVIOUS
  <1>4. a \in Calls /\ b \in Calls
    <2>1. h \in Calls
      BY <1>1, HookCall DEF CallNames, Bodies
    <2>2. b \in Calls
      BY <1>3, RetryCall DEF StageKinds
    <2>. QED BY <1>2, <2>1, <2>2, CallIn DEF MaybeStage
  <1>5. StartStage(l).calls = <<a, b>>
    BY <1>1, <1>2, <1>3 DEF StartStage, Step
  <1>. QED BY <1>4, <1>5 DEF AreCalls

\* Those of its end fit.
LEMMA CompleteFits ==
  ASSUME NEW l, LiveInv(l), l.at = "done"
  PROVE  AreCalls(CompleteStage(l).calls)
  <1>0. l.stage \in Stages /\ l.out \in MaybeStage
    BY DEF LiveInv, Runs
  <1>1. PICK e : e = Event("stage_completed", l.stage)
    OBVIOUS
  <1>2. PICK a : a = [e EXCEPT !.to = l.out]
    OBVIOUS
  <1>3. a \in Calls
    <2>1. e \in Calls
      BY <1>0, <1>1, RetryCall DEF StageKinds
    <2>. QED BY <1>0, <1>2, <2>1, CallTo
  <1>4. CASE l.stage \in Exits
    <2>1. PICK b : b = Event("run_completed", None)
      OBVIOUS
    <2>2. b \in Calls
      BY <2>1, EventCall DEF Kinds, MaybeStage
    <2>3. CompleteStage(l).calls = <<a, b>>
      BY <1>1, <1>2, <1>4, <2>1 DEF CompleteStage, Step
    <2>. QED BY <1>3, <2>2, <2>3 DEF AreCalls
  <1>5. CASE l.stage \notin Exits
    <2>1. PICK b : b = Hook("transition_evaluation", None)
      OBVIOUS
    <2>2. PICK f : f = Event("transition_selected", l.stage)
      OBVIOUS
    <2>3. PICK g : g = [f EXCEPT !.to = l.out]
      OBVIOUS
    <2>4. b \in Calls /\ g \in Calls
      <3>1. f \in Calls
        BY <1>0, <2>2, RetryCall DEF StageKinds
      <3>. QED BY <1>0, <2>1, <2>3, <3>1, CallTo, HookCall DEF CallNames, Bodies
    <2>5. CompleteStage(l).calls = <<a, b, g>>
      BY <1>1, <1>2, <1>5, <2>1, <2>2, <2>3 DEF CompleteStage, Step
    <2>. QED BY <1>3, <2>4, <2>5 DEF AreCalls
  <1>. QED BY <1>4, <1>5

\* Those of the end of a failed run fit.
LEMMA FailFits ==
  ASSUME NEW l, NEW aborted \in BOOLEAN
  PROVE  AreCalls(Fail(l, aborted).calls)
  <1>1. CASE aborted
    <2>1. Fail(l, aborted).calls = <<>>
      BY <1>1 DEF Fail, Step
    <2>. QED BY <2>1 DEF AreCalls
  <1>2. CASE ~aborted
    <2>1. PICK a : a = Hook("run_error", None)
      OBVIOUS
    <2>2. PICK b : b = Event("run_failed", None)
      OBVIOUS
    <2>3. a \in Calls /\ b \in Calls
      <3>1. "run_failed" \in Kinds /\ None \in MaybeStage
        BY DEF Kinds, MaybeStage
      <3>2. b \in Calls
        BY <2>2, <3>1, EventCall
      <3>. QED BY <2>1, <3>2, HookCall DEF CallNames, Bodies
    <2>4. Fail(l, aborted).calls = <<a, b>>
      BY <1>2, <2>1, <2>2 DEF Fail, Step
    <2>. QED BY <2>3, <2>4 DEF AreCalls
  <1>. QED BY <1>1, <1>2

-----------------------------------------------------------------------------
(* The recording of a run *)

\* A recorder before its run.
Unbegun(r) == \E config \in Config : r = New(config)

\* The run l and its recorder r: the books are kept, and as long as every attempt was
\* answered, the views it went through are known.
Recorded(l, r) ==
  /\ BookInv(l, r)
  /\ l.at = "off" => Unbegun(r)
  /\ l.at # "off" /\ Fine(l, r) => \E H : History(H, View(l, r))

\* Its books are empty.
LEMMA UnbegunBooks ==
  ASSUME NEW l, l.at = "off", NEW r, Unbegun(r)
  PROVE  BookInv(l, r) /\ r.vault = <<>> /\ r.events = <<>> /\ r.visits = 0
  <1>1. PICK config \in Config : r = New(config)
    BY DEF Unbegun
  <1>2. /\ DOMAIN r = RecorderFields /\ r.exceeded = FALSE /\ r.live = 0 /\ r.visits = 0 /\ r.current = 0
        /\ r.events = <<>> /\ r.vault = <<>> /\ r.pendingTransitions = <<>>
    BY <1>1 DEF New, RecorderFields
  <1>3. \A id : At(<<>>, id) = <<>>
    BY DEF At
  <1>4. Loose(r)
    <2>1. \A v : IsList(At(r.pendingTransitions, v))
      BY <1>2, <1>3, EmptyList
    <2>2. IsList(r.events) /\ IsList(r.vault)
      BY <1>2, EmptyList
    <2>3. r.exceeded \in BOOLEAN /\ r.live \in Nat /\ r.visits \in Nat
      <3>1. r.exceeded = FALSE /\ r.live = 0 /\ r.visits = 0
        BY <1>2
      <3>2. 0 \in Nat /\ FALSE \in BOOLEAN
        OBVIOUS
      <3>. QED BY ONLY <3>1, <3>2, Zenon
    <2>4. DOMAIN r = RecorderFields
      BY <1>2
    <2>. QED BY <2>1, <2>2, <2>3, <2>4 DEF Loose
  <1>5. Numbered(r.events) = {}
    BY <1>2, EmptyList DEF Numbered
  <1>6. Counted(r)
    <2>1. IsFiniteSet(Numbered(r.events)) /\ Cardinality(Numbered(r.events)) = 0
      BY <1>5, FS_EmptySet
    <2>2. 0 \in 0..r.live
      BY <1>2
    <2>. QED BY <1>5, <2>1, <2>2 DEF Counted
  <1>7. \A type : OfType(r.vault, type) = {}
    BY <1>2, EmptyList DEF OfType
  <1>8. Fresh(l, r)
    BY <1>7 DEF Fresh, Inside
  <1>9. Cardinality(Responses(r)) <= Cardinality(Requests(r))
    BY <1>7, FS_EmptySet DEF Responses, Requests
  <1>. QED BY <1>2, <1>4, <1>6, <1>8, <1>9 DEF BookInv

\* The first step of a run.
LEMMA BeginRecords ==
  ASSUME NEW l, l.at = "off", NEW r, Unbegun(r),
         NEW m, m = BeginRun.run, NEW c, c = BeginRun.calls, NEW q, q = After(r, c)
  PROVE  Recorded(m, q)
  <1>1. PICK a : a = Hook("begin_run", None)
    OBVIOUS
  <1>2. PICK b : b = Hook("run_inputs", None)
    OBVIOUS
  <1>3. PICK e : e = Event("run_started", None)
    OBVIOUS
  <1>4. a \in Calls /\ a.call = "begin_run" /\ b \in Calls /\ b.call = "run_inputs" /\ a.kind = None /\ b.kind = None
    <2>1. a.kind = None /\ b.kind = None
      BY <1>1, <1>2 DEF Hook, Blank
    <2>. QED BY <1>1, <1>2, <2>1, HookCall DEF CallNames, Bodies
  <1>5. e \in Calls /\ e.call = "event" /\ e.kind = "run_started"
    BY <1>3, EventCall DEF Kinds, MaybeStage
  <1>6. c = <<a, b, e>> /\ m = [at |-> "next", stage |-> Entry, retries |-> 0, out |-> None]
    BY <1>1, <1>2, <1>3 DEF BeginRun, Step
  <1>7. c \in Seq(Calls) /\ Len(c) = 3 /\ c[1] = a /\ c[2] = b /\ c[3] = e
    BY <1>4, <1>5, <1>6
  <1>8. m.at = "next" /\ m.stage = Entry /\ Entry \in Stages
    BY <1>6, ScriptAssumption
  <1>9. BookInv(l, r) /\ r.vault = <<>> /\ r.events = <<>> /\ r.visits = 0
    BY UnbegunBooks
  <1>10. StepBooks(r, q) /\ \E s : Booked(s, r, c, q)
    <2>1. Len(c) \in 0..5
      BY <1>7
    <2>. QED BY <1>7, <1>9, <2>1, StepChain DEF BookInv
  <1>11. PICK s : Booked(s, r, c, q)
    BY <1>10
  <1>12. SUFFICES ASSUME Going(m, q)
                  PROVE  /\ Fresh(m, q) /\ Cardinality(Responses(q)) <= Cardinality(Requests(q))
                         /\ \E H : History(H, View(m, q))
    BY <1>8, <1>10 DEF Recorded, BookInv, StepBooks, Fine
  <1>13. Kept(q) /\ Complete(r)
    BY <1>10, <1>12 DEF Going, StepBooks, Complete, VaultEnabled
  <1>14. Loose(r) /\ Loose(q) /\ IsList(c) /\ Len(c) \in Nat
    BY <1>7, <1>9, <1>10 DEF BookInv, StepBooks, IsList
  <1>15. \A k \in 1..Len(c) : k = 1 \/ k = 2 \/ k = 3
    BY <1>7
  <1>16. \A types \in SUBSET Filing : NoneOf(types, c)
    BY <1>4, <1>5, <1>7, <1>15 DEF NoneOf, FiledAs, Filing, None
  <1>17. \A types \in SUBSET Filing : AddsNone(types, r.vault, q.vault)
    BY <1>11, <1>13, <1>14, <1>16, StepAddsNone
  <1>18. \A type \in Filing : OfType(q.vault, type) = {}
    BY <1>9, <1>17, EmptyList DEF AddsNone, OfType
  <1>19. Fresh(m, q)
    BY <1>8, <1>18 DEF Fresh, Inside, Filing
  <1>20. Cardinality(Responses(q)) <= Cardinality(Requests(q))
    BY <1>18, FS_EmptySet DEF Filing, Responses, Requests
  <1>21. PathOf(<<>>, r) /\ Snapshots(r.vault) = {} /\ Snapshots(q.vault) = {}
    <2>1. HasStarted(<<>>, 0)
      BY EmptyList, FS_EmptySet DEF HasStarted, Started
    <2>2. Snapshots(r.vault) = {}
      BY <1>9, EmptyList DEF Snapshots, ToSet
    <2>3. SnapshotTypes \in SUBSET Filing
      BY DEF SnapshotTypes, Filing
    <2>4. Snapshots(q.vault) = {}
      BY <1>17, <2>2, <2>3, NoSnapshot
    <2>. QED BY <1>9, <2>1, <2>2, <2>4, EmptyList DEF PathOf
  <1>22. PathOf(<<>> \o EventsOf(c), q)
    <2>1. \A k \in 1..Len(c) : Stays(c[k]) /\ c[k].kind # "stage_started"
      BY <1>4, <1>5, <1>7, <1>15 DEF Stays, None
    <2>. QED BY <1>11, <1>13, <1>14, <1>21, <2>1, MirrorsItself, PathStays
  <1>23. PICK z : z = View(m, q)
    OBVIOUS
  <1>24. /\ z.run = m /\ z.vault = q.vault /\ z.events = q.events /\ z.visits = q.visits
    BY <1>23 DEF View
  <1>25. Opened(z)
    <2>1. \A i \in DOMAIN q.vault : q.vault[i].type \notin TapeTypes
      <3>1. TapeTypes \subseteq Filing
        BY DEF TapeTypes, Filing
      <3>. QED BY <1>18, <3>1 DEF OfType
    <2>2. Repeats(<<>> \o EventsOf(BeginRun.calls), z)
      BY <1>21, <1>22, <1>24 DEF Repeats, PathOf
    <2>. QED BY <1>24, <2>1, <2>2 DEF Opened
  <1>26. Behind(z, z)
    BY <1>8, <1>14, <1>24 DEF Behind, Wanted, Extends, Loose, Inside
  <1>27. History({z}, z)
    BY <1>25, <1>26 DEF History
  <1>. QED BY <1>19, <1>20, <1>23, <1>27

\* Every further step.
LEMMA StepRecords ==
  ASSUME NEW l, NEW r, Recorded(l, r), l.at # "off", NEW c, AreCalls(c), NEW m, m.at # "off",
         NEW q, q = After(r, c), Going(m, q) => Moves(l, r, m, q)
  PROVE  Recorded(m, q)
  <1>1. StepBooks(r, q)
    BY StepChain DEF AreCalls, Recorded, BookInv
  <1>2. BookInv(m, q) /\ (Fine(m, q) => Fine(l, r) /\ Even(r, q))
    BY <1>1, MoveBooks DEF Recorded
  <1>3. ASSUME Fine(m, q) PROVE \E H : History(H, View(m, q))
    <2>1. Fine(l, r) /\ Even(r, q) /\ Going(m, q) /\ Going(l, r) /\ Moves(l, r, m, q)
      BY <1>2, <1>3 DEF Fine
    <2>2. PICK H : History(H, View(l, r))
      BY <2>1 DEF Recorded
    <2>. QED BY <1>1, <1>2, <2>1, <2>2, HistoryGrows DEF Recorded
  <1>. QED BY <1>2, <1>3 DEF Recorded

\* A run that began never goes back.
LEMMA FailingOnward == \A l \in Runs : \A c : Failing(l, c).run.at # "off"
  BY DEF Failing, Step, Runs

\* A run that has begun never has not: after a retry,
LEMMA RetryOnward ==
  ASSUME NEW l \in Runs, NEW c
  PROVE  Retry(l, c).run.at # "off" /\ ToolFails(l, c).run.at # "off"
  <1>1. Failing(l, c).run.at # "off"
    BY FailingOnward
  <1>2. CASE l.retries < MaxRetries
    <2>1. Retry(l, c).run = [l EXCEPT !.at = "ask", !.retries = @ + 1]
      BY <1>2 DEF Retry, Step
    <2>2. Retry(l, c).run.at = "ask"
      BY <2>1, RetriedRun
    <2>3. ToolFails(l, c).run.at # "off"
      BY <1>1 DEF ToolFails, Step, Runs
    <2>. QED BY <2>2, <2>3
  <1>3. CASE ~(l.retries < MaxRetries)
    <2>1. ToolFails(l, c).run.at # "off"
      BY <1>1 DEF ToolFails, Step, Runs
    <2>. QED BY <1>1, <1>3, <2>1 DEF Retry
  <1>. QED BY <1>2, <1>3

\* after an attempt,
LEMMA AskOnward ==
  ASSUME NEW l \in Runs, NEW answer \in Answers(l.stage)
  PROVE  Ask(l, answer).run.at # "off"
  <1>1. answer.class \in {"final", "invalid", "tool", "silent", "error"}
    BY DEF Answers
  <1>2. CASE answer.class = "final"
    <2>1. Ask(l, answer).run = [l EXCEPT !.at = "done", !.out = answer.to]
      BY <1>2 DEF Ask, Step
    <2>. QED BY <2>1 DEF Runs
  <1>3. CASE answer.class = "tool"
    <2>1. Ask(l, answer).run = [l EXCEPT !.at = "gate"]
      BY <1>3 DEF Ask, Step
    <2>. QED BY <2>1 DEF Runs
  <1>4. CASE answer.class \in {"invalid", "silent"}
    <2>1. \E c : Ask(l, answer) = Retry(l, c)
      BY <1>4 DEF Ask
    <2>. QED BY <2>1, RetryOnward
  <1>5. CASE answer.class = "error"
    <2>1. \E c : Ask(l, answer) = Failing(l, c)
      BY <1>5 DEF Ask
    <2>. QED BY <2>1, FailingOnward
  <1>. QED BY <1>1, <1>2, <1>3, <1>4, <1>5

\* at a gate,
LEMMA GateOnward ==
  ASSUME NEW l \in Runs, NEW answer \in Verdicts
  PROVE  Gate(l, answer).run.at # "off"
  <1>1. CASE answer = "allowed"
    <2>1. Gate(l, answer).run = [l EXCEPT !.at = "call"]
      BY <1>1 DEF Gate, Step
    <2>. QED BY <2>1 DEF Runs
  <1>2. CASE answer = "denied"
    <2>1. \E c : Gate(l, answer) = ToolFails(l, c)
      BY <1>2 DEF Gate
    <2>. QED BY <2>1, RetryOnward
  <1>3. CASE answer = "unavailable"
    <2>1. \E c : Gate(l, answer) = Failing(l, c)
      BY <1>3 DEF Gate
    <2>. QED BY <2>1, FailingOnward
  <1>. QED BY <1>1, <1>2, <1>3 DEF Verdicts

\* after a tool call,
LEMMA CallOnward ==
  ASSUME NEW l \in Runs, NEW result, NEW content
  PROVE  CallTool(l, result, content).run.at # "off"
  <1>1. CASE result.class = "ok"
    <2>1. CallTool(l, result, content).run
            = [l EXCEPT !.at = IF l.stage \in ModelStages THEN "ask" ELSE "done", !.out = result.to]
      BY <1>1 DEF CallTool, Step
    <2>. QED BY <2>1 DEF Runs
  <1>2. CASE result.class # "ok"
    <2>1. \E c : CallTool(l, result, content) = ToolFails(l, c)
      BY <1>2 DEF CallTool
    <2>. QED BY <2>1, RetryOnward
  <1>. QED BY <1>1, <1>2

\* and where a visit begins or ends.
LEMMA StartOnward ==
  ASSUME NEW l \in Runs
  PROVE  StartStage(l).run.at # "off" /\ CompleteStage(l).run.at # "off"
  <1>1. StartStage(l).run = [l EXCEPT !.at = IF l.stage \in ModelStages THEN "ask" ELSE "gate", !.retries = 0]
    BY DEF StartStage, Step
  <1>2. CompleteStage(l).run = [l EXCEPT !.at = "complete"] \/ CompleteStage(l).run = [l EXCEPT !.at = "next", !.stage = l.out]
    BY DEF CompleteStage, Step
  <1>. QED BY <1>1, <1>2 DEF Runs

\* A failed run does not go on.
LEMMA FailLost ==
  ASSUME NEW l \in Runs, NEW aborted \in BOOLEAN, NEW q
  PROVE  Fail(l, aborted).run.at # "off" /\ ~Going(Fail(l, aborted).run, q)
  <1>1. Fail(l, aborted).run = [l EXCEPT !.at = "interrupted"] \/ Fail(l, aborted).run = [l EXCEPT !.at = "failed"]
    BY DEF Fail, Step
  <1>. QED BY <1>1 DEF Runs, Going, Lost

\* Finishing changes a flag.
LEMMA FinishRecords ==
  ASSUME NEW l, l.at # "off", NEW r, Recorded(l, r), NEW s, s = [r EXCEPT !.finished = TRUE]
  PROVE  Recorded(l, s)
  <1>1. Loose(r)
    BY DEF Recorded, BookInv
  <1>2. Changes(r, s, {"finished"})
    BY <1>1 DEF Changes, Loose, RecorderFields
  <1>3. /\ s.config = r.config /\ s.exceeded = r.exceeded /\ s.events = r.events /\ s.vault = r.vault
        /\ s.live = r.live /\ s.visits = r.visits /\ s.current = r.current
        /\ s.pendingTransitions = r.pendingTransitions
    BY <1>2 DEF Changes, RecorderFields
  <1>4. Loose(s)
    BY <1>1, <1>2, <1>3 DEF Loose, Changes
  <1>5. Counted(s) <=> Counted(r)
    BY <1>3 DEF Counted
  <1>6. (Going(l, s) <=> Going(l, r)) /\ Requests(s) = Requests(r) /\ Responses(s) = Responses(r) /\ View(l, s) = View(l, r)
    BY <1>3 DEF Going, Kept, Complete, VaultEnabled, Requests, Responses, View
  <1>7. Fresh(l, r) <=> Fresh(l, s)
    BY <1>3 DEF Fresh
  <1>. QED BY <1>4, <1>5, <1>6, <1>7 DEF Recorded, BookInv, Fine

\* What is recorded of the run under way.
RecordingInv == Recorded(live, rec)

\* The recorder of a run that has not begun is new.
LEMMA RecordingInit == MCInit => RecordingInv
  <1>. SUFFICES ASSUME MCInit PROVE RecordingInv
    OBVIOUS
  <1>1. Unbegun(rec)
    BY LedgerAssumption DEF MCInit, Init, Unbegun
  <1>2. live.at = "off"
    BY DEF MCInit
  <1>. QED BY <1>1, <1>2, UnbegunBooks DEF RecordingInv, Recorded

\* Every step of the run is recorded, and no other touches the recorder but to finish it.
LEMMA RecordingNext == RunInv /\ RecordingInv /\ [MCNext]_mcVars => RecordingInv'
  <1>. SUFFICES ASSUME RunInv, RecordingInv, [MCNext]_mcVars PROVE RecordingInv'
    OBVIOUS
  <1>0. LiveInv(live) /\ InStep(live, rec) /\ live \in Runs /\ live.stage \in Stages /\ Recorded(live, rec) /\ BookInv(live, rec)
    BY DEF RunInv, InStep, LiveInv, Runs, RecordingInv, Recorded
  <1>1. ASSUME NEW step, Advance(step), live.at # "off", AreCalls(step.calls), step.run.at # "off",
               Going(step.run, After(rec, step.calls)) => Moves(live, rec, step.run, After(rec, step.calls))
        PROVE  RecordingInv'
    <2>1. Recorded(step.run, After(rec, step.calls))
      BY <1>0, <1>1, StepRecords
    <2>. QED BY <1>1, <2>1 DEF Advance, Record, RecordingInv
  <1>2. CASE UNCHANGED <<rec, live>>
    BY <1>2 DEF RecordingInv
  <1>3. CASE RunBegins
    <2>1. live.at = "off" /\ Unbegun(rec)
      BY <1>0, <1>3 DEF RunBegins, Recorded
    <2>2. Recorded(BeginRun.run, After(rec, BeginRun.calls))
      BY <2>1, BeginRecords
    <2>. QED BY <1>3, <2>2 DEF RunBegins, Advance, Record, RecordingInv
  <1>4. CASE RunVisits
    <2>1. live.at = "next" /\ Advance(StartStage(live))
      BY <1>4 DEF RunVisits
    <2>2. Going(StartStage(live).run, After(rec, StartStage(live).calls)) =>
            Moves(live, rec, StartStage(live).run, After(rec, StartStage(live).calls))
      BY <1>0, <2>1, StartMoves
    <2>. QED BY <1>0, <1>1, <2>1, <2>2, StartFits, StartOnward
  <1>5. CASE RunAsks
    <2>1. PICK answer \in Answers(live.stage) : live.at = "ask" /\ Advance(Ask(live, answer))
      BY <1>5 DEF RunAsks
    <2>2. Going(Ask(live, answer).run, After(rec, Ask(live, answer).calls)) =>
            Moves(live, rec, Ask(live, answer).run, After(rec, Ask(live, answer).calls))
      BY <1>0, <2>1, AskMoves
    <2>. QED BY <1>0, <1>1, <2>1, <2>2, AskFits, AskOnward
  <1>6. CASE RunIsGated
    <2>1. PICK v \in Verdicts : live.at = "gate" /\ Advance(Gate(live, v))
      BY <1>6 DEF RunIsGated
    <2>2. Going(Gate(live, v).run, After(rec, Gate(live, v).calls)) =>
            Moves(live, rec, Gate(live, v).run, After(rec, Gate(live, v).calls))
      BY <1>0, <2>1, GateMoves
    <2>. QED BY <1>0, <1>1, <2>1, <2>2, GateFits, GateOnward
  <1>7. CASE RunCalls
    <2>1. PICK result \in Results(live.stage), content \in Contents :
            live.at = "call" /\ Advance(CallTool(live, result, content))
      BY <1>7 DEF RunCalls
    <2>2. Going(CallTool(live, result, content).run, After(rec, CallTool(live, result, content).calls)) =>
            Moves(live, rec, CallTool(live, result, content).run, After(rec, CallTool(live, result, content).calls))
      BY <1>0, <2>1, CallMoves
    <2>. QED BY <1>0, <1>1, <2>1, <2>2, CallFits, CallOnward
  <1>8. CASE RunLeavesStage
    <2>1. live.at = "done" /\ Advance(CompleteStage(live))
      BY <1>8 DEF RunLeavesStage
    <2>2. Going(CompleteStage(live).run, After(rec, CompleteStage(live).calls)) =>
            Moves(live, rec, CompleteStage(live).run, After(rec, CompleteStage(live).calls))
      BY <1>0, <2>1, CompleteMoves
    <2>. QED BY <1>0, <1>1, <2>1, <2>2, CompleteFits, StartOnward
  <1>9. CASE RunFails
    <2>1. PICK aborted \in BOOLEAN : live.at = "failing" /\ Advance(Fail(live, aborted))
      BY <1>9 DEF RunFails
    <2>. QED BY <1>0, <1>1, <2>1, FailFits, FailLost
  <1>10. CASE RunAborted
    <2>1. live.at = "next" /\ Advance(Fail(live, TRUE))
      BY <1>10 DEF RunAborted
    <2>. QED BY <1>0, <1>1, <2>1, FailFits, FailLost
  <1>11. CASE RunFinishes
    <2>1. live' = live /\ (rec' = rec \/ rec' = [rec EXCEPT !.finished = TRUE]) /\ live.at # "off"
      BY <1>11 DEF RunFinishes, FinishRun, Ended
    <2>2. CASE rec' = rec
      BY <2>1, <2>2, <1>2
    <2>3. CASE rec' = [rec EXCEPT !.finished = TRUE]
      <3>1. Recorded(live, rec')
        BY <1>0, <2>1, <2>3, FinishRecords
      <3>. QED BY <2>1, <3>1 DEF RecordingInv
    <2>. QED BY <2>1, <2>2, <2>3
  <1>12. CASE Rewrite \/ Replays \/ Publishes
    BY <1>2, <1>12 DEF Rewrite, Replays, Publishes
  <1>13. CASE UNCHANGED mcVars
    BY <1>2, <1>13 DEF mcVars, vars
  <1>. QED BY <1>3, <1>4, <1>5, <1>6, <1>7, <1>8, <1>9, <1>10, <1>11, <1>12, <1>13 DEF MCNext

-----------------------------------------------------------------------------
(* The tape during a replay *)

\* What is left of the tape V when the records of the view x are taken.
TapeAt(V, x) ==
  [models |-> [s \in Stages |-> Pick(V, ResponsesIn(V, s) \ DOMAIN x.vault)],
   tools |-> Pick(V, OfType(V, "tool_result") \ DOMAIN x.vault),
   policies |-> Pick(V, OfType(V, "policy_evaluation") \ DOMAIN x.vault),
   named |-> \E i \in OfType(V, "tool_result") : V[i].named]

\* A queue of the tape V is led by its record at j, or does not hold it.
QueuesMove(V, u, w, v, j) ==
  /\ V[j] = v
  /\ \A type \in TapeTypes : \A K \in SUBSET OfType(V, type) :
       /\ j \in K => IsLed(Pick(V, K \ DOMAIN u), v, Pick(V, K \ DOMAIN w))
       /\ j \notin K => Pick(V, K \ DOMAIN u) = Pick(V, K \ DOMAIN w)

\* Where one record is filed, a queue of a type is led by it, or does not hold it.
LEMMA QueueMoves ==
  ASSUME NEW V, IsList(V), NEW u, NEW w, NEW v, AddsOnly(TapeTypes, u, w, v), Extends(w, V)
  PROVE  \E j \in DOMAIN V : QueuesMove(V, u, w, v, j)
  <1>1. PICK j \in DOMAIN w \ DOMAIN u : w[j] = v /\ \A i \in DOMAIN w \ DOMAIN u : w[i].type \in TapeTypes => i = j
    BY DEF AddsOnly
  <1>2. /\ IsList(w) /\ DOMAIN u \subseteq DOMAIN w /\ DOMAIN w \subseteq DOMAIN V
        /\ \A i \in DOMAIN w : V[i] = w[i]
    BY DEF AddsOnly, Extends
  <1>3. j \in DOMAIN V /\ V[j] = v
    BY <1>1, <1>2
  <1>4. ASSUME NEW type \in TapeTypes, NEW K \in SUBSET OfType(V, type)
        PROVE  /\ j \in K => IsLed(Pick(V, K \ DOMAIN u), v, Pick(V, K \ DOMAIN w))
               /\ j \notin K => Pick(V, K \ DOMAIN u) = Pick(V, K \ DOMAIN w)
    <2>1. \A i \in K : i \in DOMAIN V /\ V[i].type \in TapeTypes
      BY DEF OfType
    <2>2. \A i \in K : i \in DOMAIN w /\ i \notin DOMAIN u => i = j
      BY <1>1, <1>2, <2>1
    <2>3. (K \ DOMAIN u) \ {j} = K \ DOMAIN w
      BY <1>1, <1>2, <2>2
    <2>4. ASSUME j \in K PROVE IsLed(Pick(V, K \ DOMAIN u), v, Pick(V, K \ DOMAIN w))
      <3>1. j \in (K \ DOMAIN u) \cap DOMAIN V
        BY <1>1, <1>3, <2>4
      <3>2. Len(w) \in Nat /\ DOMAIN w = 1..Len(w) /\ Len(V) \in Nat /\ DOMAIN V = 1..Len(V)
        BY <1>2, ListPlaces
      <3>3. ASSUME NEW i \in (K \ DOMAIN u) \cap DOMAIN V, i < j PROVE FALSE
        <4>1. i \in DOMAIN w
          BY <1>1, <3>2, <3>3
        <4>2. i = j
          BY <2>2, <3>3, <4>1
        <4>. QED BY <3>2, <3>3, <4>2
      <3>4. IsLed(Pick(V, K \ DOMAIN u), V[j], Pick(V, (K \ DOMAIN u) \ {j}))
        BY <3>1, <3>3, PickFirst
      <3>. QED BY <1>3, <2>3, <3>4
    <2>5. ASSUME j \notin K PROVE Pick(V, K \ DOMAIN u) = Pick(V, K \ DOMAIN w)
      <3>1. K \ DOMAIN u = K \ DOMAIN w
        BY <2>3, <2>5
      <3>. QED BY <3>1
    <2>. QED BY <2>4, <2>5
  <1>5. QueuesMove(V, u, w, v, j)
    BY <1>3, <1>4 DEF QueuesMove
  <1>. QED BY <1>3, <1>5

\* Where none is filed, no queue moves.
LEMMA QueueRests ==
  ASSUME NEW V, NEW u, NEW w, AddsNone(TapeTypes, u, w), Extends(w, V), NEW type \in TapeTypes,
         NEW K \in SUBSET OfType(V, type)
  PROVE  K \ DOMAIN u = K \ DOMAIN w
  <1>1. \A i \in DOMAIN w \ DOMAIN u : w[i].type \notin TapeTypes
    BY DEF AddsNone
  <1>2. DOMAIN u \subseteq DOMAIN w /\ \A i \in DOMAIN w : V[i] = w[i]
    BY DEF AddsNone, Extends
  <1>3. \A i \in K : V[i].type \in TapeTypes
    BY DEF OfType
  <1>. QED BY <1>1, <1>2, <1>3

\* The queues of the tape are of one type each.
LEMMA TapeQueues ==
  ASSUME NEW V
  PROVE  /\ "model_response" \in TapeTypes /\ "policy_evaluation" \in TapeTypes /\ "tool_result" \in TapeTypes
         /\ \A s : ResponsesIn(V, s) \in SUBSET OfType(V, "model_response")
  BY DEF TapeTypes, ResponsesIn

\* Nothing is taken from the tape where nothing was filed.
LEMMA TapeRests ==
  ASSUME NEW V, NEW x, NEW y, AddsNone(TapeTypes, x.vault, y.vault), Extends(y.vault, V)
  PROVE  TapeAt(V, y) = TapeAt(V, x)
  <1>1. \A type \in TapeTypes : \A K \in SUBSET OfType(V, type) : K \ DOMAIN x.vault = K \ DOMAIN y.vault
    BY QueueRests
  <1>2. \A s : ResponsesIn(V, s) \ DOMAIN x.vault = ResponsesIn(V, s) \ DOMAIN y.vault
    BY <1>1, TapeQueues
  <1>3. OfType(V, "tool_result") \ DOMAIN x.vault = OfType(V, "tool_result") \ DOMAIN y.vault
    BY <1>1, TapeQueues
  <1>4. OfType(V, "policy_evaluation") \ DOMAIN x.vault = OfType(V, "policy_evaluation") \ DOMAIN y.vault
    BY <1>1, TapeQueues
  <1>. QED BY <1>2, <1>3, <1>4 DEF TapeAt

\* The answer of a model is the next of its stage: the visit tells the stage.
LEMMA ModelTape ==
  ASSUME NEW V, IsList(V), NEW x, NEW y, NEW v, Answer(x, y, v, "model_response"), Extends(y.vault, V),
         x.run.stage \in Stages, StagesOf(V, x.current) = {x.run.stage}
  PROVE  LET left == TapeAt(V, x).models[x.run.stage] IN
         /\ left # <<>> /\ Head(left) = v
         /\ TapeAt(V, y) = [TapeAt(V, x) EXCEPT !.models[x.run.stage] = Tail(left)]
  <1>1. v.type = "model_response" /\ v.visit = x.current /\ AddsOnly(TapeTypes, x.vault, y.vault, v)
    BY DEF Answer
  <1>2. PICK j \in DOMAIN V :
           /\ V[j] = v
           /\ \A type \in TapeTypes : \A K \in SUBSET OfType(V, type) :
                /\ j \in K => IsLed(Pick(V, K \ DOMAIN x.vault), v, Pick(V, K \ DOMAIN y.vault))
                /\ j \notin K => Pick(V, K \ DOMAIN x.vault) = Pick(V, K \ DOMAIN y.vault)
    <2>1. PICK j \in DOMAIN V : QueuesMove(V, x.vault, y.vault, v, j)
      BY <1>1, QueueMoves
    <2>. QED BY <2>1 DEF QueuesMove
  <1>3. \A s : j \in ResponsesIn(V, s) <=> s = x.run.stage
    BY <1>1, <1>2 DEF ResponsesIn, OfType
  <1>4. j \notin OfType(V, "tool_result") /\ j \notin OfType(V, "policy_evaluation")
    BY <1>1, <1>2 DEF OfType
  <1>5. PICK s \in Stages : s = x.run.stage
    OBVIOUS
  <1>6. IsLed(Pick(V, ResponsesIn(V, s) \ DOMAIN x.vault), v, Pick(V, ResponsesIn(V, s) \ DOMAIN y.vault))
    BY <1>2, <1>3, <1>5, TapeQueues
  <1>7. \A t \in Stages \ {s} : Pick(V, ResponsesIn(V, t) \ DOMAIN x.vault) = Pick(V, ResponsesIn(V, t) \ DOMAIN y.vault)
    BY <1>2, <1>3, <1>5, TapeQueues
  <1>8. /\ Pick(V, OfType(V, "tool_result") \ DOMAIN x.vault) = Pick(V, OfType(V, "tool_result") \ DOMAIN y.vault)
        /\ Pick(V, OfType(V, "policy_evaluation") \ DOMAIN x.vault)
             = Pick(V, OfType(V, "policy_evaluation") \ DOMAIN y.vault)
    BY <1>2, <1>4, TapeQueues
  <1>9. PICK m : m = [t \in Stages |-> Pick(V, ResponsesIn(V, t) \ DOMAIN x.vault)]
    OBVIOUS
  <1>10. PICK n : n = [t \in Stages |-> Pick(V, ResponsesIn(V, t) \ DOMAIN y.vault)]
    OBVIOUS
  <1>11. m[s] # <<>> /\ Head(m[s]) = v /\ Tail(m[s]) = n[s]
    BY <1>6, <1>9, <1>10 DEF IsLed
  <1>12. n = [m EXCEPT ![s] = Tail(m[s])]
    BY <1>7, <1>9, <1>10, <1>11
  <1>13. PICK a : a = TapeAt(V, x)
    OBVIOUS
  <1>14. PICK b : b = TapeAt(V, y)
    OBVIOUS
  <1>15. PICK tools, policies, named :
           /\ a = [models |-> m, tools |-> tools, policies |-> policies, named |-> named]
           /\ b = [models |-> n, tools |-> tools, policies |-> policies, named |-> named]
    BY <1>8, <1>9, <1>10, <1>13, <1>14 DEF TapeAt
  <1>16. b = [a EXCEPT !.models[s] = Tail(m[s])]
    <2>1. PICK k : k = Tail(m[s])
      OBVIOUS
    <2>2. a.models = m /\ b = [a EXCEPT !.models = n]
      BY <1>15
    <2>3. [a EXCEPT !.models[s] = k] = [a EXCEPT !.models = n]
      BY <1>12, <2>1, <2>2
    <2>. QED BY <2>1, <2>2, <2>3
  <1>17. a.models = m
    BY <1>15
  <1>. QED BY <1>5, <1>11, <1>13, <1>14, <1>16, <1>17

\* The verdict of a policy is the next of all.
LEMMA PolicyTape ==
  ASSUME NEW V, IsList(V), NEW x, NEW y, NEW v, Answer(x, y, v, "policy_evaluation"), Extends(y.vault, V)
  PROVE  LET left == TapeAt(V, x).policies IN
         /\ left # <<>> /\ Head(left) = v
         /\ TapeAt(V, y) = [TapeAt(V, x) EXCEPT !.policies = Tail(left)]
  <1>1. v.type = "policy_evaluation" /\ AddsOnly(TapeTypes, x.vault, y.vault, v)
    BY DEF Answer
  <1>2. PICK j \in DOMAIN V :
           /\ V[j] = v
           /\ \A type \in TapeTypes : \A K \in SUBSET OfType(V, type) :
                /\ j \in K => IsLed(Pick(V, K \ DOMAIN x.vault), v, Pick(V, K \ DOMAIN y.vault))
                /\ j \notin K => Pick(V, K \ DOMAIN x.vault) = Pick(V, K \ DOMAIN y.vault)
    <2>1. PICK j \in DOMAIN V : QueuesMove(V, x.vault, y.vault, v, j)
      BY <1>1, QueueMoves
    <2>. QED BY <2>1 DEF QueuesMove
  <1>3. \A s : j \notin ResponsesIn(V, s)
    BY <1>1, <1>2 DEF ResponsesIn, OfType
  <1>4. j \notin OfType(V, "tool_result") /\ j \in OfType(V, "policy_evaluation")
    BY <1>1, <1>2 DEF OfType
  <1>5. \A s \in Stages : Pick(V, ResponsesIn(V, s) \ DOMAIN x.vault) = Pick(V, ResponsesIn(V, s) \ DOMAIN y.vault)
    BY <1>2, <1>3, TapeQueues
  <1>6. Pick(V, OfType(V, "tool_result") \ DOMAIN x.vault) = Pick(V, OfType(V, "tool_result") \ DOMAIN y.vault)
    BY <1>2, <1>4, TapeQueues
  <1>7. PICK p : p = Pick(V, OfType(V, "policy_evaluation") \ DOMAIN x.vault)
    OBVIOUS
  <1>8. PICK q : q = Pick(V, OfType(V, "policy_evaluation") \ DOMAIN y.vault)
    OBVIOUS
  <1>9. IsLed(p, v, q)
    BY <1>2, <1>4, <1>7, <1>8, TapeQueues
  <1>10. p # <<>> /\ Head(p) = v /\ Tail(p) = q
    BY <1>9 DEF IsLed
  <1>11. PICK a : a = TapeAt(V, x)
    OBVIOUS
  <1>12. PICK b : b = TapeAt(V, y)
    OBVIOUS
  <1>13. PICK m, tools, named :
           /\ a = [models |-> m, tools |-> tools, policies |-> p, named |-> named]
           /\ b = [models |-> m, tools |-> tools, policies |-> q, named |-> named]
    BY <1>5, <1>6, <1>7, <1>8, <1>11, <1>12 DEF TapeAt
  <1>14. a.policies = p /\ b = [a EXCEPT !.policies = q]
    BY <1>13
  <1>. QED BY <1>10, <1>11, <1>12, <1>14

\* So is the result of a tool.
LEMMA ToolTape ==
  ASSUME NEW V, IsList(V), NEW x, NEW y, NEW v, Answer(x, y, v, "tool_result"), Extends(y.vault, V)
  PROVE  LET left == TapeAt(V, x).tools IN
         /\ left # <<>> /\ Head(left) = v
         /\ TapeAt(V, y) = [TapeAt(V, x) EXCEPT !.tools = Tail(left)]
  <1>1. v.type = "tool_result" /\ AddsOnly(TapeTypes, x.vault, y.vault, v)
    BY DEF Answer
  <1>2. PICK j \in DOMAIN V :
           /\ V[j] = v
           /\ \A type \in TapeTypes : \A K \in SUBSET OfType(V, type) :
                /\ j \in K => IsLed(Pick(V, K \ DOMAIN x.vault), v, Pick(V, K \ DOMAIN y.vault))
                /\ j \notin K => Pick(V, K \ DOMAIN x.vault) = Pick(V, K \ DOMAIN y.vault)
    <2>1. PICK j \in DOMAIN V : QueuesMove(V, x.vault, y.vault, v, j)
      BY <1>1, QueueMoves
    <2>. QED BY <2>1 DEF QueuesMove
  <1>3. \A s : j \notin ResponsesIn(V, s)
    BY <1>1, <1>2 DEF ResponsesIn, OfType
  <1>4. j \in OfType(V, "tool_result") /\ j \notin OfType(V, "policy_evaluation")
    BY <1>1, <1>2 DEF OfType
  <1>5. \A s \in Stages : Pick(V, ResponsesIn(V, s) \ DOMAIN x.vault) = Pick(V, ResponsesIn(V, s) \ DOMAIN y.vault)
    BY <1>2, <1>3, TapeQueues
  <1>6. Pick(V, OfType(V, "policy_evaluation") \ DOMAIN x.vault)
          = Pick(V, OfType(V, "policy_evaluation") \ DOMAIN y.vault)
    BY <1>2, <1>4, TapeQueues
  <1>7. PICK p : p = Pick(V, OfType(V, "tool_result") \ DOMAIN x.vault)
    OBVIOUS
  <1>8. PICK q : q = Pick(V, OfType(V, "tool_result") \ DOMAIN y.vault)
    OBVIOUS
  <1>9. IsLed(p, v, q)
    BY <1>2, <1>4, <1>7, <1>8, TapeQueues
  <1>10. p # <<>> /\ Head(p) = v /\ Tail(p) = q
    BY <1>9 DEF IsLed
  <1>11. PICK a : a = TapeAt(V, x)
    OBVIOUS
  <1>12. PICK b : b = TapeAt(V, y)
    OBVIOUS
  <1>13. PICK m, policies, named :
           /\ a = [models |-> m, tools |-> p, policies |-> policies, named |-> named]
           /\ b = [models |-> m, tools |-> q, policies |-> policies, named |-> named]
    BY <1>5, <1>6, <1>7, <1>8, <1>11, <1>12 DEF TapeAt
  <1>14. a.tools = p /\ b = [a EXCEPT !.tools = q]
    BY <1>13
  <1>. QED BY <1>10, <1>11, <1>12, <1>14

\* A replay begins with the whole tape.
LEMMA WholeTape ==
  ASSUME NEW V, NEW x, Opened(x), Extends(x.vault, V)
  PROVE  TapeAt(V, x) = Tape(V)
  <1>1. \A i \in DOMAIN x.vault : V[i].type \notin TapeTypes
    BY DEF Opened, Extends
  <1>2. \A s : ResponsesIn(V, s) \ DOMAIN x.vault = ResponsesIn(V, s)
    BY <1>1 DEF ResponsesIn, OfType, TapeTypes
  <1>3. /\ OfType(V, "tool_result") \ DOMAIN x.vault = OfType(V, "tool_result")
        /\ OfType(V, "policy_evaluation") \ DOMAIN x.vault = OfType(V, "policy_evaluation")
    BY <1>1 DEF OfType, TapeTypes
  <1>. QED BY <1>2, <1>3 DEF TapeAt, Tape

-----------------------------------------------------------------------------
(* The replay of a run that completed *)

\* The replayed run is where the recorded one was at the view x, on what the tape V
\* still holds, along the same path.
Repeated(V, x) == run = x.run /\ tape = TapeAt(V, x) /\ Repeats(path, x)

\* The records V of the vault of a run that completed at the view z.
Sealed(V, z) ==
  /\ IsList(V) /\ Extends(z.vault, V) /\ z.run.at = "complete"
  /\ \A visit : StagesOf(V, visit) = StagesOf(z.vault, visit)
  /\ Snapshots(V) = Snapshots(z.vault)
  /\ (\E i \in OfType(z.vault, "model_response") : z.vault[i].body = "tool")
        => \E i \in OfType(V, "tool_result") : V[i].named

\* From every view but the last there is a way on.
LEMMA WayOn ==
  ASSUME NEW z, NEW V, Sealed(V, z), NEW H, History(H, z), NEW x \in H, x.run.at # "complete"
  PROVE  \E y \in H : Follows(x, y) /\ Extends(y.vault, V)
  <1>1. x # z
    BY DEF Sealed
  <1>2. PICK y \in H : Follows(x, y)
    BY <1>1 DEF History
  <1>3. Extends(y.vault, z.vault)
    BY DEF History, Behind
  <1>4. Extends(y.vault, V)
    BY <1>3, ExtendsChain DEF Sealed
  <1>. QED BY <1>2, <1>4

\* The last view is that of the completed run: nothing follows it.
LEMMA LastView ==
  ASSUME NEW z, NEW V, Sealed(V, z), NEW H, History(H, z), NEW x \in H
  PROVE  /\ x.run.at \in Ended => x = z
         /\ x.run.at \notin {"off", "failing"}
  <1>1. z.run.at = "complete"
    BY DEF Sealed
  <1>2. x = z \/ \E y \in H : Follows(x, y)
    BY DEF History
  <1>. QED BY <1>1, <1>2 DEF Follows, Ended

\* A visit that ended tells its stage.
LEMMA KnownStage ==
  ASSUME NEW z, NEW V, Sealed(V, z), NEW H, History(H, z), NEW x \in H, x.run.at \in Inside
  PROVE  x.run.stage \in Stages /\ StagesOf(V, x.current) = {x.run.stage}
  <1>1. Behind(x, z)
    BY DEF History
  <1>2. z.run.at \notin Inside
    BY DEF Sealed, Inside
  <1>3. x.run.stage \in Stages /\ StagesOf(z.vault, x.current) = {x.run.stage}
    BY <1>1, <1>2 DEF Behind
  <1>. QED BY <1>3 DEF Sealed

\* The name of a tool the model asked for is on the tape.
LEMMA KnownTool ==
  ASSUME NEW z, NEW V, Sealed(V, z), NEW H, History(H, z), NEW x \in H, Repeated(V, x), run.at = "gate"
  PROVE  ~ToolIsUnknown
  <1>1. Behind(x, z) /\ run = x.run /\ tape = TapeAt(V, x)
    BY DEF History, Repeated
  <1>2. SUFFICES ASSUME run.stage \in ModelStages PROVE tape.named
    BY DEF ToolIsUnknown
  <1>3. PICK i \in OfType(x.vault, "model_response") : x.vault[i].body = "tool"
    BY <1>1, <1>2 DEF Behind, Wanted
  <1>4. i \in OfType(z.vault, "model_response") /\ z.vault[i].body = "tool"
    BY <1>1, <1>3 DEF Behind, Extends, OfType
  <1>5. \E k \in OfType(V, "tool_result") : V[k].named
    BY <1>4 DEF Sealed
  <1>6. TapeAt(V, x).named = \E k \in OfType(V, "tool_result") : V[k].named
    BY DEF TapeAt
  <1>. QED BY <1>1, <1>5, <1>6

\* A step on the answers that were recorded.
LEMMA TakesOn ==
  ASSUME NEW V, NEW x, NEW y, Repeated(V, x), NEW step, Leads(x, y, step), Take(step), tape' = TapeAt(V, y)
  PROVE  run' = y.run /\ tape' = TapeAt(V, y) /\ Repeats(path', y)
  BY DEF Repeated, Leads, Take

\* What a step of the replay leads to.
Onward(V, H) ==
  verdict' = verdict /\ \E y \in H : run' = y.run /\ tape' = TapeAt(V, y) /\ Repeats(path', y)

\* A visit begins or ends as it did.
LEMMA BoundaryRepeats ==
  ASSUME NEW z, NEW V, Sealed(V, z), NEW H, History(H, z), NEW x \in H, Repeated(V, x),
         ReplayStage \/ ReplayCompletes
  PROVE  Onward(V, H)
  <1>1. run = x.run /\ tape = TapeAt(V, x) /\ verdict' = verdict /\ tape' = tape
    BY DEF Repeated, ReplayStage, ReplayCompletes
  <1>2. run.at \in {"next", "done"}
    BY DEF ReplayStage, ReplayCompletes
  <1>3. PICK y \in H : Follows(x, y) /\ Extends(y.vault, V)
    BY <1>1, <1>2, WayOn
  <1>4. AddsNone(TapeTypes, x.vault, y.vault)
    BY <1>1, <1>2, <1>3 DEF Follows
  <1>5. tape' = TapeAt(V, y)
    BY <1>1, <1>3, <1>4, TapeRests
  <1>6. PICK step : Leads(x, y, step) /\ Take(step)
    <2>1. CASE ReplayStage
      <3>1. run.at = "next" /\ Take(StartStage(run))
        BY <2>1 DEF ReplayStage
      <3>. QED BY <1>1, <1>3, <3>1 DEF Follows
    <2>2. CASE ReplayCompletes
      <3>1. run.at = "done" /\ Take(CompleteStage(run))
        BY <2>2 DEF ReplayCompletes
      <3>. QED BY <1>1, <1>3, <3>1 DEF Follows
    <2>. QED BY <2>1, <2>2
  <1>. QED BY <1>1, <1>3, <1>5, <1>6, TakesOn DEF Onward

\* A model is asked and gives the answer it gave.
LEMMA AskRepeats ==
  ASSUME NEW z, NEW V, Sealed(V, z), NEW H, History(H, z), NEW x \in H, Repeated(V, x), ReplayAsk
  PROVE  Onward(V, H)
  <1>1. run = x.run /\ tape = TapeAt(V, x) /\ run.at = "ask" /\ verdict' = verdict
    BY DEF Repeated, ReplayAsk
  <1>2. PICK y \in H : Follows(x, y) /\ Extends(y.vault, V)
    BY <1>1, WayOn
  <1>3. PICK v : /\ Answer(x, y, v, "model_response")
                 /\ Leads(x, y, Ask(x.run, [class |-> v.body, to |-> v.to]))
    BY <1>1, <1>2 DEF Follows
  <1>4. x.run.stage \in Stages /\ StagesOf(V, x.current) = {x.run.stage}
    BY <1>1, KnownStage DEF Inside
  <1>5. IsList(V)
    BY DEF Sealed
  <1>6. /\ tape.models[run.stage] # <<>> /\ Head(tape.models[run.stage]) = v
        /\ TapeAt(V, y) = [tape EXCEPT !.models[run.stage] = Tail(tape.models[run.stage])]
    BY <1>1, <1>2, <1>3, <1>4, <1>5, ModelTape
  <1>7. /\ Take(Ask(run, [class |-> v.body, to |-> v.to]))
        /\ tape' = [tape EXCEPT !.models[run.stage] = Tail(tape.models[run.stage])]
    BY <1>6 DEF ReplayAsk
  <1>. QED BY <1>1, <1>2, <1>3, <1>6, <1>7, TakesOn DEF Onward

\* A policy is evaluated as it was.
LEMMA GateRepeats ==
  ASSUME NEW z, NEW V, Sealed(V, z), NEW H, History(H, z), NEW x \in H, Repeated(V, x), ReplayGate
  PROVE  Onward(V, H)
  <1>1. run = x.run /\ tape = TapeAt(V, x) /\ run.at = "gate" /\ verdict' = verdict
    BY DEF Repeated, ReplayGate
  <1>2. PICK y \in H : Follows(x, y) /\ Extends(y.vault, V)
    BY <1>1, WayOn
  <1>3. PICK v : Answer(x, y, v, "policy_evaluation") /\ Leads(x, y, Gate(x.run, v.body))
    BY <1>1, <1>2 DEF Follows
  <1>4. IsList(V)
    BY DEF Sealed
  <1>5. /\ tape.policies # <<>> /\ Head(tape.policies) = v
        /\ TapeAt(V, y) = [tape EXCEPT !.policies = Tail(tape.policies)]
    BY <1>1, <1>2, <1>3, <1>4, PolicyTape
  <1>6. ~ToolIsUnknown
    BY <1>1, KnownTool
  <1>7. /\ Take(Gate(run, v.body)) /\ tape' = [tape EXCEPT !.policies = Tail(@)]
    BY <1>5, <1>6 DEF ReplayGate
  <1>. QED BY <1>1, <1>2, <1>3, <1>5, <1>7, TakesOn DEF Onward

\* A tool is called and gives the result it gave.
LEMMA CallRepeats ==
  ASSUME NEW z, NEW V, Sealed(V, z), NEW H, History(H, z), NEW x \in H, Repeated(V, x), ReplayCall
  PROVE  Onward(V, H)
  <1>1. run = x.run /\ tape = TapeAt(V, x) /\ run.at = "call" /\ verdict' = verdict
    BY DEF Repeated, ReplayCall
  <1>2. PICK y \in H : Follows(x, y) /\ Extends(y.vault, V)
    BY <1>1, WayOn
  <1>3. PICK v : /\ Answer(x, y, v, "tool_result")
                 /\ Leads(x, y, CallTool(x.run, [class |-> v.body, to |-> v.to], "plain"))
    BY <1>1, <1>2 DEF Follows
  <1>4. IsList(V)
    BY DEF Sealed
  <1>5. /\ tape.tools # <<>> /\ Head(tape.tools) = v
        /\ TapeAt(V, y) = [tape EXCEPT !.tools = Tail(tape.tools)]
    BY <1>1, <1>2, <1>3, <1>4, ToolTape
  <1>6. /\ Take(CallTool(run, [class |-> v.body, to |-> v.to], "plain"))
        /\ tape' = [tape EXCEPT !.tools = Tail(@)]
    BY <1>5 DEF ReplayCall
  <1>. QED BY <1>1, <1>2, <1>3, <1>5, <1>6, TakesOn DEF Onward

\* The comparison of a run that was repeated to its end finds no difference.
LEMMA ComparesEqual ==
  ASSUME NEW z, NEW V, Sealed(V, z), NEW H, History(H, z), NEW x \in H, Repeated(V, x),
         NEW a, a.entries.manifest.status = "complete", a.entries.events = z.events, a.entries.enc.records = V,
         Compare(a)
  PROVE  verdict' = "matched" /\ run' = run /\ tape' = tape /\ path' = path
  <1>1. run = x.run /\ run.at \in Ended /\ Repeats(path, x)
    BY DEF Repeated, Compare
  <1>2. x = z
    BY <1>1, LastView
  <1>3. Keys(path) = Keys(z.events) /\ Snapshots(V) \subseteq Outputs(path) /\ run.at = "complete"
    BY <1>1, <1>2 DEF Repeats, PathOf, Sealed
  <1>4. Divergences(a) = {}
    BY <1>3 DEF Divergences, When, Events
  <1>. QED BY <1>4 DEF Compare

\* A replay that has begun keeps to the recorded run, and never diverges.
LEMMA ReplayRepeats ==
  ASSUME NEW z, NEW V, Sealed(V, z), NEW H, History(H, z), NEW x \in H, Repeated(V, x),
         NEW a, a.entries.manifest.status = "complete", a.entries.events = z.events, a.entries.enc.records = V,
         NEW passphrase, Replay(a, passphrase), verdict # "diverged"
  PROVE  /\ verdict' # "diverged"
         /\ \E y \in H : run' = y.run /\ tape' = TapeAt(V, y) /\ Repeats(path', y)
  <1>1. run.at \notin {"off", "failing"}
    BY LastView DEF Repeated
  <1>2. \/ ReplayStage \/ ReplayCompletes \/ ReplayAsk \/ ReplayGate \/ ReplayCall \/ Compare(a)
    BY <1>1 DEF Replay, LoadTape, ReplayFails
  <1>3. CASE ReplayStage \/ ReplayCompletes \/ ReplayAsk \/ ReplayGate \/ ReplayCall
    <2>1. Onward(V, H)
      BY <1>3, BoundaryRepeats, AskRepeats, GateRepeats, CallRepeats
    <2>. QED BY <2>1 DEF Onward
  <1>4. CASE Compare(a)
    <2>1. verdict' = "matched" /\ run' = run /\ tape' = tape /\ path' = path
      BY <1>4, ComparesEqual
    <2>2. run = x.run /\ tape = TapeAt(V, x) /\ Repeats(path, x)
      BY DEF Repeated
    <2>. QED BY <2>1, <2>2
  <1>. QED BY <1>2, <1>3, <1>4

-----------------------------------------------------------------------------
(* Replaying what is held *)

\* An archive that can be replayed to the end of its run: the run completed, nothing of
\* it was left out, every attempt was answered, and the tools have names.
Replayable ==
  /\ archive.entries.manifest.status = "complete" /\ rec.config.capture = Captured
  /\ rec.live = Cardinality({e \in Ledger(archive) : e.seq # 0})
  /\ EveryAttemptAnswered /\ ToolsAreNamed

\* Nothing was replayed yet.
Unplayed == run.at = "off" /\ path = <<>> /\ verdict \in {"none", "refused"}

\* What is held tells of the run what its recorder does.
HeldRecorded ==
  /\ held.entries.manifest.status = "complete" /\ held.entries.events = rec.events
  /\ held.entries.enc.records = SealedRecords(rec)

\* The replay is where the recorded run was once.
Abreast ==
  \E H : /\ Sealed(SealedRecords(rec), View(live, rec)) /\ History(H, View(live, rec))
         /\ \E x \in H : Repeated(SealedRecords(rec), x)

\* Where a replay is: not begun, or along the run that was recorded.
ReplayInv ==
  /\ outcome # "archived" => Unplayed
  /\ outcome = "archived" => archive.entries.manifest.status = live.at
  /\ outcome = "archived" /\ Replayable =>
       Unplayed \/ (HeldRecorded /\ Abreast /\ verdict # "diverged")

\* What opens is what was recorded, whoever rewrote the archive.
LEMMA OpensRecorded ==
  ASSUME ArchiveInv, outcome = "archived", NEW passphrase \in {"right", "wrong"}, Unlock(held, passphrase).ok
  PROVE  /\ VaultEnabled(rec) /\ archive.entries.events = rec.events
         /\ held.entries.manifest = archive.entries.manifest /\ held.entries.events = rec.events
         /\ held.entries.enc.records = SealedRecords(rec)
         /\ Unlock(held, passphrase).records = SealedRecords(rec)
  <1>1. PICK status \in Ended :
          archive = [entries |-> BuildEntries(rec, status), index |-> Index(BuildEntries(rec, status))]
    BY DEF ArchiveInv, Archived
  <1>2. PICK E : archive.entries = E /\ IsBuilt(E, rec, status)
    BY <1>1, Built
  <1>3. /\ DOMAIN E = IF VaultEnabled(rec) THEN PublicEntries \cup {"enc", "meta"} ELSE PublicEntries
        /\ E = [n \in DOMAIN E |-> E[n]] /\ E.events = rec.events
        /\ VaultEnabled(rec) => E.enc = [key |-> Passphrase, aad |-> Binding(E), records |-> SealedRecords(rec)]
    BY <1>2 DEF IsBuilt
  <1>4. "enc" \in DOMAIN E =>
          /\ VaultEnabled(rec) /\ E.enc.aad = Binding(E) /\ E.enc.records = SealedRecords(rec)
          /\ E.enc = [key |-> Passphrase, aad |-> E.enc.aad, records |-> E.enc.records]
    <2>1. "enc" \in DOMAIN E => VaultEnabled(rec)
      BY <1>3 DEF PublicEntries
    <2>. QED BY <1>3, <2>1
  <1>5. PICK e : e = held.entries
    OBVIOUS
  <1>6. e = E \/ e \in Forgeries(E)
    BY <1>2, <1>5 DEF ArchiveInv, HeldOrForged
  <1>7. "enc" \in DOMAIN e /\ "meta" \in DOMAIN e /\ e.enc.key = passphrase /\ e.enc.aad = Binding(e)
    BY <1>5, UnlockedMeansBound DEF HasVault, Has
  <1>8. "enc" \in DOMAIN E /\ e.enc = E.enc
    <2>1. CASE e = E
      BY <1>7, <2>1
    <2>2. CASE e \in Forgeries(E)
      <3>1. PublicEntries \subseteq DOMAIN E
        BY <1>3
      <3>2. /\ "enc" \in DOMAIN e => "enc" \in DOMAIN E
            /\ "enc" \in DOMAIN e /\ "meta" \in DOMAIN e => e.enc = E.enc \/ e.enc.key = "other"
        BY <1>3, <1>4, <2>2, <3>1, ForgedVault
      <3>. QED BY <1>7, <3>2
    <2>. QED BY <1>6, <2>1, <2>2
  <1>9. Binding(e) = Binding(E)
    BY <1>4, <1>7, <1>8
  <1>10. e.manifest = E.manifest /\ e.events = E.events
    BY <1>9, BindingIsInjective
  <1>11. Unlock(held, passphrase).records = held.entries.enc.records
    <2>1. \A errors : Locked(errors).ok = FALSE
      BY DEF Locked
    <2>. QED BY <2>1 DEF Unlock
  <1>. QED BY <1>2, <1>3, <1>4, <1>5, <1>8, <1>10, <1>11

\* A vault that stays closed gives a reason.
LEMMA ClosedHasReason ==
  ASSUME NEW a, NEW passphrase, ~Unlock(a, passphrase).ok
  PROVE  Unlock(a, passphrase).errors # {}
  <1>1. \A errors : Locked(errors).errors = errors
    BY DEF Locked
  <1>2. CASE \E errors : errors # {} /\ Unlock(a, passphrase) = Locked(errors)
    BY <1>1, <1>2
  <1>3. CASE \E errors, records :
               Unlock(a, passphrase) = [ok |-> errors = {}, records |-> records, errors |-> errors]
    <2>1. PICK errors, records :
            Unlock(a, passphrase) = [ok |-> errors = {}, records |-> records, errors |-> errors]
      BY <1>3
    <2>2. PICK ok \in BOOLEAN : ok = (errors = {})
      OBVIOUS
    <2>3. Unlock(a, passphrase) = [ok |-> ok, records |-> records, errors |-> errors]
      BY <2>1, <2>2
    <2>4. Unlock(a, passphrase).ok = ok /\ Unlock(a, passphrase).errors = errors
      BY <2>3
    <2>. QED BY <2>2, <2>4
  <1>4. /\ Verify(a).errors \cup {"archive verification failed"} # {}
        /\ {"archive has no replay vault"} # {} /\ {"vault unlock failed"} # {}
    OBVIOUS
  <1>5. \/ \E errors : errors # {} /\ Unlock(a, passphrase) = Locked(errors)
        \/ \E errors, records :
             Unlock(a, passphrase) = [ok |-> errors = {}, records |-> records, errors |-> errors]
    <2>1. CASE ~Verify(a).ok
      BY <1>4, <2>1 DEF Unlock
    <2>2. CASE Verify(a).ok /\ Verify(a).replayability # "taped-replay"
      BY <1>4, <2>2 DEF Unlock
    <2>3. CASE Unlock(a, passphrase) = Locked({"vault unlock failed"})
      BY <1>4, <2>3
    <2>4. CASE /\ Verify(a).ok /\ Verify(a).replayability = "taped-replay"
               /\ Unlock(a, passphrase) # Locked({"vault unlock failed"})
      <3>1. PICK errors : errors = EvidenceErrors(a, a.entries.enc.records)
        OBVIOUS
      <3>2. Unlock(a, passphrase) = [ok |-> errors = {}, records |-> a.entries.enc.records, errors |-> errors]
        BY <2>4, <3>1 DEF Unlock
      <3>. QED BY <3>2
    <2>. QED BY <2>1, <2>2, <2>3, <2>4
  <1>. QED BY <1>2, <1>3, <1>5

\* The vault of a run that completed is its tape.
LEMMA SealedTape ==
  ASSUME RunInv, RecordingInv, live.at = "complete", Complete(rec), ToolsAreNamed
  PROVE  Sealed(SealedRecords(rec), View(live, rec))
  <1>1. PICK z : z = View(live, rec)
    OBVIOUS
  <1>2. z.run.at = "complete" /\ z.vault = rec.vault
    BY <1>1 DEF View
  <1>3. PICK V : V = SealedRecords(rec)
    OBVIOUS
  <1>4. "ir" \in rec.config.capture
    BY DEF Complete, Captured
  <1>5. IsList(rec.vault)
    BY DEF RecordingInv, Recorded, BookInv, Loose
  <1>6. AddsNone(SnapshotTypes, rec.vault, V)
    <2>1. VaultRecord("full_workflow_ir").type \notin SnapshotTypes
      BY DEF VaultRecord, SnapshotTypes
    <2>. QED BY <1>3, <1>4, <1>5, <2>1, AppendAdds DEF SealedRecords
  <1>7. Extends(rec.vault, V)
    BY <1>6 DEF AddsNone
  <1>8. IsList(V)
    BY <1>7 DEF Extends
  <1>9. Snapshots(V) = Snapshots(rec.vault) /\ \A visit : StagesOf(V, visit) = StagesOf(rec.vault, visit)
    BY <1>6, NoSnapshot
  <1>10. ASSUME NEW i \in OfType(rec.vault, "model_response"), rec.vault[i].body = "tool"
         PROVE  \E k \in OfType(V, "tool_result") : V[k].named
    <2>1. PICK k \in DOMAIN rec.vault : rec.vault[k].type = "tool_result" /\ rec.vault[k].named
      BY <1>10 DEF ToolsAreNamed, OfType
    <2>. QED BY <1>7, <2>1 DEF Extends, OfType
  <1>. QED BY <1>1, <1>2, <1>3, <1>7, <1>8, <1>9, <1>10 DEF Sealed

\* The views of a run that completed, was recorded without a gap and answered throughout.
LEMMA RunIsKnown ==
  ASSUME RunInv, ArchiveInv, RecordingInv, outcome = "archived", Replayable, VaultEnabled(rec),
         archive.entries.events = rec.events, live.at = "complete"
  PROVE  \E H : History(H, View(live, rec))
  <1>1. ~rec.exceeded
    BY DEF ArchiveInv, Archived
  <1>2. Numbered(rec.events) = {e \in Ledger(archive) : e.seq # 0}
    BY DEF Numbered, Ledger, Events
  <1>3. Kept(rec)
    BY <1>1, <1>2 DEF Kept, Replayable
  <1>4. Complete(rec)
    BY DEF Complete, Replayable
  <1>5. Cardinality(Requests(rec)) = Cardinality(Responses(rec))
    BY DEF Replayable, EveryAttemptAnswered, Requests, Responses
  <1>6. Fine(live, rec) /\ live.at # "off"
    BY <1>3, <1>4, <1>5 DEF Fine, Going, Lost
  <1>. QED BY <1>6 DEF RecordingInv, Recorded

\* A replay begins where the run began.
LEMMA LoadRepeats ==
  ASSUME RunInv, ArchiveInv, RecordingInv, ReplayInv, outcome = "archived", Replayable, Unplayed,
         NEW passphrase \in {"right", "wrong"}, LoadTape(held, passphrase),
         rec' = rec, live' = live, held' = held
  PROVE  Unplayed' \/ (HeldRecorded' /\ Abreast' /\ verdict' # "diverged")
  <1>1. CASE Refusals(held, Unlock(held, passphrase)) # {}
    BY <1>1 DEF LoadTape, Unplayed
  <1>2. CASE Refusals(held, Unlock(held, passphrase)) = {}
    <2>1. Unlock(held, passphrase).ok
      BY <1>2, ClosedHasReason DEF Refusals
    <2>2. PICK V : V = SealedRecords(rec)
      OBVIOUS
    <2>3. /\ VaultEnabled(rec) /\ archive.entries.events = rec.events
          /\ held.entries.manifest = archive.entries.manifest /\ held.entries.events = rec.events
          /\ held.entries.enc.records = SealedRecords(rec) /\ Unlock(held, passphrase).records = V
      BY <2>1, <2>2, OpensRecorded
    <2>4. tape' = Tape(V) /\ Take(BeginRun) /\ verdict' = verdict
      BY <1>2, <2>3 DEF LoadTape
    <2>5. live.at = "complete" /\ archive.entries.manifest.status = "complete"
      BY DEF ReplayInv, Replayable
    <2>6. Complete(rec) /\ ToolsAreNamed
      BY <2>3 DEF Complete, Replayable
    <2>7. Sealed(V, View(live, rec))
      BY <2>2, <2>5, <2>6, SealedTape
    <2>8. PICK H : History(H, View(live, rec))
      BY <2>3, <2>5, RunIsKnown
    <2>9. PICK x \in H : Opened(x)
      BY <2>8 DEF History
    <2>10. Extends(x.vault, V)
      <3>1. Extends(x.vault, View(live, rec).vault)
        BY <2>8 DEF History, Behind
      <3>. QED BY <2>7, <3>1, ExtendsChain DEF Sealed
    <2>11. TapeAt(V, x) = Tape(V)
      BY <2>9, <2>10, WholeTape
    <2>12. run' = x.run /\ tape' = TapeAt(V, x) /\ Repeats(path', x)
      BY <2>4, <2>9, <2>11 DEF Take, Opened, Unplayed
    <2>13. HeldRecorded'
      BY <2>3, <2>5 DEF HeldRecorded
    <2>14. Abreast'
      BY <2>2, <2>7, <2>8, <2>12 DEF Abreast, Repeated
    <2>. QED BY <2>4, <2>13, <2>14 DEF Unplayed
  <1>. QED BY <1>1, <1>2

\* A replay goes on as the run went on.
LEMMA PlayRepeats ==
  ASSUME HeldRecorded, Abreast, verdict # "diverged", NEW passphrase, Replay(held, passphrase),
         rec' = rec, live' = live, held' = held
  PROVE  HeldRecorded' /\ Abreast' /\ verdict' # "diverged"
  <1>1. PICK V : V = SealedRecords(rec)
    OBVIOUS
  <1>2. PICK z : z = View(live, rec)
    OBVIOUS
  <1>3. PICK H : Sealed(V, z) /\ History(H, z) /\ \E x \in H : Repeated(V, x)
    BY <1>1, <1>2 DEF Abreast
  <1>4. PICK x \in H : Repeated(V, x)
    BY <1>3
  <1>5. /\ held.entries.manifest.status = "complete" /\ held.entries.events = z.events
        /\ held.entries.enc.records = V
    BY <1>1, <1>2 DEF HeldRecorded, View
  <1>6. /\ verdict' # "diverged"
        /\ \E y \in H : run' = y.run /\ tape' = TapeAt(V, y) /\ Repeats(path', y)
    BY <1>3, <1>4, <1>5, ReplayRepeats
  <1>7. Abreast'
    BY <1>1, <1>2, <1>3, <1>6 DEF Abreast, Repeated
  <1>. QED BY <1>6, <1>7 DEF HeldRecorded

\* A replay under way is not off: the archive it reads is not rewritten meanwhile.
LEMMA AbreastIsOn ==
  ASSUME Abreast
  PROVE  run.at # "off"
  <1>1. PICK z, V, H : Sealed(V, z) /\ History(H, z) /\ \E x \in H : Repeated(V, x)
    BY DEF Abreast
  <1>. QED BY <1>1, LastView DEF Repeated

\* Nothing was replayed at first.
LEMMA ReplayStarts == MCInit => ReplayInv
  BY DEF MCInit, Init, ReplayInit, ReplayInv, Unplayed

\* Every step of a replay keeps it along the run, and no other step touches it.
LEMMA ReplayNext == RunInv /\ ArchiveInv /\ RecordingInv /\ ReplayInv /\ [MCNext]_mcVars => ReplayInv'
  <1>. SUFFICES ASSUME RunInv, ArchiveInv, RecordingInv, ReplayInv, [MCNext]_mcVars PROVE ReplayInv'
    OBVIOUS
  <1>1. ASSUME NEW calls, Record(calls), UNCHANGED <<run, path, verdict>> PROVE ReplayInv'
    <2>1. outcome # "archived" /\ outcome' = outcome
      BY <1>1 DEF Record, ArchiveInv
    <2>. QED BY <1>1, <2>1 DEF ReplayInv, Unplayed
  <1>2. CASE RunBegins \/ RunVisits \/ RunAsks \/ RunIsGated \/ RunCalls \/ RunLeavesStage \/ RunFails \/ RunAborted
    BY <1>1, <1>2 DEF RunBegins, RunVisits, RunAsks, RunIsGated, RunCalls, RunLeavesStage, RunFails, RunAborted, Advance
  <1>3. CASE RunFinishes
    <2>1. outcome # "archived" /\ UNCHANGED <<live, run, path, verdict>>
      BY <1>3 DEF RunFinishes
    <2>2. Unplayed'
      BY <2>1 DEF ReplayInv, Unplayed
    <2>3. ASSUME outcome' = "archived" PROVE archive'.entries.manifest.status = live'.at
      <3>1. archive' = [entries |-> BuildEntries(rec, live.at), index |-> Index(BuildEntries(rec, live.at))]
        BY <1>3, <2>3 DEF RunFinishes, FinishRun
      <3>2. IsBuilt(archive'.entries, rec, live.at)
        BY <3>1, Built
      <3>3. archive'.entries.manifest.status = live.at
        BY <3>2 DEF IsBuilt, Manifest
      <3>. QED BY <2>1, <3>3
    <2>. QED BY <2>2, <2>3 DEF ReplayInv
  <1>4. CASE Rewrite
    <2>1. /\ outcome = "archived" /\ run.at = "off"
          /\ UNCHANGED <<rec, archive, outcome, live, tape, run, path, verdict>>
      BY <1>4 DEF Rewrite
    <2>2. Replayable => Unplayed
      BY <2>1, AbreastIsOn DEF ReplayInv
    <2>3. Replayable' => Replayable
      BY <2>1 DEF Replayable, EveryAttemptAnswered, ToolsAreNamed
    <2>4. Unplayed => Unplayed'
      BY <2>1 DEF Unplayed
    <2>. QED BY <2>1, <2>2, <2>3, <2>4 DEF ReplayInv
  <1>5. CASE Replays
    <2>1. /\ outcome = "archived" /\ UNCHANGED <<rec, archive, outcome, live, held>>
          /\ \E passphrase \in {"right", "wrong"} : Replay(held, passphrase)
      BY <1>5 DEF Replays
    <2>2. PICK passphrase \in {"right", "wrong"} : Replay(held, passphrase)
      BY <2>1
    <2>3. Replayable' => Replayable
      BY <2>1 DEF Replayable, EveryAttemptAnswered, ToolsAreNamed
    <2>4. ASSUME Replayable PROVE Unplayed' \/ (HeldRecorded' /\ Abreast' /\ verdict' # "diverged")
      <3>1. CASE Unplayed
        <4>1. LoadTape(held, passphrase)
          BY <2>2, <3>1 DEF Replay, Unplayed, ReplayStage, ReplayAsk, ReplayGate, ReplayCall, ReplayCompletes,
                         ReplayFails, Compare, Ended
        <4>. QED BY <2>1, <2>4, <3>1, <4>1, LoadRepeats
      <3>2. CASE HeldRecorded /\ Abreast /\ verdict # "diverged"
        BY <2>1, <2>2, <3>2, PlayRepeats
      <3>. QED BY <2>1, <2>4, <3>1, <3>2 DEF ReplayInv
    <2>. QED BY <2>1, <2>3, <2>4 DEF ReplayInv
  <1>6. CASE Publishes \/ UNCHANGED mcVars
    <2>1. UNCHANGED <<rec, archive, outcome, live, held, tape, run, path, verdict>>
      BY <1>6 DEF Publishes, mcVars, vars, replayVars
    <2>2. Replayable' => Replayable
      BY <2>1 DEF Replayable, EveryAttemptAnswered, ToolsAreNamed
    <2>3. Unplayed => Unplayed'
      BY <2>1 DEF Unplayed
    <2>4. HeldRecorded => HeldRecorded'
      BY <2>1 DEF HeldRecorded
    <2>5. Abreast => Abreast'
      BY <2>1 DEF Abreast, Repeated
    <2>. QED BY <2>1, <2>2, <2>3, <2>4, <2>5 DEF ReplayInv
  <1>. QED BY <1>2, <1>3, <1>4, <1>5, <1>6 DEF MCNext

-----------------------------------------------------------------------------

\* The inductive invariant of recording and replaying.
RecordAndReplayInv == RunInv /\ ArchiveInv /\ RecordingInv /\ ReplayInv

\* Whatever the workflow, its bounds and the answers it got are, a replay of a run that
\* completed is always at a point the recorded run went through, with the same path
\* behind it and the answers of the rest of that run before it (replay.ts: the taped
\* adapter, registry and policies; trace.ts: what the vault keeps of each).
THEOREM ReplayKeepsToTheRun == MCSpec => []RecordAndReplayInv
  <1>1. MCInit => RecordAndReplayInv
    BY RunInit, ArchiveInit, RecordingInit, ReplayStarts DEF RecordAndReplayInv
  <1>2. RecordAndReplayInv /\ [MCNext]_mcVars => RecordAndReplayInv'
    BY RunNext, ArchiveNext, RecordingNext, ReplayNext DEF RecordAndReplayInv
  <1>. QED BY <1>1, <1>2, PTL DEF MCSpec

\* Replaying a completed run takes the recorded path with the recorded outputs, although
\* the answers are filed by stage and by order only, and the archive may have been
\* rewritten (replay.ts: replayTrace and comparePaths).
THEOREM ReplayIsFaithful == MCSpec => []ReplayMatches
  <1>1. RecordAndReplayInv => ReplayMatches
    <2>. SUFFICES ASSUME RecordAndReplayInv, verdict = "diverged", Reproducible, EveryAttemptAnswered,
                         ToolsAreNamed, archive.entries.manifest.status = "complete"
                  PROVE  FALSE
      BY DEF ReplayMatches
    <2>1. Replayable
      BY DEF Replayable, Reproducible
    <2>2. ~Unplayed
      BY DEF Unplayed
    <2>. QED BY <2>1, <2>2 DEF RecordAndReplayInv, ReplayInv
  <1>. QED BY <1>1, ReplayKeepsToTheRun, PTL
=============================================================================
