----------------------------- MODULE LoopProofs ------------------------------
(* What two loops compute, for every input: the one that filters a list, and  *)
(* the library's sum over a finite set.  The induction theorems of the        *)
(* library take an operator, which the provers cannot instantiate: the        *)
(* induction here is over a set of indices (UpTo), proved from the minimum of *)
(* a well-founded relation.                                                   *)
EXTENDS Filtered, Functions, SequenceTheorems, FiniteSetTheorems, WellFoundedInduction,
        TLAPS

(* ------------------------------- filtering ------------------------------ *)

\* A set of indices that has 0, and each next one up to n, has all of them.
LEMMA UpTo ==
  ASSUME NEW n \in Nat, NEW G, 0 \in G, \A i \in 1..n : i - 1 \in G => i \in G
  PROVE  0..n \subseteq G
<1> DEFINE T == (0..n) \ G
<1>1. SUFFICES ASSUME NEW x \in 0..n, x \notin G PROVE FALSE
  OBVIOUS
<1>2. T # {} /\ T \subseteq Nat
  BY <1>1
<1>3. PICK m \in T : \A k \in T : ~(<<k, m>> \in OpToRel(<, Nat))
  <2> HIDE DEF T
  <2> QED
    BY <1>2, NatLessThanWellFounded, WFMin
<1>4. m \in 1..n
  OBVIOUS
<1>5. m - 1 \in T
  BY <1>4
<1>6. <<m - 1, m>> \in OpToRel(<, Nat)
  BY <1>4 DEF OpToRel
<1> QED
  BY <1>3, <1>5, <1>6

\* One pass of the loop, from what it kept so far.
Pass(s, dropped, kept, i) ==
  IF i = 0 THEN <<>>
  ELSE IF s[i] \in dropped THEN kept[i - 1] ELSE Append(kept[i - 1], s[i])

\* The loop's function exists: built up to each index in turn.
LEMMA LoopExists ==
  ASSUME NEW S, NEW s \in Seq(S), NEW dropped
  PROVE  \E kept : kept = [i \in 0..Len(s) |-> Pass(s, dropped, kept, i)]
<1> DEFINE Upto(n) == \E kept : kept = [i \in 0..n |-> Pass(s, dropped, kept, i)]
<1> DEFINE G == {n \in 0..Len(s) : Upto(n)}
<1>1. Len(s) \in Nat
  OBVIOUS
<1>2. 0 \in G
  <2>1. [i \in 0..0 |-> <<>>] = [i \in 0..0 |-> Pass(s, dropped, [j \in 0..0 |-> <<>>], i)]
    BY DEF Pass
  <2> QED
    BY <1>1, <2>1
<1>3. ASSUME NEW m \in 1..Len(s), m - 1 \in G PROVE m \in G
  <2>1. PICK kept : kept = [i \in 0..(m - 1) |-> Pass(s, dropped, kept, i)]
    BY <1>3
  <2>2. \A i \in 0..(m - 1) : kept[i] = Pass(s, dropped, kept, i)
    BY <2>1
  <2> DEFINE next == [i \in 0..m |-> IF i = m THEN Pass(s, dropped, kept, m) ELSE kept[i]]
  <2>3. ASSUME NEW i \in 0..m PROVE next[i] = Pass(s, dropped, next, i)
    <3>1. i # 0 => next[i - 1] = kept[i - 1]
      OBVIOUS
    <3>2. Pass(s, dropped, next, i) = Pass(s, dropped, kept, i)
      BY <3>1 DEF Pass
    <3>3. i # m => kept[i] = Pass(s, dropped, kept, i)
      BY <2>2
    <3> QED
      BY <3>2, <3>3
  <2>4. next = [i \in 0..m |-> Pass(s, dropped, next, i)]
    BY <2>3
  <2>5. Upto(m)
    <3> HIDE DEF next
    <3> QED
      BY <2>4
  <2> HIDE DEF Upto
  <2> QED
    BY <1>1, <2>5
<1>4. 0..Len(s) \subseteq G
  <2> HIDE DEF G, Upto
  <2> QED
    BY <1>1, <1>2, <1>3, UpTo
<1> QED
  BY <1>1, <1>4

\* The recursive definition holds at every index.
LEMMA LoopStep ==
  ASSUME NEW S, NEW s \in Seq(S), NEW dropped
  PROVE  /\ KeptUpTo(s, dropped)[0] = <<>>
         /\ \A i \in 1..Len(s) : KeptUpTo(s, dropped)[i] =
              IF s[i] \in dropped THEN KeptUpTo(s, dropped)[i - 1]
              ELSE Append(KeptUpTo(s, dropped)[i - 1], s[i])
<1> DEFINE kept == KeptUpTo(s, dropped)
<1>1. kept = [i \in 0..Len(s) |-> Pass(s, dropped, kept, i)]
  <2>1. \E f : f = [i \in 0..Len(s) |->
                      IF i = 0 THEN <<>>
                      ELSE IF s[i] \in dropped THEN f[i - 1] ELSE Append(f[i - 1], s[i])]
    <3>1. PICK f : f = [i \in 0..Len(s) |-> Pass(s, dropped, f, i)]
      BY LoopExists
    <3>2. f = [i \in 0..Len(s) |->
                 IF i = 0 THEN <<>>
                 ELSE IF s[i] \in dropped THEN f[i - 1] ELSE Append(f[i - 1], s[i])]
      BY <3>1 DEF Pass
    <3> QED
      BY <3>2
  <2>2. kept = [i \in 0..Len(s) |->
                      IF i = 0 THEN <<>>
                      ELSE IF s[i] \in dropped THEN kept[i - 1] ELSE Append(kept[i - 1], s[i])]
    BY <2>1, Zenon DEF KeptUpTo
  <2> QED
    BY <2>2 DEF Pass
<1>2. Len(s) \in Nat
  OBVIOUS
<1> HIDE DEF kept
<1>3. \A i \in 0..Len(s) : kept[i] = Pass(s, dropped, kept, i)
  BY <1>1
<1>4. kept[0] = <<>> /\ \A i \in 1..Len(s) : kept[i] =
         IF s[i] \in dropped THEN kept[i - 1] ELSE Append(kept[i - 1], s[i])
  BY <1>2, <1>3 DEF Pass
<1> QED
  BY <1>4 DEF kept

\* What is kept has the elements of the list that are not dropped.
LEMMA KeptTyped ==
  ASSUME NEW S, NEW s \in Seq(S), NEW dropped, NEW i \in 0..Len(s)
  PROVE  KeptUpTo(s, dropped)[i] \in Seq(S \ dropped)
<1> DEFINE kept == KeptUpTo(s, dropped)
           G == {n \in 0..Len(s) : kept[n] \in Seq(S \ dropped)}
<1>1. Len(s) \in Nat
  OBVIOUS
<1>2. /\ kept[0] = <<>>
      /\ \A n \in 1..Len(s) : kept[n] =
           IF s[n] \in dropped THEN kept[n - 1] ELSE Append(kept[n - 1], s[n])
  BY LoopStep
<1> HIDE DEF kept
<1>3. 0 \in G
  <2>1. kept[0] \in Seq(S \ dropped)
    BY <1>2
  <2>2. 0 \in 0..Len(s)
    BY <1>1
  <2> QED
    BY <2>1, <2>2
<1>4. ASSUME NEW m \in 1..Len(s), m - 1 \in G PROVE m \in G
  <2>1. kept[m - 1] \in Seq(S \ dropped) /\ s[m] \in S
    BY <1>4
  <2>2. CASE s[m] \in dropped
    BY <1>1, <1>2, <2>1, <2>2
  <2>3. CASE s[m] \notin dropped
    <3>1. kept[m] = Append(kept[m - 1], s[m]) /\ s[m] \in S \ dropped
      BY <1>2, <2>1, <2>3
    <3>2. kept[m] \in Seq(S \ dropped)
      BY <2>1, <3>1
    <3> QED
      BY <1>1, <3>2
  <2> QED
    BY <2>2, <2>3
<1>5. 0..Len(s) \subseteq G
  <2> HIDE DEF G
  <2> QED
    BY <1>1, <1>3, <1>4, UpTo
<1> QED
  BY <1>5 DEF kept

\* Nothing is kept of an empty list.
LEMMA WithoutEmpty ==
  ASSUME NEW dropped
  PROVE  Without(<<>>, dropped) = <<>>
<1>1. <<>> \in Seq({}) /\ Len(<<>>) = 0
  OBVIOUS
<1>2. KeptUpTo(<<>>, dropped)[0] = <<>>
  BY <1>1, LoopStep
<1> QED
  BY <1>1, <1>2 DEF Without

\* A list with nothing to drop is kept as it is.
LEMMA KeepsAll ==
  ASSUME NEW S, NEW s \in Seq(S), NEW dropped, S \cap dropped = {}
  PROVE  Without(s, dropped) = s
<1> DEFINE kept == KeptUpTo(s, dropped)
           G == {n \in 0..Len(s) : /\ kept[n] \in Seq(S) /\ Len(kept[n]) = n
                                   /\ \A j \in 1..n : kept[n][j] = s[j]}
<1>1. Len(s) \in Nat
  OBVIOUS
<1>2. /\ kept[0] = <<>>
      /\ \A n \in 1..Len(s) : kept[n] =
           IF s[n] \in dropped THEN kept[n - 1] ELSE Append(kept[n - 1], s[n])
  BY LoopStep
<1>3. \A n \in 1..Len(s) : s[n] \in S /\ s[n] \notin dropped
  OBVIOUS
<1> HIDE DEF kept
<1>4. 0 \in G
  <2>1. 0 \in 0..Len(s) /\ kept[0] \in Seq(S) /\ Len(kept[0]) = 0
    BY <1>1, <1>2
  <2> QED
    BY <2>1
<1>5. ASSUME NEW m \in 1..Len(s), m - 1 \in G PROVE m \in G
  <2>1. /\ kept[m - 1] \in Seq(S) /\ Len(kept[m - 1]) = m - 1
        /\ \A j \in 1..(m - 1) : kept[m - 1][j] = s[j]
    BY <1>5
  <2>2. kept[m] = Append(kept[m - 1], s[m]) /\ s[m] \in S
    BY <1>2, <1>3
  <2>3. kept[m] \in Seq(S) /\ Len(kept[m]) = m
    BY <2>1, <2>2
  <2>4. \A j \in 1..m : kept[m][j] = s[j]
    BY <2>1, <2>2
  <2> QED
    BY <1>1, <2>3, <2>4
<1>6. 0..Len(s) \subseteq G
  <2> HIDE DEF G
  <2> QED
    BY <1>1, <1>4, <1>5, UpTo
<1>7. Len(s) \in G
  BY <1>1, <1>6
<1>8. kept[Len(s)] = s
  BY <1>7, SeqEqual
<1> QED
  BY <1>8 DEF Without, kept

\* Filtering what was filtered changes nothing.
LEMMA WithoutTwice ==
  ASSUME NEW S, NEW s \in Seq(S), NEW dropped
  PROVE  /\ Without(s, dropped) \in Seq(S \ dropped)
         /\ Without(Without(s, dropped), dropped) = Without(s, dropped)
<1>1. Without(s, dropped) \in Seq(S \ dropped)
  BY KeptTyped DEF Without
<1>2. (S \ dropped) \cap dropped = {}
  OBVIOUS
<1> QED
  BY <1>1, <1>2, KeepsAll

\* Places of a list that hold an element of R.
Places(s, R) == {j \in 1..Len(s) : s[j] \in R}

\* The filter loses no element that is not to be dropped, and invents none.
LEMMA WithoutCounts ==
  ASSUME NEW S, NEW s \in Seq(S), NEW dropped, NEW R, R \cap dropped = {}
  PROVE  /\ IsFiniteSet(Places(s, R)) /\ IsFiniteSet(Places(Without(s, dropped), R))
         /\ Cardinality(Places(Without(s, dropped), R)) = Cardinality(Places(s, R))
<1> DEFINE kept == KeptUpTo(s, dropped)
           Seen(n) == {j \in 1..n : s[j] \in R}
           Same(n) == /\ IsFiniteSet(Seen(n)) /\ IsFiniteSet(Places(kept[n], R))
                      /\ Cardinality(Places(kept[n], R)) = Cardinality(Seen(n))
           G == {n \in 0..Len(s) : Same(n)}
<1>1. Len(s) \in Nat
  OBVIOUS
<1>2. /\ kept[0] = <<>>
      /\ \A n \in 1..Len(s) : kept[n] =
           IF s[n] \in dropped THEN kept[n - 1] ELSE Append(kept[n - 1], s[n])
  BY LoopStep
<1>3. \A n \in 0..Len(s) : kept[n] \in Seq(S)
  <2>1. ASSUME NEW n \in 0..Len(s) PROVE kept[n] \in Seq(S)
    <3>1. kept[n] \in Seq(S \ dropped)
      BY KeptTyped
    <3> HIDE DEF kept
    <3> QED
      BY <3>1, SeqMonotonic
  <2> QED
    BY <2>1
<1> HIDE DEF kept
<1>4. 0 \in G
  <2>1. Seen(0) = {} /\ Places(kept[0], R) = {}
    BY <1>2 DEF Places
  <2>2. Same(0)
    <3> HIDE DEF Seen
    <3> QED
      BY <2>1, FS_EmptySet
  <2> HIDE DEF Same
  <2> QED
    BY <1>1, <2>2
<1>5. ASSUME NEW m \in 1..Len(s), m - 1 \in G PROVE m \in G
  <2>1. m - 1 \in 0..Len(s) /\ m \in 0..Len(s)
    BY <1>1
  <2>2. kept[m - 1] \in Seq(S) /\ s[m] \in S
    BY <1>3, <2>1
  <2> DEFINE l == Len(kept[m - 1])
  <2>3. l \in Nat
    BY <2>2
  <2>4. CASE s[m] \in R
    <3>1. kept[m] = Append(kept[m - 1], s[m])
      BY <1>2, <2>4
    <3>2. Seen(m) = Seen(m - 1) \cup {m} /\ m \notin Seen(m - 1)
      BY <2>4, <1>1
    <3>3. /\ Places(kept[m], R) = Places(kept[m - 1], R) \cup {l + 1}
          /\ l + 1 \notin Places(kept[m - 1], R)
      BY <2>2, <2>3, <2>4, <3>1 DEF Places
    <3>4. Same(m - 1)
      BY <1>5
    <3>5. /\ IsFiniteSet(Seen(m)) /\ Cardinality(Seen(m)) = Cardinality(Seen(m - 1)) + 1
      <4> HIDE DEF Seen
      <4> QED
        BY <3>2, <3>4, FS_AddElement
    <3>6. /\ IsFiniteSet(Places(kept[m], R))
          /\ Cardinality(Places(kept[m], R)) = Cardinality(Places(kept[m - 1], R)) + 1
      <4> HIDE DEF l
      <4> QED
        BY <3>3, <3>4, FS_AddElement
    <3> QED
      BY <3>4, <3>5, <3>6
  <2>5. CASE s[m] \notin R
    <3>1. Seen(m) = Seen(m - 1)
      BY <2>5, <1>1
    <3>2. Places(kept[m], R) = Places(kept[m - 1], R)
      <4>1. kept[m] = kept[m - 1] \/ kept[m] = Append(kept[m - 1], s[m])
        BY <1>2
      <4> QED
        BY <2>2, <2>3, <2>5, <4>1 DEF Places
    <3>3. Same(m - 1)
      BY <1>5
    <3> HIDE DEF Seen
    <3> QED
      BY <3>1, <3>2, <3>3
  <2>6. Same(m)
    BY <2>4, <2>5
  <2> HIDE DEF Same
  <2> QED
    BY <2>1, <2>6
<1>6. 0..Len(s) \subseteq G
  <2> HIDE DEF G
  <2> QED
    BY <1>1, <1>4, <1>5, UpTo
<1>7. Same(Len(s))
  <2> HIDE DEF Same
  <2> QED
    BY <1>1, <1>6
<1>8. Seen(Len(s)) = Places(s, R)
  BY DEF Places
<1> QED
  BY <1>7, <1>8 DEF Without, kept

(* ------------------------ sums over a finite set ------------------------ *)

Chosen(s) == CHOOSE x \in s : TRUE

\* One step of the library's sum: the chosen element, and the sum of the others.
Add(f, g, s) == IF s = {} THEN 0 ELSE f[Chosen(s)] + g[s \ {Chosen(s)}]

\* Taking the chosen element out of a finite set.
LEMMA OneOut ==
  ASSUME NEW s, IsFiniteSet(s), s # {}
  PROVE  /\ Chosen(s) \in s /\ IsFiniteSet(s \ {Chosen(s)})
         /\ Cardinality(s) \in Nat \ {0} /\ Cardinality(s \ {Chosen(s)}) = Cardinality(s) - 1
<1>1. Chosen(s) \in s
  BY DEF Chosen
<1> QED
  BY <1>1, FS_RemoveElement, FS_EmptySet, FS_CardinalityType

\* The recursive sum exists over the subsets of a finite set, built up by their size.
LEMMA SumExists ==
  ASSUME NEW f, NEW S, IsFiniteSet(S)
  PROVE  \E g : g = [s \in SUBSET S |-> Add(f, g, s)]
<1> DEFINE Small(n) == {s \in SUBSET S : Cardinality(s) <= n}
           Upto(n) == \E g : g = [s \in Small(n) |-> Add(f, g, s)]
           N == Cardinality(S)
           G == {n \in 0..N : Upto(n)}
<1>1. N \in Nat /\ \A s \in SUBSET S : IsFiniteSet(s) /\ Cardinality(s) \in Nat /\ Cardinality(s) <= N
  BY FS_CardinalityType, FS_Subset
<1>2. 0 \in G
  <2>1. \A s \in Small(0) : s = {}
    BY <1>1, FS_EmptySet
  <2> DEFINE g == [s \in Small(0) |-> 0]
  <2>2. g = [s \in Small(0) |-> Add(f, g, s)]
    BY <2>1 DEF Add
  <2>3. Upto(0)
    <3> HIDE DEF g, Small
    <3> QED
      BY <2>2
  <2> HIDE DEF Upto
  <2> QED
    BY <1>1, <2>3
<1>3. ASSUME NEW m \in 1..N, m - 1 \in G PROVE m \in G
  <2>1. PICK g : g = [s \in Small(m - 1) |-> Add(f, g, s)]
    BY <1>3
  <2>2. \A s \in Small(m - 1) : g[s] = Add(f, g, s)
    BY <2>1
  <2> DEFINE next == [s \in Small(m) |-> IF s \in Small(m - 1) THEN g[s] ELSE Add(f, g, s)]
  <2>3. ASSUME NEW s \in Small(m) PROVE next[s] = Add(f, next, s)
    <3>1. s # {} => s \ {Chosen(s)} \in Small(m - 1) /\ s \ {Chosen(s)} \in Small(m)
      BY <1>1, OneOut
    <3>2. s # {} => next[s \ {Chosen(s)}] = g[s \ {Chosen(s)}]
      BY <3>1
    <3>3. Add(f, next, s) = Add(f, g, s)
      BY <3>2 DEF Add
    <3> QED
      BY <2>2, <3>3
  <2>4. next = [s \in Small(m) |-> Add(f, next, s)]
    BY <2>3
  <2>5. Upto(m)
    <3> HIDE DEF next, Small
    <3> QED
      BY <2>4
  <2> HIDE DEF Upto
  <2> QED
    BY <1>1, <2>5
<1>4. 0..N \subseteq G
  <2> HIDE DEF G, Upto, N
  <2> QED
    BY <1>1, <1>2, <1>3, UpTo
<1>5. PICK g : g = [s \in Small(N) |-> Add(f, g, s)]
  <2>1. N \in G
    <3> HIDE DEF G, N
    <3> QED
      BY <1>1, <1>4
  <2> QED
    BY <2>1
<1>6. Small(N) = SUBSET S
  BY <1>1
<1> QED
  BY <1>5, <1>6

\* The library's sum is the value of such a function.
LEMMA SumRecurs ==
  ASSUME NEW f, NEW S, IsFiniteSet(S)
  PROVE  \E g : SumFunctionOnSet(f, S) = g[S] /\ \A s \in SUBSET S : g[s] = Add(f, g, s)
<1> DEFINE g == CHOOSE g : g = [s \in SUBSET S |-> Add(f, g, s)]
<1>1. g = [s \in SUBSET S |-> Add(f, g, s)]
  <2>1. \E h : h = [s \in SUBSET S |-> Add(f, h, s)]
    BY SumExists
  <2> QED
    BY <2>1, Zenon
<1>2. SumFunctionOnSet(f, S) = g[S]
  BY DEF SumFunctionOnSet, FoldFunctionOnSet, MapThenFoldSet, Add, Chosen
<1> HIDE DEF g
<1>3. \A s \in SUBSET S : g[s] = Add(f, g, s)
  BY <1>1
<1> QED
  BY <1>2, <1>3

\* Two sums agree where the functions do, whatever sets they were started from.
LEMMA SumsAgree ==
  ASSUME NEW f, NEW h, NEW S, NEW T, IsFiniteSet(S), IsFiniteSet(T), NEW R, R \subseteq S \cap T,
         NEW g, \A s \in SUBSET S : g[s] = Add(f, g, s),
         NEW k, \A s \in SUBSET T : k[s] = Add(h, k, s),
         \A x \in R : f[x] = h[x]
  PROVE  g[R] = k[R]
<1> DEFINE N == Cardinality(R)
           G == {n \in 0..N : \A s \in SUBSET R : Cardinality(s) = n => g[s] = k[s]}
<1>1. N \in Nat /\ \A s \in SUBSET R : /\ IsFiniteSet(s) /\ Cardinality(s) \in Nat
                                        /\ s \in SUBSET S /\ s \in SUBSET T
  BY FS_CardinalityType, FS_Subset
<1>2. 0 \in G
  <2>1. \A s \in SUBSET R : Cardinality(s) = 0 => g[s] = k[s]
    BY <1>1, FS_EmptySet DEF Add
  <2> QED
    BY <1>1, <2>1
<1>3. ASSUME NEW m \in 1..N, m - 1 \in G PROVE m \in G
  <2>1. ASSUME NEW s \in SUBSET R, Cardinality(s) = m PROVE g[s] = k[s]
    <3>1. s # {}
      BY <1>1, <2>1, FS_EmptySet
    <3>2. Chosen(s) \in s /\ Cardinality(s \ {Chosen(s)}) = m - 1
      BY <1>1, <2>1, <3>1, OneOut
    <3>3. g[s \ {Chosen(s)}] = k[s \ {Chosen(s)}]
      BY <1>3, <3>2
    <3>4. g[s] = Add(f, g, s) /\ k[s] = Add(h, k, s) /\ f[Chosen(s)] = h[Chosen(s)]
      BY <1>1, <3>2
    <3> QED
      BY <3>1, <3>3, <3>4 DEF Add
  <2> QED
    BY <1>1, <2>1
<1>4. 0..N \subseteq G
  <2> HIDE DEF G, N
  <2> QED
    BY <1>1, <1>2, <1>3, UpTo
<1>5. N \in G
  <2> HIDE DEF G, N
  <2> QED
    BY <1>1, <1>4
<1> QED
  BY <1>5

\* The sum of an empty set, and of a set with its chosen element taken out.
LEMMA SumStep ==
  ASSUME NEW f, NEW S, IsFiniteSet(S)
  PROVE  SumFunctionOnSet(f, S) =
           IF S = {} THEN 0 ELSE f[Chosen(S)] + SumFunctionOnSet(f, S \ {Chosen(S)})
<1>1. PICK g : SumFunctionOnSet(f, S) = g[S] /\ \A s \in SUBSET S : g[s] = Add(f, g, s)
  BY SumRecurs
<1>2. g[S] = Add(f, g, S)
  BY <1>1
<1>3. CASE S # {}
  <2> DEFINE T == S \ {Chosen(S)}
  <2>1. IsFiniteSet(T) /\ T \subseteq S
    BY <1>3, OneOut
  <2>2. PICK k : SumFunctionOnSet(f, T) = k[T] /\ \A s \in SUBSET T : k[s] = Add(f, k, s)
    BY <2>1, SumRecurs
  <2>3. g[T] = k[T]
    <3> HIDE DEF T
    <3> QED
      BY <1>1, <2>1, <2>2, SumsAgree
  <2> QED
    BY <1>1, <1>2, <1>3, <2>2, <2>3 DEF Add
<1> QED
  BY <1>1, <1>2, <1>3 DEF Add

\* Sums of functions that agree on the set.
LEMMA SumSame ==
  ASSUME NEW f, NEW h, NEW S, IsFiniteSet(S)
  PROVE  (\A x \in S : f[x] = h[x]) => SumFunctionOnSet(f, S) = SumFunctionOnSet(h, S)
<1>1. PICK g : SumFunctionOnSet(f, S) = g[S] /\ \A s \in SUBSET S : g[s] = Add(f, g, s)
  BY SumRecurs
<1>2. PICK k : SumFunctionOnSet(h, S) = k[S] /\ \A s \in SUBSET S : k[s] = Add(h, k, s)
  BY SumRecurs
<1>3. (\A x \in S : f[x] = h[x]) => g[S] = k[S]
  BY <1>1, <1>2, SumsAgree
<1> QED
  BY <1>1, <1>2, <1>3

\* A sum of integers is one, and any element can be taken out of it.
LEMMA SumTakesOut ==
  ASSUME NEW f, NEW S, IsFiniteSet(S), \A x \in S : f[x] \in Int
  PROVE  /\ SumFunctionOnSet(f, S) \in Int
         /\ \A u \in S : SumFunctionOnSet(f, S) = f[u] + SumFunctionOnSet(f, S \ {u})
<1> DEFINE Sum(s) == SumFunctionOnSet(f, s)
           Fine(s) == Sum(s) \in Int /\ \A u \in s : Sum(s) = f[u] + Sum(s \ {u})
           N == Cardinality(S)
           G == {n \in 0..N : \A s \in SUBSET S : Cardinality(s) <= n => Fine(s)}
<1>1. N \in Nat /\ \A s \in SUBSET S : IsFiniteSet(s) /\ Cardinality(s) \in Nat
  BY FS_CardinalityType, FS_Subset
<1>2. ASSUME NEW s \in SUBSET S
      PROVE  Sum(s) = IF s = {} THEN 0 ELSE f[Chosen(s)] + Sum(s \ {Chosen(s)})
  <2>1. IsFiniteSet(s)
    BY <1>1
  <2> QED
    BY <2>1, SumStep
<1>3. ASSUME NEW s \in SUBSET S, NEW u \in s PROVE Cardinality(s \ {u}) = Cardinality(s) - 1
  <2>1. IsFiniteSet(s)
    BY <1>1
  <2> QED
    BY <2>1, FS_RemoveElement
<1> HIDE DEF Sum
<1>4. 0 \in G
  <2>1. ASSUME NEW s \in SUBSET S, Cardinality(s) <= 0 PROVE Fine(s)
    <3>1. s = {}
      BY <1>1, <2>1, FS_EmptySet
    <3> QED
      BY <1>2, <3>1
  <2> HIDE DEF Fine
  <2> QED
    BY <1>1, <2>1
<1>5. ASSUME NEW m \in 1..N, m - 1 \in G PROVE m \in G
  <2>1. \A s \in SUBSET S : Cardinality(s) <= m - 1 => Fine(s)
    BY <1>5
  <2>2. ASSUME NEW s \in SUBSET S, Cardinality(s) = m PROVE Fine(s)
    <3> DEFINE x == Chosen(s)
    <3>1. x \in s /\ s # {}
      <4>1. s # {}
        BY <1>1, <2>2, FS_EmptySet
      <4> QED
        BY <4>1 DEF Chosen
    <3>2. Sum(s) = f[x] + Sum(s \ {x})
      BY <1>2, <3>1
    <3> HIDE DEF x
    <3>3. \A u \in s : s \ {u} \in SUBSET S /\ Cardinality(s \ {u}) = m - 1
      BY <1>3, <2>2
    <3>4. \A u \in s : Fine(s \ {u})
      <4> HIDE DEF Fine
      <4> QED
        BY <2>1, <3>3
    <3>5. ASSUME NEW u \in s, u # x PROVE Sum(s) = f[u] + Sum(s \ {u})
      <4> DEFINE rest == (s \ {x}) \ {u}
      <4>1. Sum(s \ {x}) = f[u] + Sum(rest)
        BY <3>1, <3>4, <3>5
      <4>2. Sum(s \ {u}) = f[x] + Sum((s \ {u}) \ {x})
        BY <3>1, <3>4, <3>5
      <4>3. (s \ {u}) \ {x} = rest
        OBVIOUS
      <4>4. Sum(rest) \in Int
        <5>1. u \in s \ {x} /\ s \ {x} \in SUBSET S
          BY <3>5
        <5>2. Cardinality(rest) = Cardinality(s \ {x}) - 1
          BY <1>3, <5>1
        <5>3. rest \in SUBSET S /\ Cardinality(rest) <= m - 1
          BY <3>1, <3>3, <5>2
        <5>4. Fine(rest)
          <6> HIDE DEF Fine, rest
          <6> QED
            BY <2>1, <5>3
        <5> QED
          BY <5>4
      <4>5. f[x] \in Int /\ f[u] \in Int
        BY <3>1
      <4> QED
        <5>1. Sum(s \ {u}) = f[x] + Sum(rest)
          BY <4>2, <4>3
        <5> HIDE DEF rest
        <5> QED
          BY <3>2, <4>1, <4>4, <4>5, <5>1
    <3>6. Sum(s) \in Int
      BY <3>1, <3>2, <3>4
    <3> QED
      BY <3>1, <3>2, <3>5, <3>6
  <2>3. ASSUME NEW s \in SUBSET S, Cardinality(s) <= m PROVE Fine(s)
    <3> HIDE DEF Fine
    <3> QED
      BY <1>1, <2>1, <2>2, <2>3
  <2> HIDE DEF Fine
  <2> QED
    BY <1>1, <2>3
<1>6. 0..N \subseteq G
  <2> HIDE DEF G, N
  <2> QED
    BY <1>1, <1>4, <1>5, UpTo
<1>7. N \in G
  <2> HIDE DEF G, N
  <2> QED
    BY <1>1, <1>6
<1>8. Fine(S)
  <2> HIDE DEF Fine
  <2> QED
    BY <1>1, <1>7
<1> QED
  BY <1>8 DEF Sum
==============================================================================
