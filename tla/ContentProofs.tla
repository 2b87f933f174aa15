--------------------------- MODULE ContentProofs ---------------------------
(* Proofs about the operators of Content for texts of any length.            *)
(* ReplaceCRLF keeps some positions of a text: the argument numbers them in  *)
(* order, and shows the numbering to be one to one.  The folds and the loop  *)
(* of XWeightedLength are recursive functions: for each of them a solution   *)
(* of its equation is given outright (a sum of weights is the size of a set, *)
(* the words of a text are spelled by the ranks of their positions), and     *)
(* shown to be the only one by taking a least place where two would differ.  *)
EXTENDS Content, FiniteSetTheorems, SequenceTheorems, TLAPS

(* The number of k in S, and the element of S that has number i. *)
Rank(S, k) == Cardinality({j \in S : j <= k})
At(S, i) == CHOOSE k \in S : Cardinality({j \in S : j <= k}) = i

(* The positions that ReplaceCRLF keeps. *)
Kept(t) == {i \in DOMAIN t : ~(t[i] = "cr" /\ i < Len(t) /\ t[i + 1] = "lf")}

(* The positions of other symbols than line ends. *)
Text(t) == {i \in DOMAIN t : t[i] \notin NewLineSymbols}

----------------------------------------------------------------------------
(* Numbering a finite set of positions *)

(* The intervals from 1 are finite. *)
LEMMA Interval ==
  ASSUME NEW n \in Nat
  PROVE  IsFiniteSet(1 .. n) /\ Cardinality(1 .. n) = n
<1>1. 1 \in Int /\ n \in Int
  OBVIOUS
<1>2. IsFiniteSet(1 .. n) /\ Cardinality(1 .. n) = IF 1 > n THEN 0 ELSE n - 1 + 1
  BY <1>1, FS_Interval, Zenon
<1>3. QED
  BY <1>2

(* The positions of S are numbered from 1 to their number, in order. *)
LEMMA RankGrows ==
  ASSUME NEW n \in Nat, NEW S \in SUBSET (1 .. n)
  PROVE  /\ IsFiniteSet(S) /\ Cardinality(S) \in Nat
         /\ \A k \in S : Rank(S, k) \in 1 .. Cardinality(S)
         /\ \A k, m \in S : k < m => Rank(S, k) < Rank(S, m)
<1>1. IsFiniteSet(S) /\ Cardinality(S) \in Nat
  BY Interval, FS_Subset, FS_CardinalityType
<1>2. ASSUME NEW k \in S
      PROVE  /\ IsFiniteSet({j \in S : j <= k}) /\ Rank(S, k) \in Nat
             /\ Rank(S, k) <= Cardinality(S) /\ Rank(S, k) # 0
  <2> DEFINE D == {j \in S : j <= k}
  <2>1. D \in SUBSET S /\ k \in D
    OBVIOUS
  <2> HIDE DEF D
  <2>2. IsFiniteSet(D) /\ Cardinality(D) \in Nat /\ Cardinality(D) <= Cardinality(S)
    BY <1>1, <2>1, FS_Subset, FS_CardinalityType
  <2>3. Cardinality(D) # 0
    BY <2>1, <2>2, FS_EmptySet
  <2>4. QED
    BY <2>2, <2>3 DEF D, Rank
<1>3. ASSUME NEW k \in S, NEW m \in S, k < m PROVE Rank(S, k) < Rank(S, m)
  <2> DEFINE D == {j \in S : j <= k}
             E == {j \in S : j <= m}
  <2>0. \A j \in S : j \in Nat
    OBVIOUS
  <2>1. D \in SUBSET E /\ m \in E /\ m \notin D
    <3>1. \A j \in S : j <= k => j <= m
      BY <1>3, <2>0
    <3>2. m <= m /\ ~(m <= k)
      BY <1>3, <2>0
    <3>3. QED
      BY <1>3, <3>1, <3>2
  <2>2. IsFiniteSet(E) /\ Cardinality(E) \in Nat /\ Cardinality(D) \in Nat
    BY <1>2 DEF Rank
  <2> HIDE DEF D, E
  <2>3. Cardinality(D) <= Cardinality(E) /\ (Cardinality(D) = Cardinality(E) => D = E)
    BY <2>1, <2>2, FS_Subset
  <2>4. Cardinality(D) < Cardinality(E)
    BY <2>1, <2>2, <2>3
  <2>5. QED
    BY <2>4 DEF D, E, Rank
<1>4. ASSUME NEW k \in S PROVE Rank(S, k) \in 1 .. Cardinality(S)
  <2>1. Rank(S, k) \in Nat /\ Rank(S, k) <= Cardinality(S) /\ Rank(S, k) # 0
    BY <1>2
  <2>2. \A x, y \in Nat : x <= y /\ x # 0 => x \in 1 .. y
    OBVIOUS
  <2>3. QED
    BY <1>1, <2>1, <2>2, Zenon
<1>5. QED
  BY <1>1, <1>3, <1>4

(* Every number belongs to one position: At is the inverse of Rank. *)
LEMMA RankInverse ==
  ASSUME NEW n \in Nat, NEW S \in SUBSET (1 .. n)
  PROVE  /\ \A i \in 1 .. Cardinality(S) : At(S, i) \in S /\ Rank(S, At(S, i)) = i
         /\ \A k \in S : At(S, Rank(S, k)) = k
<1> DEFINE f == [k \in S |-> Rank(S, k)]
           c == Cardinality(S)
<1>1. c \in Nat /\ IsFiniteSet(1 .. c) /\ Cardinality(1 .. c) = c /\ IsFiniteSet(S)
  BY RankGrows, Interval
<1>2. \A k, m \in S : Rank(S, k) = Rank(S, m) => k = m
  <2>1. \A k \in S : k \in Nat
    OBVIOUS
  <2>2. \A k \in S : Rank(S, k) \in Nat
    <3>1. \A k \in S : Rank(S, k) \in 1 .. Cardinality(S)
      BY RankGrows
    <3>2. \A x : x \in 1 .. Cardinality(S) => x \in Nat
      BY <1>1
    <3>3. QED
      BY <3>1, <3>2, Zenon
  <2>3. \A k, m \in S : k < m => Rank(S, k) < Rank(S, m)
    BY RankGrows
  <2>4. QED
    BY <2>1, <2>2, <2>3
<1>3. f \in Injection(S, 1 .. c)
  <2>1. f \in [S -> 1 .. c]
    BY RankGrows
  <2>2. IsInjective(f)
    BY <1>2 DEF IsInjective
  <2>3. QED
    BY <2>1, <2>2 DEF Injection
<1>4. f \in Surjection(S, 1 .. c)
  <2> HIDE DEF f, c
  <2>1. Cardinality(S) = c
    BY DEF c
  <2>2. QED
    BY <1>1, <1>3, <2>1, FS_Injection
<1>5. \A i \in 1 .. c : \E k \in S : Rank(S, k) = i
  BY <1>4 DEF Surjection
<1>6. \A i \in 1 .. c : At(S, i) \in S /\ Rank(S, At(S, i)) = i
  BY <1>5 DEF At, Rank
<1>7. \A k \in S : At(S, Rank(S, k)) = k
  BY <1>2, <1>6, RankGrows
<1>8. QED
  BY <1>6, <1>7

----------------------------------------------------------------------------
(* Normalization *)

(* A text that NewLines returns has the symbols of the kept positions in     *)
(* their order, with an "\n" for each "\r" that is left.                     *)
LEMMA NewLinesFacts ==
  ASSUME NEW t \in Seq(Symbols)
  PROVE  /\ Kept(t) \in SUBSET (1 .. Len(t)) /\ Cardinality(Kept(t)) \in Nat
         /\ NewLines(t) \in Seq(Symbols) /\ Len(NewLines(t)) = Cardinality(Kept(t))
         /\ \A i \in 1 .. Cardinality(Kept(t)) :
              NewLines(t)[i] = IF t[At(Kept(t), i)] = "cr" THEN "lf" ELSE t[At(Kept(t), i)]
<1> DEFINE S == Kept(t)
           c == Cardinality(Kept(t))
           u == [i \in 1 .. c |-> t[At(S, i)]]
<1>1. S \in SUBSET (1 .. Len(t)) /\ Len(t) \in Nat
  BY DEF Kept
<1>2. c \in Nat
  BY <1>1, RankGrows
<1>3. ReplaceCRLF(t) = u
  BY DEF ReplaceCRLF, Kept, At
<1> HIDE DEF S, c
<1>4. \A i \in 1 .. c : At(S, i) \in 1 .. Len(t)
  BY <1>1, RankInverse DEF S, c
<1>5. \A i \in 1 .. c : t[At(S, i)] \in Symbols
  BY <1>4
<1>6. DOMAIN u = 1 .. c
  OBVIOUS
<1> DEFINE v == [i \in 1 .. c |-> IF t[At(S, i)] = "cr" THEN "lf" ELSE t[At(S, i)]]
<1>7. NewLines(t) = v
  BY <1>3, <1>6 DEF NewLines, ReplaceCR
<1>8. v \in [1 .. c -> Symbols]
  BY <1>5 DEF Symbols
<1>9. v \in Seq(Symbols) /\ Len(v) = c
  BY <1>2, <1>8
<1>10. QED
  BY <1>1, <1>2, <1>7, <1>9 DEF S, c

(* The same by the numbers of the kept positions. *)
LEMMA KeptSymbols ==
  ASSUME NEW t \in Seq(Symbols), NEW k \in Kept(t)
  PROVE  /\ Rank(Kept(t), k) \in 1 .. Len(NewLines(t))
         /\ NewLines(t)[Rank(Kept(t), k)] = IF t[k] = "cr" THEN "lf" ELSE t[k]
<1>1. Kept(t) \in SUBSET (1 .. Len(t)) /\ Len(t) \in Nat
  BY NewLinesFacts
<1>2. Rank(Kept(t), k) \in 1 .. Cardinality(Kept(t)) /\ At(Kept(t), Rank(Kept(t), k)) = k
  BY <1>1, RankGrows, RankInverse
<1>3. QED
  BY <1>2, NewLinesFacts

(* And every position of the result comes from a kept one. *)
LEMMA FromKept ==
  ASSUME NEW t \in Seq(Symbols), NEW i \in 1 .. Len(NewLines(t))
  PROVE  \E k \in Kept(t) : i = Rank(Kept(t), k)
<1>1. Kept(t) \in SUBSET (1 .. Len(t)) /\ Len(t) \in Nat /\ i \in 1 .. Cardinality(Kept(t))
  BY NewLinesFacts
<1>2. At(Kept(t), i) \in Kept(t) /\ Rank(Kept(t), At(Kept(t), i)) = i
  BY <1>1, RankInverse
<1>3. QED
  BY <1>2

(* No "\r" is left. *)
LEMMA NoCR ==
  ASSUME NEW t \in Seq(Symbols), NEW i \in 1 .. Len(NewLines(t))
  PROVE  NewLines(t)[i] # "cr"
<1>1. PICK k \in Kept(t) : i = Rank(Kept(t), k)
  BY FromKept
<1>2. QED
  BY <1>1, KeptSymbols

(* A text without "\r" is left as it is. *)
LEMMA WithoutCR ==
  ASSUME NEW t \in Seq(Symbols), \A i \in 1 .. Len(t) : t[i] # "cr"
  PROVE  NewLines(t) = t
<1> DEFINE n == Len(t)
           v == NewLines(t)
<1>0. n \in Nat /\ DOMAIN t = 1 .. n
  OBVIOUS
<1>1. Kept(t) = 1 .. n
  BY DEF Kept
<1>2. Cardinality(1 .. n) = n
  BY <1>0, Interval
<1>3. ASSUME NEW k \in 1 .. n PROVE Rank(1 .. n, k) = k
  <2>1. {j \in 1 .. n : j <= k} = 1 .. k /\ k \in Nat
    BY <1>0
  <2>2. QED
    BY <2>1, Interval DEF Rank
<1>4. ASSUME NEW k \in 1 .. n PROVE v[k] = t[k]
  BY <1>1, <1>3, <1>4, KeptSymbols
<1>5. v \in Seq(Symbols) /\ Len(v) = n
  BY <1>1, <1>2, NewLinesFacts
<1>6. QED
  BY <1>0, <1>4, <1>5

(* A symbol that is not a line end is in the result if it was in the text. *)
LEMMA SameSymbols ==
  ASSUME NEW t \in Seq(Symbols), NEW s \in Symbols \ NewLineSymbols
  PROVE  Contains(NewLines(t), s) <=> Contains(t, s)
<1>0. s # "cr" /\ s # "lf"
  BY DEF NewLineSymbols
<1>1. ASSUME Contains(t, s) PROVE Contains(NewLines(t), s)
  <2>1. PICK k \in 1 .. Len(t) : t[k] = s
    BY <1>1 DEF Contains
  <2>2. k \in Kept(t)
    BY <1>0, <2>1 DEF Kept
  <2>3. QED
    BY <1>0, <2>1, <2>2, KeptSymbols DEF Contains
<1>2. ASSUME Contains(NewLines(t), s) PROVE Contains(t, s)
  <2>1. PICK i \in 1 .. Len(NewLines(t)) : NewLines(t)[i] = s
    BY <1>2 DEF Contains
  <2>2. PICK k \in Kept(t) : i = Rank(Kept(t), k)
    BY FromKept
  <2>3. t[k] = s
    BY <1>0, <2>1, <2>2, KeptSymbols
  <2>4. k \in 1 .. Len(t)
    BY NewLinesFacts
  <2>5. QED
    BY <2>3, <2>4 DEF Contains
<1>3. QED
  BY <1>1, <1>2

(* Normalized or not, a text is blank or not. *)
LEMMA BlankSymbols ==
  ASSUME NEW t \in Seq(Symbols)
  PROVE  Blank(t) <=> \A s \in Symbols \ {"cr", "lf", "sp", "nb"} : ~Contains(t, s)
<1>1. DOMAIN t = 1 .. Len(t) /\ \A i \in 1 .. Len(t) : t[i] \in Symbols
  OBVIOUS
<1>2. Blank(t) <=> \A i \in 1 .. Len(t) : t[i] \in {"cr", "lf", "sp", "nb"}
  BY <1>1 DEF Blank, ToSet
<1>3. QED
  BY <1>1, <1>2 DEF Contains

(* Done again, as ApprovalHash does with the stored text, NewLines changes   *)
(* nothing, and NormalizeContent accepts a text after it exactly if it would *)
(* have before: for texts of any length.                                     *)
THEOREM NormalizationIsStable ==
  ASSUME NEW t \in Seq(Symbols)
  PROVE  /\ NewLines(NewLines(t)) = NewLines(t)
         /\ Accepted(NewLines(t)) <=> Accepted(t)
<1>1. NewLines(t) \in Seq(Symbols)
  BY NewLinesFacts
<1>2. NewLines(NewLines(t)) = NewLines(t)
  BY <1>1, NoCR, WithoutCR
<1>3. \A s \in Symbols \ NewLineSymbols : Contains(NewLines(t), s) <=> Contains(t, s)
  BY SameSymbols
<1>4. Valid(NewLines(t)) <=> Valid(t)
  BY <1>3 DEF Valid, Symbols, NewLineSymbols
<1>5. Contains(NewLines(t), "nul") <=> Contains(t, "nul")
  BY <1>3 DEF Symbols, NewLineSymbols
<1>6. Blank(NewLines(t)) <=> Blank(t)
  BY <1>1, <1>3, BlankSymbols DEF NewLineSymbols
<1>7. QED
  BY <1>2, <1>4, <1>5, <1>6 DEF Accepted

(* The positions of a kind that are all kept are numbered one to one. *)
LEMMA RankMaps ==
  ASSUME NEW t \in Seq(Symbols), NEW A \in SUBSET Kept(t), NEW B,
         NEW f, f = [k \in A |-> Rank(Kept(t), k)],
         \A k \in A : Rank(Kept(t), k) \in B,
         \A i \in B : \E k \in A : i = Rank(Kept(t), k)
  PROVE  f \in Bijection(A, B) /\ \A k, m \in A : k < m => f[k] < f[m]
<1>1. Kept(t) \in SUBSET (1 .. Len(t)) /\ Len(t) \in Nat
  BY NewLinesFacts
<1>2. \A k, m \in A : k < m => f[k] < f[m]
  BY <1>1, RankGrows
<1>3. \A k, m \in A : f[k] = f[m] => k = m
  <2>1. \A k \in A : At(Kept(t), Rank(Kept(t), k)) = k
    BY <1>1, RankInverse
  <2>2. \A k \in A : f[k] = Rank(Kept(t), k)
    OBVIOUS
  <2>3. SUFFICES ASSUME NEW k \in A, NEW m \in A, f[k] = f[m]
                 PROVE  k = m
    OBVIOUS
  <2>4. At(Kept(t), f[k]) = k /\ At(Kept(t), f[m]) = m
    BY <2>1, <2>2, Zenon
  <2>5. QED
    BY <2>3, <2>4, Zenon
<1>4. f \in Injection(A, B)
  BY <1>3 DEF Injection, IsInjective
<1>5. f \in Surjection(A, B)
  BY DEF Surjection
<1>6. QED
  BY <1>2, <1>4, <1>5 DEF Bijection

(* NewLines changes a text in nothing but how its lines end, for texts of    *)
(* any length: there are as many line ends as before, and the other symbols  *)
(* are the same ones in the same order.                                      *)
THEOREM NormalizationKeepsTheText ==
  ASSUME NEW t \in Seq(Symbols)
  PROVE  /\ Cardinality(Breaks(NewLines(t))) = Cardinality(Breaks(t))
         /\ \E f \in Bijection(Text(t), Text(NewLines(t))) :
              /\ \A k, m \in Text(t) : k < m => f[k] < f[m]
              /\ \A k \in Text(t) : NewLines(t)[f[k]] = t[k]
<1> DEFINE v == NewLines(t)
           S == Kept(t)
<1>1. /\ v \in Seq(Symbols) /\ DOMAIN v = 1 .. Len(v)
      /\ S \in SUBSET (1 .. Len(t)) /\ Len(t) \in Nat /\ DOMAIN t = 1 .. Len(t)
  BY NewLinesFacts
<1>2. \A k \in S : Rank(S, k) \in 1 .. Len(v) /\ v[Rank(S, k)] = IF t[k] = "cr" THEN "lf" ELSE t[k]
  BY KeptSymbols
<1>3. \A i \in 1 .. Len(v) : \E k \in S : i = Rank(S, k)
  BY FromKept
<1>4. \A i \in 1 .. Len(v) : v[i] # "cr"
  BY NoCR
<1>5. Breaks(t) = {k \in S : t[k] \in NewLineSymbols}
  BY <1>1 DEF Breaks, Kept, NewLineSymbols
<1>6. Breaks(v) = {i \in 1 .. Len(v) : v[i] = "lf"}
  BY <1>1, <1>4 DEF Breaks
<1>7. Text(t) = {k \in S : t[k] \notin NewLineSymbols}
  BY <1>1 DEF Text, Kept, NewLineSymbols
<1>8. Text(v) = {i \in 1 .. Len(v) : v[i] # "lf"}
  BY <1>1, <1>4 DEF Text, NewLineSymbols
<1> HIDE DEF v, S
<1>9. Cardinality(Breaks(v)) = Cardinality(Breaks(t))
  <2> DEFINE f == [k \in Breaks(t) |-> Rank(S, k)]
  <2>1. \A k \in Breaks(t) : Rank(S, k) \in Breaks(v)
    BY <1>2, <1>5, <1>6 DEF NewLineSymbols
  <2>2. \A i \in Breaks(v) : \E k \in Breaks(t) : i = Rank(S, k)
    BY <1>2, <1>3, <1>5, <1>6 DEF NewLineSymbols
  <2>3. Breaks(t) \in SUBSET S
    BY <1>5
  <2>4. f \in Bijection(Breaks(t), Breaks(v))
    BY <2>1, <2>2, <2>3, RankMaps DEF S
  <2>5. IsFiniteSet(Breaks(t))
    BY <1>1, <2>3, RankGrows, FS_Subset
  <2>6. QED
    BY <2>4, <2>5, FS_Bijection DEF ExistsBijection
<1>10. \E f \in Bijection(Text(t), Text(v)) :
         /\ \A k, m \in Text(t) : k < m => f[k] < f[m]
         /\ \A k \in Text(t) : v[f[k]] = t[k]
  <2> DEFINE f == [k \in Text(t) |-> Rank(S, k)]
  <2>1. \A k \in Text(t) : Rank(S, k) \in Text(v) /\ v[Rank(S, k)] = t[k]
    BY <1>2, <1>7, <1>8 DEF NewLineSymbols
  <2>2. \A i \in Text(v) : \E k \in Text(t) : i = Rank(S, k)
    BY <1>2, <1>3, <1>7, <1>8 DEF NewLineSymbols
  <2>3. Text(t) \in SUBSET S
    BY <1>7
  <2>4. f \in Bijection(Text(t), Text(v)) /\ \A k, m \in Text(t) : k < m => f[k] < f[m]
    BY <2>1, <2>2, <2>3, RankMaps DEF S
  <2>5. QED
    BY <2>1, <2>4
<1>11. QED
  BY <1>9, <1>10 DEF v

----------------------------------------------------------------------------
(* Induction and sums *)

(* Induction in the form of a least counterexample. *)
LEMMA LeastNumber ==
  ASSUME NEW T \in SUBSET Nat, T # {}
  PROVE  \E n \in T : \A m \in T : n <= m
<1> DEFINE R == OpToRel(<, Nat)
<1>1. IsWellFoundedOn(R, Nat)
  BY NatLessThanWellFounded
<1>2. \A m, n \in Nat : m < n => <<m, n>> \in R
  BY DEF OpToRel
<1> HIDE DEF R
<1>3. T \subseteq Nat
  OBVIOUS
<1>4. \E n \in T : \A m \in T : ~(<<m, n>> \in R)
  BY <1>1, <1>3, WFMin
<1>5. PICK n \in T : \A m \in T : ~(<<m, n>> \in R)
  BY <1>4
<1>6. ASSUME NEW m \in T PROVE n <= m
  <2>1. m \in Nat /\ n \in Nat
    OBVIOUS
  <2>2. ~(m < n)
    BY <1>2, <1>5, <2>1, Zenon
  <2>3. QED
    BY <2>1, <2>2
<1>7. QED
  BY <1>6

(* A sum of weights as a number of things: of position i there are w[i]. *)
Most == 23
Units(w, S) == {u \in S \X (1 .. Most) : u[2] <= w[u[1]]}
Total(w, S) == Cardinality(Units(w, S))

(* Totals are numbers. *)
LEMMA TotalType ==
  ASSUME NEW S, IsFiniteSet(S), NEW w
  PROVE  IsFiniteSet(Units(w, S)) /\ Total(w, S) \in Nat
<1>1. IsFiniteSet(1 .. Most)
  BY Interval DEF Most
<1>2. IsFiniteSet(S \X (1 .. Most))
  BY <1>1, FS_Product
<1>3. Units(w, S) \in SUBSET (S \X (1 .. Most))
  BY DEF Units
<1>4. QED
  BY <1>2, <1>3, FS_Subset, FS_CardinalityType DEF Total

(* Nothing weighs nothing. *)
LEMMA TotalEmpty ==
  ASSUME NEW w
  PROVE  Total(w, {}) = 0
<1>1. Units(w, {}) = {}
  BY DEF Units
<1>2. QED
  BY <1>1, FS_EmptySet DEF Total

(* The positions of two disjoint sets weigh what each set weighs. *)
LEMMA TotalUnion ==
  ASSUME NEW A, NEW B, IsFiniteSet(A), IsFiniteSet(B), A \cap B = {}, NEW w
  PROVE  Total(w, A \cup B) = Total(w, A) + Total(w, B)
<1>1. Units(w, A \cup B) = Units(w, A) \cup Units(w, B)
  BY DEF Units
<1>2. Units(w, A) \cap Units(w, B) = {}
  BY DEF Units
<1>3. /\ IsFiniteSet(Units(w, A)) /\ Total(w, A) \in Nat
      /\ IsFiniteSet(Units(w, B)) /\ Total(w, B) \in Nat
  BY TotalType
<1>4. Total(w, A \cup B) = Total(w, A) + Total(w, B) - Cardinality({})
  <2>1. Cardinality(Units(w, A) \cup Units(w, B)) =
          Cardinality(Units(w, A)) + Cardinality(Units(w, B)) - Cardinality(Units(w, A) \cap Units(w, B))
    BY <1>3, FS_Union
  <2>2. QED
    BY <1>1, <1>2, <2>1, Zenon DEF Total
<1>5. QED
  BY <1>3, <1>4, FS_EmptySet

(* Positions of one weight weigh it as often as there are positions. *)
LEMMA TotalUniform ==
  ASSUME NEW A, IsFiniteSet(A), NEW w, NEW c \in 0 .. Most, \A i \in A : w[i] = c
  PROVE  Total(w, A) = Cardinality(A) * c
<1>1. Units(w, A) = A \X (1 .. c)
  BY DEF Units, Most
<1>2. c \in Nat
  BY DEF Most
<1>3. IsFiniteSet(1 .. c) /\ Cardinality(1 .. c) = c
  BY <1>2, Interval
<1>4. QED
  BY <1>1, <1>3, FS_Product DEF Total

(* Positions with equal weights weigh the same. *)
LEMMA TotalSame ==
  ASSUME NEW S, NEW w, NEW x, \A i \in S : w[i] = x[i]
  PROVE  Total(w, S) = Total(x, S)
BY DEF Total, Units

(* Positions that are mapped one to one to positions of equal weight weigh   *)
(* no more than these, and as much if these are all.                         *)
LEMMA TotalMapped ==
  ASSUME NEW A, NEW B, IsFiniteSet(B), NEW f \in Injection(A, B), NEW w, NEW x,
         \A i \in A : w[i] = x[f[i]]
  PROVE  /\ Total(w, A) \in Nat /\ Total(x, B) \in Nat
         /\ Total(w, A) <= Total(x, B)
         /\ f \in Surjection(A, B) => Total(w, A) = Total(x, B)
<1> DEFINE g == [u \in Units(w, A) |-> <<f[u[1]], u[2]>>]
<1>1. f \in [A -> B] /\ \A i, j \in A : f[i] = f[j] => i = j
  BY DEF Injection, IsInjective
<1>2. g \in Injection(Units(w, A), Units(x, B))
  <2>1. g \in [Units(w, A) -> Units(x, B)]
    BY <1>1 DEF Units
  <2>2. IsInjective(g)
    BY <1>1 DEF Units, IsInjective
  <2>3. QED
    BY <2>1, <2>2 DEF Injection
<1>3. ASSUME f \in Surjection(A, B) PROVE g \in Surjection(Units(w, A), Units(x, B))
  <2>1. \A b \in B : \E a \in A : f[a] = b
    BY <1>3 DEF Surjection
  <2>2. ASSUME NEW u \in Units(x, B) PROVE \E z \in Units(w, A) : g[z] = u
    <3>1. u = <<u[1], u[2]>> /\ u[1] \in B /\ u[2] \in 1 .. Most /\ u[2] <= x[u[1]]
      BY DEF Units
    <3>2. PICK a \in A : f[a] = u[1]
      BY <2>1, <3>1
    <3>3. <<a, u[2]>> \in Units(w, A)
      BY <3>1, <3>2 DEF Units
    <3>4. g[<<a, u[2]>>] = u
      BY <3>1, <3>2, <3>3
    <3>5. QED
      BY <3>3, <3>4
  <2>3. g \in [Units(w, A) -> Units(x, B)]
    BY <1>2 DEF Injection
  <2>4. QED
    BY <2>2, <2>3 DEF Surjection
<1> HIDE DEF g
<1>4. IsFiniteSet(Units(x, B)) /\ Total(x, B) \in Nat
  BY TotalType
<1>5. /\ IsFiniteSet(Units(w, A)) /\ Total(w, A) <= Total(x, B)
      /\ Total(w, A) = Total(x, B) <=> g \in Surjection(Units(w, A), Units(x, B))
  BY <1>2, <1>4, FS_Injection DEF Total
<1>6. QED
  BY <1>3, <1>4, <1>5, FS_CardinalityType DEF Total

(* The step of a fold that adds up weights, and its result. *)
Pick(s) == CHOOSE x \in s : TRUE
Adds(it, w, S) ==
  it = [s \in SUBSET S |-> IF s = {} THEN 0 ELSE it[s \ {Pick(s)}] + w[Pick(s)]]

(* The totals are a solution of the equation that defines the fold ... *)
LEMMA TotalAdds ==
  ASSUME NEW S, IsFiniteSet(S), NEW w, \A i \in S : w[i] \in 0 .. Most
  PROVE  Adds([s \in SUBSET S |-> Total(w, s)], w, S)
<1> DEFINE f == [s \in SUBSET S |-> Total(w, s)]
<1>1. ASSUME NEW s \in SUBSET S, s # {}
      PROVE  Total(w, s) = f[s \ {Pick(s)}] + w[Pick(s)]
  <2> DEFINE x == Pick(s)
             r == s \ {x}
  <2>1. x \in s
    BY <1>1 DEF Pick
  <2> HIDE DEF x
  <2>2. r \in SUBSET S /\ s = r \cup {x} /\ r \cap {x} = {}
    BY <2>1
  <2>3. IsFiniteSet(r) /\ IsFiniteSet({x}) /\ Cardinality({x}) = 1
    BY <2>2, FS_Subset, FS_Singleton
  <2>4. w[x] \in 0 .. Most /\ w[x] \in Nat
    BY <2>1 DEF Most
  <2>5. Total(w, {x}) = Cardinality({x}) * w[x]
    BY <2>3, <2>4, TotalUniform
  <2>6. Total(w, {x}) = w[x]
    BY <2>3, <2>4, <2>5
  <2>7. f[r] = Total(w, r)
    BY <2>2
  <2> HIDE DEF r, f
  <2>8. Total(w, s) = Total(w, r) + Total(w, {x})
    BY <2>2, <2>3, TotalUnion
  <2>9. QED
    BY <2>6, <2>7, <2>8 DEF r, x
<1>2. \A s \in SUBSET S : f[s] = IF s = {} THEN 0 ELSE f[s \ {Pick(s)}] + w[Pick(s)]
  BY <1>1, TotalEmpty
<1>3. f = [s \in SUBSET S |-> IF s = {} THEN 0 ELSE f[s \ {Pick(s)}] + w[Pick(s)]]
  BY <1>2
<1>4. QED
  BY <1>3 DEF Adds

(* ... and the only one: of two solutions, take a smallest set on which they *)
(* differ.                                                                   *)
LEMMA AddsOnce ==
  ASSUME NEW S, IsFiniteSet(S), NEW w, NEW f, NEW g, Adds(f, w, S), Adds(g, w, S)
  PROVE  \A s \in SUBSET S : f[s] = g[s]
<1> DEFINE D == {s \in SUBSET S : f[s] # g[s]}
           N == {n \in Nat : \E s \in D : n = Cardinality(s)}
<1>1. SUFFICES ASSUME NEW d \in D PROVE FALSE
  OBVIOUS
<1>2. \A s \in SUBSET S : IsFiniteSet(s) /\ Cardinality(s) \in Nat
  BY FS_Subset, FS_CardinalityType
<1>3. N \in SUBSET Nat /\ N # {}
  BY <1>1, <1>2
<1>4. PICK n \in N : \A m \in N : n <= m
  <2> HIDE DEF N
  <2>1. QED
    BY <1>3, LeastNumber
<1>5. PICK s \in D : n = Cardinality(s)
  OBVIOUS
<1>6. s \in SUBSET S /\ f[s] # g[s]
  OBVIOUS
<1>7. /\ f[s] = IF s = {} THEN 0 ELSE f[s \ {Pick(s)}] + w[Pick(s)]
      /\ g[s] = IF s = {} THEN 0 ELSE g[s \ {Pick(s)}] + w[Pick(s)]
  BY <1>6 DEF Adds
<1>8. s # {}
  BY <1>6, <1>7
<1> DEFINE r == s \ {Pick(s)}
<1>9. r \in SUBSET S /\ Pick(s) \in s
  BY <1>6, <1>8 DEF Pick
<1>10. Cardinality(r) = Cardinality(s) - 1 /\ Cardinality(r) \in Nat /\ Cardinality(s) \in Nat
  BY <1>2, <1>6, <1>9, FS_RemoveElement
<1>11. f[r] # g[r]
  BY <1>6, <1>7, <1>8
<1>12. Cardinality(r) \in N
  BY <1>9, <1>10, <1>11
<1> HIDE DEF N, r
<1>13. n <= Cardinality(r)
  BY <1>4, <1>12
<1>14. QED
  BY <1>5, <1>10, <1>13

(* So the fold is the total. *)
LEMMA FoldIsTotal ==
  ASSUME NEW S, IsFiniteSet(S), NEW w, \A i \in S : w[i] \in 0 .. Most, NEW it, Adds(it, w, S)
  PROVE  it[S] = Total(w, S)
<1> DEFINE f == [s \in SUBSET S |-> Total(w, s)]
<1>1. f[S] = Total(w, S) /\ S \in SUBSET S
  OBVIOUS
<1>2. Adds(f, w, S)
  BY TotalAdds
<1> HIDE DEF f
<1>3. it[S] = f[S]
  BY <1>1, <1>2, AddsOnce
<1>4. QED
  BY <1>1, <1>3

ByteLength(c) == CASE c \in {"nb", "w"} -> 3 [] c = "url" -> 8 [] OTHER -> 1

(* Bytes of a text. *)
LEMMA BytesAreTotal ==
  ASSUME NEW t \in Seq(Symbols)
  PROVE  Bytes(t) = Total([i \in DOMAIN t |-> ByteLength(t[i])], DOMAIN t)
<1> DEFINE S == DOMAIN t
           w == [i \in S |-> ByteLength(t[i])]
           Eq(g) == g = [s \in SUBSET S |->
                      IF s = {} THEN 0 ELSE g[s \ {Pick(s)}] + ByteLength(t[Pick(s)])]
           it == CHOOSE g : Eq(g)
<1>1. Bytes(t) = it[S]
  BY DEF Bytes, FoldSeq, FoldFunction, FoldFunctionOnSet, MapThenFoldSet, ByteLength, Pick
<1>2. ASSUME NEW g PROVE Eq(g) <=> Adds(g, w, S)
  <2>1. \A s \in SUBSET S : s # {} => Pick(s) \in S
    BY DEF Pick
  <2>2. \A s \in SUBSET S : s # {} => w[Pick(s)] = ByteLength(t[Pick(s)])
    BY <2>1
  <2> HIDE DEF w, S
  <2>3. [s \in SUBSET S |-> IF s = {} THEN 0 ELSE g[s \ {Pick(s)}] + ByteLength(t[Pick(s)])]
          = [s \in SUBSET S |-> IF s = {} THEN 0 ELSE g[s \ {Pick(s)}] + w[Pick(s)]]
    BY <2>2
  <2>4. QED
    BY <2>3 DEF Adds
<1>3. IsFiniteSet(S) /\ \A i \in S : w[i] \in 0 .. Most
  BY Interval DEF ByteLength, Most
<1> HIDE DEF S, w
<1>4. \E g : Adds(g, w, S)
  BY <1>3, TotalAdds
<1> HIDE DEF Eq
<1>5. Eq(it)
  BY <1>2, <1>4
<1>6. QED
  BY <1>1, <1>2, <1>3, <1>5, FoldIsTotal DEF w, S

(* The weight of each position by itself, as xRuneWeight counts it. *)
Runes(t) == [i \in DOMAIN t |-> RuneWeight(t[i])]

(* The weights are within the bound. *)
LEMMA RuneBound ==
  ASSUME NEW t \in Seq(Symbols)
  PROVE  /\ IsFiniteSet(DOMAIN t) /\ DOMAIN t = 1 .. Len(t) /\ Len(t) \in Nat
         /\ \A i \in DOMAIN t : Runes(t)[i] = RuneWeight(t[i]) /\ Runes(t)[i] \in 0 .. Most
BY Interval DEF Runes, RuneWeight, Most

(* What both folds over runes come to. *)
LEMMA RuneFold ==
  ASSUME NEW t \in Seq(Symbols), NEW S \in SUBSET DOMAIN t
  PROVE  (CHOOSE g : g = [s \in SUBSET S |->
            IF s = {} THEN 0 ELSE g[s \ {Pick(s)}] + RuneWeight(t[Pick(s)])])[S] = Total(Runes(t), S)
<1> DEFINE w == Runes(t)
           Eq(g) == g = [s \in SUBSET S |->
                      IF s = {} THEN 0 ELSE g[s \ {Pick(s)}] + RuneWeight(t[Pick(s)])]
           it == CHOOSE g : Eq(g)
<1>1. ASSUME NEW g PROVE Eq(g) <=> Adds(g, w, S)
  <2>1. \A s \in SUBSET S : s # {} => Pick(s) \in DOMAIN t
    BY DEF Pick
  <2>2. \A s \in SUBSET S : s # {} => w[Pick(s)] = RuneWeight(t[Pick(s)])
    BY <2>1, RuneBound
  <2> HIDE DEF w
  <2>3. [s \in SUBSET S |-> IF s = {} THEN 0 ELSE g[s \ {Pick(s)}] + RuneWeight(t[Pick(s)])]
          = [s \in SUBSET S |-> IF s = {} THEN 0 ELSE g[s \ {Pick(s)}] + w[Pick(s)]]
    BY <2>2
  <2>4. QED
    BY <2>3 DEF Adds
<1>2. IsFiniteSet(S) /\ \A i \in S : w[i] \in 0 .. Most
  BY RuneBound, FS_Subset
<1> HIDE DEF w
<1>3. \E g : Adds(g, w, S)
  BY <1>2, TotalAdds
<1> HIDE DEF Eq
<1>4. Eq(it)
  BY <1>1, <1>3
<1>5. it[S] = Total(w, S)
  BY <1>1, <1>2, <1>4, FoldIsTotal
<1>6. QED
  BY <1>5 DEF Eq, w

(* xRuneWeight of a text, and of a slice of it. *)
LEMMA RuneWeightIsTotal ==
  ASSUME NEW t \in Seq(Symbols)
  PROVE  xRuneWeight(t) = Total(Runes(t), DOMAIN t)
<1>1. xRuneWeight(t) = (CHOOSE g : g = [s \in SUBSET DOMAIN t |->
            IF s = {} THEN 0 ELSE g[s \ {Pick(s)}] + RuneWeight(t[Pick(s)])])[DOMAIN t]
  BY DEF xRuneWeight, FoldSeq, FoldFunction, FoldFunctionOnSet, MapThenFoldSet, Pick
<1>2. QED
  BY <1>1, RuneFold

(* Slices are weighed where they are. *)
LEMMA SliceWeight ==
  ASSUME NEW t \in Seq(Symbols), NEW a \in Nat, NEW b \in Nat, 1 <= a, a <= b + 1, b <= Len(t)
  PROVE  xRuneWeight(SubSeq(t, a, b)) = Total(Runes(t), a .. b)
<1> DEFINE v == SubSeq(t, a, b)
           n == b - a + 1
           f == [i \in 1 .. n |-> a + i - 1]
<1>1. a \in Int /\ b \in Int /\ \A i \in a .. b : t[i] \in Symbols
  OBVIOUS
<1>2. /\ v \in Seq(Symbols)
      /\ Len(v) = IF a <= b THEN b - a + 1 ELSE 0
      /\ \A i \in 1 .. b - a + 1 : v[i] = t[a + i - 1]
  BY <1>1, SubSeqProperties
<1>3. Len(v) = n /\ n \in Nat /\ \A i \in 1 .. n : v[i] = t[f[i]]
  BY <1>2
<1> HIDE DEF v
<1>4. DOMAIN v = 1 .. n
  BY <1>2, <1>3
<1>5. f \in [1 .. n -> a .. b] /\ \A i, j \in 1 .. n : f[i] = f[j] => i = j
  OBVIOUS
<1>6. \A k \in a .. b : \E i \in 1 .. n : f[i] = k
  <2>1. \A k \in a .. b : k - a + 1 \in 1 .. n /\ a + (k - a + 1) - 1 = k
    OBVIOUS
  <2>2. QED
    BY <2>1
<1>7. f \in Injection(1 .. n, a .. b) /\ f \in Surjection(1 .. n, a .. b)
  BY <1>5, <1>6 DEF Injection, IsInjective, Surjection
<1>8. \A k \in a .. b : k \in DOMAIN t
  OBVIOUS
<1>9. \A i \in 1 .. n : Runes(v)[i] = Runes(t)[f[i]]
  BY <1>2, <1>3, <1>4, <1>5, <1>8, RuneBound
<1>10. IsFiniteSet(a .. b)
  BY <1>1, FS_Interval
<1> DEFINE A == 1 .. n
           B == a .. b
<1>11. Total(Runes(v), A) = Total(Runes(t), B)
  <2>1. f \in Injection(A, B) /\ f \in Surjection(A, B) /\ IsFiniteSet(B)
    BY <1>7, <1>10
  <2>2. \A i \in A : Runes(v)[i] = Runes(t)[f[i]]
    BY <1>9
  <2> HIDE DEF f, A, B
  <2>3. QED
    BY <2>1, <2>2, TotalMapped
<1>12. QED
  BY <1>2, <1>4, <1>11, RuneWeightIsTotal DEF v

----------------------------------------------------------------------------
(* URLs *)

(* The symbols that belong to a URL which starts at a or later, and what a   *)
(* text weighs from there on: 23 for the first symbol of each run of them,   *)
(* nothing for the others of the run.                                        *)
UrlFrom(t, a) ==
  {i \in a .. Len(t) :
     \E k \in a .. i :
       t[k] = "url" /\ k < Len(t) /\ \A j \in (k + 1 .. i) \cup {k + 1} : t[j] \notin Space}

WeightsFrom(t, a) ==
  [i \in a .. Len(t) |->
     IF i \in UrlFrom(t, a) THEN (IF i - 1 \in UrlFrom(t, a) THEN 0 ELSE 23) ELSE RuneWeight(t[i])]

(* What Min returns. *)
LEMMA MinFacts ==
  ASSUME NEW S \in SUBSET Nat, S # {}
  PROVE  Min(S) \in S /\ \A x \in S : Min(S) <= x
BY LeastNumber DEF Min

(* From a place with no URL behind it on, every symbol has its own weight. *)
LEMMA NoUrl ==
  ASSUME NEW t \in Seq(Symbols), NEW a \in 1 .. Len(t) + 1, Starts(t, a) = {}
  PROVE  UrlFrom(t, a) = {}
<1>1. Len(t) \in Nat
  OBVIOUS
<1>2. SUFFICES ASSUME NEW i \in UrlFrom(t, a) PROVE FALSE
  OBVIOUS
<1>3. PICK k \in a .. i : /\ t[k] = "url" /\ k < Len(t)
                          /\ \A j \in (k + 1 .. i) \cup {k + 1} : t[j] \notin Space
  BY DEF UrlFrom
<1>4. i \in a .. Len(t)
  BY DEF UrlFrom
<1>5. k \in a .. Len(t) - 1 /\ t[k + 1] \notin Space
  BY <1>1, <1>3, <1>4
<1>6. QED
  BY <1>3, <1>5 DEF Starts

(* Where the first match begins and ends. *)
LEMMA FirstMatch ==
  ASSUME NEW t \in Seq(Symbols), NEW a \in 1 .. Len(t) + 1, Starts(t, a) # {},
         NEW k, k = Min(Starts(t, a)), NEW e, e = MatchEnd(t, k)
  PROVE  /\ k \in a .. Len(t) - 1 /\ t[k] = "url" /\ t[k + 1] \notin Space
         /\ \A m \in a .. k - 1 : ~(t[m] = "url" /\ t[m + 1] \notin Space)
         /\ e \in k + 2 .. Len(t) + 1
         /\ \A j \in k + 1 .. e - 1 : t[j] \notin Space
         /\ e <= Len(t) => t[e] \in Space
<1> DEFINE n == Len(t)
           E == {j \in k + 1 .. n + 1 : j > n \/ t[j] \in Space}
<1>1. n \in Nat /\ a \in Nat
  OBVIOUS
<1>2. Starts(t, a) \in SUBSET Nat
  BY <1>1 DEF Starts
<1>3. k \in Starts(t, a) /\ \A m \in Starts(t, a) : k <= m
  BY <1>2, MinFacts
<1>4. k \in a .. n - 1 /\ t[k] = "url" /\ t[k + 1] \notin Space
  BY <1>3 DEF Starts
<1>5. ASSUME NEW m \in a .. k - 1 PROVE ~(t[m] = "url" /\ t[m + 1] \notin Space)
  <2>1. m \in a .. n - 1 /\ ~(k <= m)
    BY <1>1, <1>4
  <2>2. m \notin Starts(t, a)
    BY <1>3, <2>1
  <2>3. QED
    BY <2>1, <2>2 DEF Starts
<1>6. E \in SUBSET Nat /\ n + 1 \in E
  BY <1>1, <1>4
<1>7. e \in E /\ \A j \in E : e <= j
  <2>1. e = Min(E)
    BY DEF MatchEnd
  <2> HIDE DEF E
  <2>2. QED
    BY <1>6, <2>1, MinFacts
<1>8. e \in k + 1 .. n + 1 /\ (e > n \/ t[e] \in Space)
  BY <1>7
<1>9. e # k + 1
  BY <1>1, <1>4, <1>8
<1>10. ASSUME NEW j \in k + 1 .. e - 1 PROVE t[j] \notin Space
  <2>1. j \in k + 1 .. n + 1 /\ ~(e <= j) /\ ~(j > n)
    BY <1>1, <1>4, <1>8
  <2>2. QED
    BY <1>7, <2>1
<1>11. e \in k + 2 .. n + 1 /\ (e <= n => t[e] \in Space)
  BY <1>1, <1>4, <1>8, <1>9
<1>12. QED
  BY <1>4, <1>5, <1>10, <1>11

(* The weights before, in and behind the first match. *)
LEMMA MatchWeights ==
  ASSUME NEW t \in Seq(Symbols), NEW a \in 1 .. Len(t) + 1, Starts(t, a) # {},
         NEW k, k = Min(Starts(t, a)), NEW e, e = MatchEnd(t, k)
  PROVE  /\ \A i \in a .. k - 1 : WeightsFrom(t, a)[i] = RuneWeight(t[i])
         /\ WeightsFrom(t, a)[k] = 23
         /\ \A i \in k + 1 .. e - 1 : WeightsFrom(t, a)[i] = 0
         /\ \A i \in e .. Len(t) : WeightsFrom(t, a)[i] = WeightsFrom(t, e)[i]
<1> DEFINE n == Len(t)
           U == UrlFrom(t, a)
           V == UrlFrom(t, e)
<1>1. n \in Nat /\ a \in Nat /\ 1 <= a
  OBVIOUS
<1>2. /\ k \in a .. n - 1 /\ t[k] = "url" /\ t[k + 1] \notin Space
      /\ \A m \in a .. k - 1 : ~(t[m] = "url" /\ t[m + 1] \notin Space)
      /\ e \in k + 2 .. n + 1
      /\ \A j \in k + 1 .. e - 1 : t[j] \notin Space
      /\ e <= n => t[e] \in Space
  BY FirstMatch
<1>3. k \in Nat /\ e \in Nat /\ a <= k /\ k < e - 1 /\ e <= n + 1 /\ k < n
  BY <1>1, <1>2
<1>4. ASSUME NEW i \in a .. k - 1 PROVE i \notin U
  <2>1. SUFFICES ASSUME i \in U PROVE FALSE
    OBVIOUS
  <2>2. PICK m \in a .. i : t[m] = "url" /\ \A j \in (m + 1 .. i) \cup {m + 1} : t[j] \notin Space
    BY <2>1 DEF UrlFrom
  <2>3. m \in a .. k - 1 /\ t[m + 1] \notin Space
    BY <1>1, <1>3, <2>2
  <2>4. QED
    BY <1>2, <2>2, <2>3
<1>5. ASSUME NEW i \in k .. e - 1 PROVE i \in U
  <2>1. i \in a .. n /\ k \in a .. i /\ k < n
    BY <1>1, <1>3
  <2>2. \A j \in (k + 1 .. i) \cup {k + 1} : j \in k + 1 .. e - 1
    BY <1>3
  <2>3. QED
    BY <1>2, <2>1, <2>2 DEF UrlFrom
<1>6. ASSUME NEW i \in e .. n PROVE i \in U <=> i \in V
  <2>1. i \in a .. n /\ i \in Nat /\ e <= i
    BY <1>1, <1>3
  <2>2. ASSUME i \in V PROVE i \in U
    <3>1. PICK m \in e .. i : t[m] = "url" /\ m < n /\ \A j \in (m + 1 .. i) \cup {m + 1} : t[j] \notin Space
      BY <2>2 DEF UrlFrom
    <3>2. m \in a .. i
      BY <1>1, <1>3
    <3>3. QED
      BY <2>1, <3>1, <3>2 DEF UrlFrom
  <2>3. ASSUME i \in U PROVE i \in V
    <3>1. PICK m \in a .. i : t[m] = "url" /\ m < n /\ \A j \in (m + 1 .. i) \cup {m + 1} : t[j] \notin Space
      BY <2>3 DEF UrlFrom
    <3>2. m \in Nat
      BY <1>1
    <3>3. m >= e
      <4>1. ASSUME m < e PROVE e \in m + 1 .. i
        BY <1>3, <2>1, <3>2, <4>1
      <4>2. t[e] \in Space
        BY <1>2, <1>3, <2>1
      <4>3. QED
        BY <1>3, <3>1, <3>2, <4>1, <4>2
    <3>4. m \in e .. i
      BY <1>3, <2>1, <3>2, <3>3
    <3>5. QED
      BY <3>1, <3>4 DEF UrlFrom
  <2>4. QED
    BY <2>2, <2>3
<1>7. e \notin V
  <2>1. SUFFICES ASSUME e \in V PROVE FALSE
    OBVIOUS
  <2>2. PICK m \in e .. e : t[m] = "url"
    BY <2>1 DEF UrlFrom
  <2>3. t[e] = "url" /\ e <= n
    BY <1>1, <1>3, <2>1, <2>2 DEF UrlFrom
  <2>4. QED
    BY <1>2, <2>3 DEF Space
<1> HIDE DEF U, V
<1>8. \A i \in a .. n : WeightsFrom(t, a)[i] = IF i \in U THEN (IF i - 1 \in U THEN 0 ELSE 23) ELSE RuneWeight(t[i])
  BY DEF WeightsFrom, U
<1>9. \A i \in e .. n : WeightsFrom(t, e)[i] = IF i \in V THEN (IF i - 1 \in V THEN 0 ELSE 23) ELSE RuneWeight(t[i])
  BY DEF WeightsFrom, V
<1>10. ASSUME NEW i \in a .. k - 1 PROVE WeightsFrom(t, a)[i] = RuneWeight(t[i])
  <2>1. i \in a .. n
    BY <1>1, <1>3
  <2>2. QED
    BY <1>4, <1>8, <2>1
<1>11. WeightsFrom(t, a)[k] = 23
  <2>1. k \in a .. n /\ k \in k .. e - 1
    BY <1>1, <1>3
  <2>2. k - 1 \notin U
    <3>1. k - 1 \in a .. k - 1 \/ k - 1 < a
      BY <1>1, <1>3
    <3>2. U \in SUBSET (a .. n)
      BY DEF U, UrlFrom
    <3>3. QED
      BY <1>1, <1>3, <1>4, <3>1, <3>2
  <2>3. QED
    BY <1>5, <1>8, <2>1, <2>2
<1>12. ASSUME NEW i \in k + 1 .. e - 1 PROVE WeightsFrom(t, a)[i] = 0
  <2>1. i \in a .. n /\ i \in k .. e - 1 /\ i - 1 \in k .. e - 1
    BY <1>1, <1>3
  <2>2. QED
    BY <1>5, <1>8, <2>1
<1>13. ASSUME NEW i \in e .. n PROVE WeightsFrom(t, a)[i] = WeightsFrom(t, e)[i]
  <2>1. i \in a .. n /\ (i = e \/ i - 1 \in e .. n)
    BY <1>1, <1>3
  <2>2. (i \in U <=> i \in V) /\ (i \in V => (i - 1 \in U <=> i - 1 \in V))
    BY <1>6, <1>7, <2>1
  <2>3. QED
    BY <1>8, <1>9, <2>1, <2>2
<1>14. QED
  BY <1>10, <1>11, <1>12, <1>13

(* What a text weighs from a on. *)
Weight(t, a) == Total(WeightsFrom(t, a), a .. Len(t))

(* It is the weight of the symbols up to the first match, 23 for the match,  *)
(* and what the text weighs from its end on.                                 *)
LEMMA WeightByMatches ==
  ASSUME NEW t \in Seq(Symbols), NEW a \in 1 .. Len(t) + 1
  PROVE  /\ Weight(t, a) \in Nat
         /\ Starts(t, a) = {} => Weight(t, a) = xRuneWeight(SubSeq(t, a, Len(t)))
         /\ Starts(t, a) # {} =>
              LET k == Min(Starts(t, a)) IN
              Weight(t, a) = xRuneWeight(SubSeq(t, a, k - 1)) + 23 + Weight(t, MatchEnd(t, k))
<1> DEFINE n == Len(t)
           w == WeightsFrom(t, a)
<1>1. n \in Nat /\ a \in Nat /\ 1 <= a /\ a <= n + 1 /\ DOMAIN t = 1 .. n
  OBVIOUS
<1>2. \A i \in Nat, j \in Nat : IsFiniteSet(i .. j)
  <2>1. \A i \in Nat, j \in Nat : i \in Int /\ j \in Int
    OBVIOUS
  <2>2. QED
    BY <2>1, FS_Interval
<1>3. Weight(t, a) \in Nat
  BY <1>1, <1>2, TotalType DEF Weight
<1>4. ASSUME Starts(t, a) = {} PROVE Weight(t, a) = xRuneWeight(SubSeq(t, a, n))
  <2>1. \A i \in a .. n : w[i] = RuneWeight(t[i])
    BY <1>4, NoUrl DEF WeightsFrom
  <2>2. \A i \in a .. n : Runes(t)[i] = RuneWeight(t[i])
    BY <1>1, RuneBound
  <2>3. Total(w, a .. n) = Total(Runes(t), a .. n)
    BY <2>1, <2>2, TotalSame
  <2>4. xRuneWeight(SubSeq(t, a, n)) = Total(Runes(t), a .. n)
    BY <1>1, SliceWeight
  <2>5. QED
    BY <2>3, <2>4 DEF Weight
<1>5. ASSUME Starts(t, a) # {}, NEW k, k = Min(Starts(t, a)), NEW e, e = MatchEnd(t, k)
      PROVE  Weight(t, a) = xRuneWeight(SubSeq(t, a, k - 1)) + 23 + Weight(t, e)
  <2>1. k \in a .. n - 1 /\ e \in k + 2 .. n + 1
    BY <1>5, FirstMatch
  <2>2. /\ \A i \in a .. k - 1 : w[i] = RuneWeight(t[i])
        /\ w[k] = 23
        /\ \A i \in k + 1 .. e - 1 : w[i] = 0
        /\ \A i \in e .. n : w[i] = WeightsFrom(t, e)[i]
    BY <1>5, MatchWeights
  <2>3. /\ k \in Nat /\ e \in Nat /\ a <= k /\ k < n /\ k + 1 < e /\ e <= n + 1
        /\ k - 1 \in Nat /\ k + 1 \in Nat /\ e - 1 \in Nat
    BY <1>1, <2>1
  <2> DEFINE A == a .. k - 1
             B == k + 1 .. e - 1
             C == e .. n
  <2>4. IsFiniteSet(A) /\ IsFiniteSet(B) /\ IsFiniteSet(C) /\ IsFiniteSet({k}) /\ Cardinality({k}) = 1
    BY <1>1, <1>2, <2>3, FS_Singleton
  <2>5. a .. n = A \cup ({k} \cup (B \cup C))
    BY <1>1, <2>3
  <2>6. A \cap ({k} \cup (B \cup C)) = {} /\ {k} \cap (B \cup C) = {} /\ B \cap C = {}
    BY <1>1, <2>3
  <2>7. Total(w, A) = xRuneWeight(SubSeq(t, a, k - 1))
    <3>1. \A i \in A : Runes(t)[i] = RuneWeight(t[i])
      BY <1>1, <2>3, RuneBound
    <3>2. Total(w, A) = Total(Runes(t), A)
      BY <2>2, <3>1, TotalSame
    <3>3. 1 <= a /\ a <= (k - 1) + 1 /\ k - 1 <= Len(t)
      BY <1>1, <2>3
    <3>4. QED
      BY <1>1, <2>3, <3>2, <3>3, SliceWeight
  <2>8. Total(w, C) = Weight(t, e)
    BY <2>2, TotalSame DEF Weight
  <2>9. Total(w, {k}) = 23
    <3>1. \A i \in {k} : w[i] = 23
      BY <2>2
    <3>2. 23 \in 0 .. Most
      BY DEF Most
    <3>3. Total(w, {k}) = Cardinality({k}) * 23
      BY <2>4, <3>1, <3>2, TotalUniform
    <3>4. QED
      BY <2>4, <3>3
  <2>10. Total(w, B) = 0
    <3>1. 0 \in 0 .. Most
      BY DEF Most
    <3>2. Total(w, B) = Cardinality(B) * 0
      BY <2>2, <2>4, <3>1, TotalUniform
    <3>3. Cardinality(B) \in Nat
      BY <2>4, FS_CardinalityType
    <3>4. QED
      BY <3>2, <3>3
  <2> HIDE DEF A, B, C, w
  <2>11. IsFiniteSet(B \cup C) /\ IsFiniteSet({k} \cup (B \cup C))
    BY <2>4, FS_Union
  <2>12. Total(w, a .. n) = Total(w, A) + Total(w, {k} \cup (B \cup C))
    BY <2>4, <2>5, <2>6, <2>11, TotalUnion
  <2>13. Total(w, {k} \cup (B \cup C)) = Total(w, {k}) + Total(w, B \cup C)
    BY <2>4, <2>6, <2>11, TotalUnion
  <2>14. Total(w, B \cup C) = Total(w, B) + Total(w, C)
    BY <2>4, <2>6, TotalUnion
  <2>15. Total(w, A) \in Nat /\ Total(w, C) \in Nat
    BY <2>4, TotalType
  <2>16. Total(w, a .. n) = Total(w, A) + 23 + Total(w, C)
    BY <2>9, <2>10, <2>12, <2>13, <2>14, <2>15
  <2>17. Weight(t, a) = Total(w, a .. n)
    BY DEF Weight, w
  <2>18. QED
    BY <2>7, <2>8, <2>16, <2>17
<1>6. QED
  BY <1>3, <1>4, <1>5

(* The equation of the loop in XWeightedLength. *)
Weighs(g, t) ==
  g = [last \in 1 .. Len(t) + 1 |->
         IF Starts(t, last) = {} THEN xRuneWeight(SubSeq(t, last, Len(t)))
         ELSE LET k == Min(Starts(t, last)) IN
              xRuneWeight(SubSeq(t, last, k - 1)) + 23 + g[MatchEnd(t, k)]]

(* The weights solve it ... *)
LEMMA WeightWeighs ==
  ASSUME NEW t \in Seq(Symbols)
  PROVE  Weighs([a \in 1 .. Len(t) + 1 |-> Weight(t, a)], t)
<1> DEFINE f == [a \in 1 .. Len(t) + 1 |-> Weight(t, a)]
<1>1. ASSUME NEW a \in 1 .. Len(t) + 1
      PROVE  f[a] = IF Starts(t, a) = {} THEN xRuneWeight(SubSeq(t, a, Len(t)))
                    ELSE LET k == Min(Starts(t, a)) IN
                         xRuneWeight(SubSeq(t, a, k - 1)) + 23 + f[MatchEnd(t, k)]
  <2>1. CASE Starts(t, a) = {}
    BY <2>1, WeightByMatches
  <2>2. CASE Starts(t, a) # {}
    <3> DEFINE k == Min(Starts(t, a))
               e == MatchEnd(t, k)
    <3>1. e \in 1 .. Len(t) + 1
      <4>1. k \in a .. Len(t) - 1 /\ e \in k + 2 .. Len(t) + 1
        BY <2>2, FirstMatch
      <4>2. Len(t) \in Nat /\ a \in Nat
        OBVIOUS
      <4> HIDE DEF k, e
      <4>3. QED
        BY <4>1, <4>2
    <3>2. Weight(t, a) = xRuneWeight(SubSeq(t, a, k - 1)) + 23 + Weight(t, e)
      BY <2>2, WeightByMatches
    <3> HIDE DEF k, e
    <3>3. f[a] = xRuneWeight(SubSeq(t, a, k - 1)) + 23 + f[e]
      BY <3>1, <3>2
    <3>4. QED
      BY <2>2, <3>3 DEF k, e
  <2>3. QED
    BY <2>1, <2>2
<1> HIDE DEF f
<1>2. DOMAIN f = 1 .. Len(t) + 1 /\ f = [a \in 1 .. Len(t) + 1 |-> f[a]]
  BY DEF f
<1>3. QED
  BY <1>1, <1>2 DEF Weighs, f

(* ... and nothing else does: of two solutions, take the last place where    *)
(* they differ.                                                              *)
LEMMA WeighsOnce ==
  ASSUME NEW t \in Seq(Symbols), NEW f, NEW g, Weighs(f, t), Weighs(g, t)
  PROVE  \A a \in 1 .. Len(t) + 1 : f[a] = g[a]
<1> DEFINE n == Len(t) + 1
           D == {m \in Nat : m < n /\ f[n - m] # g[n - m]}
<1>1. SUFFICES ASSUME NEW a \in 1 .. n, f[a] # g[a] PROVE FALSE
  OBVIOUS
<1>2. n \in Nat /\ \A i \in 1 .. n : n - i \in Nat /\ n - i < n /\ n - (n - i) = i
  OBVIOUS
<1> HIDE DEF n
<1>3. D \in SUBSET Nat /\ n - a \in D
  BY <1>1, <1>2
<1>4. PICK m \in D : \A i \in D : m <= i
  <2> HIDE DEF D
  <2>1. QED
    BY <1>3, LeastNumber
<1> DEFINE b == n - m
           k == Min(Starts(t, b))
           e == MatchEnd(t, k)
<1>5. b \in 1 .. n /\ f[b] # g[b] /\ b \in Nat /\ m \in Nat
  BY <1>2, <1>4
<1> HIDE DEF b
<1>6. /\ f[b] = IF Starts(t, b) = {} THEN xRuneWeight(SubSeq(t, b, Len(t)))
                ELSE xRuneWeight(SubSeq(t, b, k - 1)) + 23 + f[e]
      /\ g[b] = IF Starts(t, b) = {} THEN xRuneWeight(SubSeq(t, b, Len(t)))
                ELSE xRuneWeight(SubSeq(t, b, k - 1)) + 23 + g[e]
  BY <1>5 DEF Weighs, n
<1>7. Starts(t, b) # {} /\ f[e] # g[e]
  BY <1>5, <1>6
<1>8. k \in b .. Len(t) - 1 /\ e \in k + 2 .. Len(t) + 1
  BY <1>5, <1>7, FirstMatch DEF n
<1> HIDE DEF k, e
<1>9. e \in 1 .. n /\ b < e /\ e \in Nat
  BY <1>2, <1>5, <1>8 DEF n
<1>10. n - e \in D
  BY <1>2, <1>7, <1>9
<1>11. m <= n - e /\ n - m = b
  <2>1. m <= n - e
    BY <1>4, <1>10
  <2>2. QED
    BY <2>1 DEF b
<1>12. QED
  BY <1>2, <1>5, <1>9, <1>11

(* So XWeightedLength weighs a text from its beginning on. *)
LEMMA LoopWeighs ==
  ASSUME NEW t \in Seq(Symbols)
  PROVE  XWeightedLength(t) = Weight(t, 1)
<1> DEFINE f == [a \in 1 .. Len(t) + 1 |-> Weight(t, a)]
           it == CHOOSE g : Weighs(g, t)
<1>1. XWeightedLength(t) = it[1]
  BY DEF XWeightedLength, Weighs
<1>2. 1 \in 1 .. Len(t) + 1 /\ f[1] = Weight(t, 1)
  OBVIOUS
<1>3. Weighs(f, t)
  BY WeightWeighs
<1> HIDE DEF f
<1>4. Weighs(it, t)
  BY <1>3
<1> HIDE DEF it
<1>5. it[1] = f[1]
  BY <1>2, <1>3, <1>4, WeighsOnce
<1>6. QED
  BY <1>1, <1>2, <1>5

(* The loop over the matches of xURLPattern gives every URL 23 and every     *)
(* other character its own weight, each of them once, in texts of any        *)
(* length.                                                                   *)
THEOREM EverySymbolWeighedOnce ==
  ASSUME NEW t \in Seq(Symbols)
  PROVE  XWeightedLength(t) = WeightOf(t)
<1> DEFINE n == Len(t)
           url == {i \in DOMAIN t : InURL(t, i)}
           first == {i \in url : i - 1 \notin url}
           inner == url \ first
           rest == DOMAIN t \ url
           w == WeightsFrom(t, 1)
<1>1. n \in Nat /\ DOMAIN t = 1 .. n /\ IsFiniteSet(1 .. n)
  BY Interval
<1>2. url = UrlFrom(t, 1)
  BY <1>1 DEF UrlFrom, InURL
<1>3. WeightOf(t) = 23 * Cardinality(first) + Total(Runes(t), rest)
  <2>1. WeightOf(t) = 23 * Cardinality(first) + FoldSet(LAMBDA i, m : m + RuneWeight(t[i]), 0, rest)
    BY DEF WeightOf
  <2>2. FoldSet(LAMBDA i, m : m + RuneWeight(t[i]), 0, rest) =
          (CHOOSE g : g = [s \in SUBSET rest |->
             IF s = {} THEN 0 ELSE g[s \ {Pick(s)}] + RuneWeight(t[Pick(s)])])[rest]
    BY DEF FoldSet, MapThenFoldSet, Pick
  <2>3. rest \in SUBSET DOMAIN t
    OBVIOUS
  <2> HIDE DEF rest, first
  <2>4. QED
    BY <2>1, <2>2, <2>3, RuneFold
<1>4. 1 .. n = first \cup (inner \cup rest)
  BY <1>1
<1>5. first \cap (inner \cup rest) = {} /\ inner \cap rest = {}
  OBVIOUS
<1>6. \A i \in first : w[i] = 23
  BY <1>1, <1>2 DEF WeightsFrom
<1>7. \A i \in inner : w[i] = 0
  BY <1>1, <1>2 DEF WeightsFrom
<1>8. \A i \in rest : w[i] = Runes(t)[i]
  BY <1>1, <1>2, RuneBound DEF WeightsFrom
<1>9. first \in SUBSET (1 .. n) /\ inner \in SUBSET (1 .. n) /\ rest \in SUBSET (1 .. n)
  BY <1>1
<1> HIDE DEF first, inner, rest, url, w
<1>10. /\ IsFiniteSet(first) /\ IsFiniteSet(inner) /\ IsFiniteSet(rest)
       /\ Cardinality(first) \in Nat /\ Cardinality(inner) \in Nat
  BY <1>1, <1>9, FS_Subset, FS_CardinalityType
<1>11. IsFiniteSet(inner \cup rest)
  BY <1>10, FS_Union
<1>12. Total(w, 1 .. n) = Total(w, first) + Total(w, inner \cup rest)
  BY <1>4, <1>5, <1>10, <1>11, TotalUnion
<1>13. Total(w, inner \cup rest) = Total(w, inner) + Total(w, rest)
  BY <1>5, <1>10, TotalUnion
<1>14. 23 \in 0 .. Most /\ 0 \in 0 .. Most
  BY DEF Most
<1>15. Total(w, first) = Cardinality(first) * 23
  BY <1>6, <1>10, <1>14, TotalUniform
<1>16. Total(w, inner) = Cardinality(inner) * 0
  BY <1>7, <1>10, <1>14, TotalUniform
<1>17. Total(w, rest) = Total(Runes(t), rest) /\ Total(w, rest) \in Nat
  BY <1>8, <1>10, TotalSame, TotalType
<1>18. Total(w, 1 .. n) = 23 * Cardinality(first) + Total(Runes(t), rest)
  BY <1>10, <1>12, <1>13, <1>15, <1>16, <1>17
<1>19. QED
  BY <1>3, <1>18, LoopWeighs DEF Weight, w

----------------------------------------------------------------------------
(* What normalization does to lengths and weights *)

(* A position that is dropped is a "\r", and the "\n" behind it is kept. *)
LEMMA Dropped ==
  ASSUME NEW t \in Seq(Symbols), NEW j \in 1 .. Len(t), j \notin Kept(t)
  PROVE  t[j] = "cr" /\ j < Len(t) /\ t[j + 1] = "lf" /\ j + 1 \in Kept(t)
<1>1. Len(t) \in Nat /\ DOMAIN t = 1 .. Len(t)
  OBVIOUS
<1>2. t[j] = "cr" /\ j < Len(t) /\ t[j + 1] = "lf"
  BY <1>1 DEF Kept
<1>3. j + 1 \in DOMAIN t
  BY <1>1, <1>2
<1>4. QED
  BY <1>2, <1>3 DEF Kept

(* Ranks grow with positions, strictly, and neighbours have neighbouring     *)
(* ranks.                                                                    *)
LEMMA RankOrder ==
  ASSUME NEW n \in Nat, NEW S \in SUBSET (1 .. n)
  PROVE  \A k, m \in S : /\ k \in Nat /\ m \in Nat /\ Rank(S, k) \in Nat /\ Rank(S, m) \in Nat
                         /\ k < m <=> Rank(S, k) < Rank(S, m)
                         /\ k = m <=> Rank(S, k) = Rank(S, m)
                         /\ m = k + 1 => Rank(S, m) = Rank(S, k) + 1
<1> SUFFICES ASSUME NEW k \in S, NEW m \in S
             PROVE  /\ k \in Nat /\ m \in Nat /\ Rank(S, k) \in Nat /\ Rank(S, m) \in Nat
                    /\ k < m <=> Rank(S, k) < Rank(S, m)
                    /\ k = m <=> Rank(S, k) = Rank(S, m)
                    /\ m = k + 1 => Rank(S, m) = Rank(S, k) + 1
  BY Zenon
<1>1. k \in Nat /\ m \in Nat
  OBVIOUS
<1>2. Cardinality(S) \in Nat /\ IsFiniteSet(S)
  BY RankGrows
<1>3. Rank(S, k) \in 1 .. Cardinality(S) /\ Rank(S, m) \in 1 .. Cardinality(S)
  BY RankGrows
<1>4. Rank(S, k) \in Nat /\ Rank(S, m) \in Nat /\ Rank(S, k) >= 1
  BY <1>2, <1>3
<1>5. (k < m => Rank(S, k) < Rank(S, m)) /\ (m < k => Rank(S, m) < Rank(S, k))
  BY RankGrows
<1>6. ASSUME m = k + 1 PROVE Rank(S, m) = Rank(S, k) + 1
  <2> DEFINE D == {j \in S : j <= k}
  <2>1. {j \in S : j <= m} = D \cup {m} /\ m \notin D /\ D \in SUBSET S
    <3>1. \A j \in S : j \in Nat
      OBVIOUS
    <3>2. \A j \in S : j <= m <=> (j <= k \/ j = m)
      BY <1>1, <1>6, <3>1
    <3>3. m \notin D
      BY <1>1, <1>6
    <3>4. QED
      BY <3>2, <3>3
  <2>2. IsFiniteSet(D)
    BY <1>2, <2>1, FS_Subset
  <2> HIDE DEF D
  <2>3. Cardinality(D \cup {m}) = Cardinality(D) + 1
    BY <2>1, <2>2, FS_AddElement
  <2>4. QED
    BY <2>1, <2>3 DEF Rank, D
<1>7. QED
  BY <1>1, <1>4, <1>5, <1>6

(* Kept positions whose ranks are neighbours are neighbours, unless there    *)
(* was a "\r\n".                                                             *)
LEMMA Neighbours ==
  ASSUME NEW t \in Seq(Symbols), NEW k \in Kept(t), NEW m \in Kept(t),
         Rank(Kept(t), m) = Rank(Kept(t), k) + 1, t[m] # "lf"
  PROVE  m = k + 1
<1> DEFINE S == Kept(t)
           n == Len(t)
<1>1. n \in Nat /\ S \in SUBSET (1 .. n) /\ k \in S /\ m \in S
  BY NewLinesFacts
<1>2. Rank(S, m) = Rank(S, k) + 1
  OBVIOUS
<1>3. /\ k \in Nat /\ m \in Nat /\ Rank(S, k) \in Nat /\ Rank(S, m) \in Nat
      /\ k < m <=> Rank(S, k) < Rank(S, m)
  BY <1>1, RankOrder
<1> HIDE DEF S, n
<1>4. k < m
  BY <1>2, <1>3
<1>5. SUFFICES ASSUME k + 1 < m PROVE FALSE
  BY <1>3, <1>4
<1>6. m - 1 \in 1 .. n /\ k < m - 1 /\ m - 1 < m /\ m - 1 + 1 = m
  BY <1>1, <1>3, <1>5
<1>7. CASE m - 1 \in S
  <2>1. Rank(S, m - 1) \in Nat /\ Rank(S, k) < Rank(S, m - 1) /\ Rank(S, m - 1) < Rank(S, m)
    BY <1>1, <1>6, <1>7, RankOrder
  <2>2. QED
    BY <1>2, <1>3, <2>1
<1>8. CASE m - 1 \notin S
  <2>1. t[m - 1 + 1] = "lf"
    BY <1>6, <1>8, Dropped DEF S, n
  <2>2. QED
    BY <1>6, <2>1
<1>9. QED
  BY <1>7, <1>8

(* Bytes and weights of a text that is normalized, position by position. *)
LEMMA FewerBytes ==
  ASSUME NEW t \in Seq(Symbols)
  PROVE  Bytes(NewLines(t)) \in Nat /\ Bytes(t) \in Nat /\ Bytes(NewLines(t)) <= Bytes(t)
<1> DEFINE v == NewLines(t)
           S == Kept(t)
           A == DOMAIN v
           B == DOMAIN t
           f == [i \in A |-> At(S, i)]
           w == [i \in A |-> ByteLength(v[i])]
           x == [i \in B |-> ByteLength(t[i])]
<1>1. /\ v \in Seq(Symbols) /\ Len(v) = Cardinality(S) /\ Cardinality(S) \in Nat
      /\ S \in SUBSET (1 .. Len(t)) /\ Len(t) \in Nat
      /\ \A i \in 1 .. Cardinality(S) : v[i] = IF t[At(S, i)] = "cr" THEN "lf" ELSE t[At(S, i)]
  BY NewLinesFacts
<1>2. A = 1 .. Cardinality(S) /\ B = 1 .. Len(t)
  BY <1>1
<1>3. \A i \in A : At(S, i) \in S /\ Rank(S, At(S, i)) = i
  BY <1>1, <1>2, RankInverse
<1>4. \A i \in A : w[i] = x[f[i]]
  BY <1>1, <1>2, <1>3 DEF ByteLength
<1>5. f \in Injection(A, B)
  <2>1. f \in [A -> B]
    BY <1>1, <1>2, <1>3
  <2>2. \A i, j \in A : f[i] = f[j] => i = j
    BY <1>3
  <2>3. QED
    BY <2>1, <2>2 DEF Injection, IsInjective
<1>6. IsFiniteSet(B)
  BY <1>1, <1>2, Interval
<1>7. Bytes(v) = Total(w, A) /\ Bytes(t) = Total(x, B)
  BY <1>1, BytesAreTotal
<1> HIDE DEF A, B, f, w, x
<1>8. QED
  BY <1>4, <1>5, <1>6, <1>7, TotalMapped

(* A symbol belongs to a URL as before, and is the first of it as before. *)
LEMMA UrlsKept ==
  ASSUME NEW t \in Seq(Symbols), NEW k \in Kept(t)
  PROVE  Rank(Kept(t), k) \in UrlFrom(NewLines(t), 1) <=> k \in UrlFrom(t, 1)
<1> DEFINE v == NewLines(t)
           S == Kept(t)
           n == Len(t)
           r == Rank(S, k)
<1>1. n \in Nat /\ S \in SUBSET (1 .. n) /\ Len(v) = Cardinality(S) /\ Len(v) \in Nat /\ k \in S
  BY NewLinesFacts
<1>2. \A j \in S : /\ Rank(S, j) \in 1 .. Len(v)
                   /\ v[Rank(S, j)] = IF t[j] = "cr" THEN "lf" ELSE t[j]
  BY KeptSymbols
<1>3. \A i \in 1 .. Len(v) : \E j \in S : i = Rank(S, j)
  BY FromKept
<1>4. \A j \in 1 .. n : t[j] # "cr" => j \in S
  BY DEF Kept
<1>5. \A j \in 1 .. n : j \notin S => j < n /\ t[j + 1] = "lf" /\ j + 1 \in S
  BY Dropped
<1>6. \A i, j \in S : /\ i \in Nat /\ j \in Nat /\ Rank(S, i) \in Nat /\ Rank(S, j) \in Nat
                      /\ i < j <=> Rank(S, i) < Rank(S, j)
                      /\ i = j <=> Rank(S, i) = Rank(S, j)
                      /\ j = i + 1 => Rank(S, j) = Rank(S, i) + 1
  BY <1>1, RankOrder
<1>7. \A i, j \in S : Rank(S, j) = Rank(S, i) + 1 /\ t[j] # "lf" => j = i + 1
  BY Neighbours
<1> HIDE DEF v, S, n
<1>8. ASSUME k \in UrlFrom(t, 1) PROVE r \in UrlFrom(v, 1)
  <2>1. PICK b \in 1 .. k : t[b] = "url" /\ b < n /\ \A j \in (b + 1 .. k) \cup {b + 1} : t[j] \notin Space
    BY <1>8 DEF UrlFrom, n
  <2>2. b \in Nat /\ k \in Nat /\ b <= k /\ k <= n /\ 1 <= b
    BY <1>1
  <2>3. b \in S /\ b + 1 \in S
    <3>1. b \in 1 .. n /\ b + 1 \in 1 .. n
      BY <1>1, <2>1, <2>2
    <3>2. t[b] # "cr" /\ t[b + 1] # "cr"
      BY <2>1 DEF Space
    <3>3. QED
      BY <1>4, <3>1, <3>2
  <2> DEFINE c == Rank(S, b)
  <2>4. c \in 1 .. Len(v) /\ c + 1 \in 1 .. Len(v) /\ c + 1 = Rank(S, b + 1) /\ c \in Nat /\ r \in Nat /\ c <= r
    BY <1>2, <1>6, <1>1, <2>2, <2>3
  <2>5. v[c] = "url" /\ v[c + 1] \notin Space
    <3>1. v[c] = "url"
      BY <1>2, <2>1, <2>3
    <3>2. t[b + 1] \notin Space /\ t[b + 1] # "cr"
      BY <2>1 DEF Space
    <3>3. QED
      BY <1>2, <2>3, <2>4, <3>1, <3>2
  <2>6. ASSUME NEW i \in c + 1 .. r PROVE v[i] \notin Space
    <3>1. r \in 1 .. Len(v)
      BY <1>1, <1>2
    <3>2. i \in 1 .. Len(v) /\ i \in Nat /\ c < i /\ i <= r
      BY <1>1, <2>4, <3>1
    <3>3. PICK j \in S : i = Rank(S, j)
      BY <1>3, <3>2
    <3>4. j \in Nat /\ b < j /\ (j < k \/ j = k)
      BY <1>1, <1>6, <2>3, <2>4, <3>2, <3>3
    <3>5. j \in b + 1 .. k
      BY <2>2, <3>4
    <3>6. t[j] \notin Space /\ t[j] # "cr"
      BY <2>1, <3>5 DEF Space
    <3>7. QED
      BY <1>2, <3>3, <3>6
  <2>7. c \in 1 .. r /\ c < Len(v) /\ r \in 1 .. Len(v)
    BY <1>1, <1>2, <2>4
  <2> HIDE DEF c, r
  <2>8. QED
    BY <2>5, <2>6, <2>7 DEF UrlFrom
<1>9. ASSUME r \in UrlFrom(v, 1) PROVE k \in UrlFrom(t, 1)
  <2>1. PICK c \in 1 .. r : v[c] = "url" /\ c < Len(v) /\ \A i \in (c + 1 .. r) \cup {c + 1} : v[i] \notin Space
    BY <1>9 DEF UrlFrom
  <2>2. r \in 1 .. Len(v) /\ r \in Nat /\ c \in Nat /\ c \in 1 .. Len(v) /\ c + 1 \in 1 .. Len(v) /\ c <= r
    BY <1>1, <1>2, <2>1
  <2>3. PICK b \in S : c = Rank(S, b)
    BY <1>3, <2>2
  <2>4. PICK d \in S : c + 1 = Rank(S, d)
    BY <1>3, <2>2
  <2>5. t[b] = "url"
    BY <1>2, <2>1, <2>3
  <2>6. t[d] \notin Space
    BY <1>2, <2>1, <2>4 DEF Space
  <2>7. d = b + 1
    BY <1>7, <2>3, <2>4, <2>6 DEF Space
  <2>8. b \in Nat /\ k \in Nat /\ b <= k /\ d \in Nat /\ 1 <= b /\ k <= n /\ d <= n
    BY <1>1, <1>6, <2>2, <2>3
  <2>9. ASSUME NEW j \in b + 1 .. k PROVE t[j] \notin Space
    <3>1. j \in Nat /\ b < j /\ j <= k /\ j \in 1 .. n
      BY <1>1, <2>8
    <3>2. CASE j \in S
      <4>1. Rank(S, j) \in Nat /\ c < Rank(S, j) /\ Rank(S, j) <= r
        BY <1>1, <1>6, <2>2, <2>3, <3>1, <3>2
      <4>2. v[Rank(S, j)] \notin Space
        BY <2>1, <2>2, <4>1
      <4>3. QED
        BY <1>2, <3>2, <4>2 DEF Space
    <3>3. CASE j \notin S
      <4>1. t[j + 1] = "lf" /\ j + 1 \in S /\ j + 1 <= k
        BY <1>1, <1>5, <2>8, <3>1, <3>3
      <4>2. Rank(S, j + 1) \in Nat /\ c < Rank(S, j + 1) /\ Rank(S, j + 1) <= r
        <5>1. b < j + 1 /\ (j + 1 < k \/ j + 1 = k)
          BY <2>8, <3>1, <4>1
        <5>2. QED
          BY <1>1, <1>6, <2>2, <2>3, <4>1, <5>1
      <4>3. v[Rank(S, j + 1)] \notin Space
        BY <2>1, <2>2, <4>2
      <4>4. v[Rank(S, j + 1)] = "lf"
        BY <1>2, <4>1
      <4>5. QED
        BY <4>3, <4>4 DEF Space
    <3>4. QED
      BY <3>2, <3>3
  <2>10. b \in 1 .. k /\ b < n /\ k \in 1 .. n /\ t[b + 1] \notin Space
    BY <1>1, <2>6, <2>7, <2>8
  <2>11. QED
    BY <2>5, <2>9, <2>10 DEF UrlFrom, n
<1>10. QED
  BY <1>8, <1>9 DEF v, S

(* The first symbol of a URL is the first one as before. *)
LEMMA FirstsKept ==
  ASSUME NEW t \in Seq(Symbols), NEW k \in Kept(t), k \in UrlFrom(t, 1)
  PROVE  Rank(Kept(t), k) - 1 \in UrlFrom(NewLines(t), 1) <=> k - 1 \in UrlFrom(t, 1)
<1> DEFINE v == NewLines(t)
           S == Kept(t)
           n == Len(t)
           r == Rank(S, k)
<1>1. n \in Nat /\ S \in SUBSET (1 .. n) /\ Len(v) \in Nat /\ k \in S
  BY NewLinesFacts
<1>1a. \A i, j \in S : Rank(S, i) \in Nat /\ (j = i + 1 => Rank(S, j) = Rank(S, i) + 1)
  <2>1. \A i, j \in S : /\ i \in Nat /\ j \in Nat /\ Rank(S, i) \in Nat /\ Rank(S, j) \in Nat
                        /\ i < j <=> Rank(S, i) < Rank(S, j)
                        /\ i = j <=> Rank(S, i) = Rank(S, j)
                        /\ j = i + 1 => Rank(S, j) = Rank(S, i) + 1
    BY <1>1, RankOrder
  <2>2. QED
    BY <2>1, Zenon
<1>2. \A j \in UrlFrom(t, 1) : j \in 1 .. n /\ t[j] \notin Space
  <2>1. SUFFICES ASSUME NEW j \in UrlFrom(t, 1) PROVE j \in 1 .. n /\ t[j] \notin Space
    OBVIOUS
  <2>2. j \in 1 .. n
    BY DEF UrlFrom
  <2>3. PICK b \in 1 .. j : t[b] = "url" /\ \A i \in (b + 1 .. j) \cup {b + 1} : t[i] \notin Space
    BY DEF UrlFrom
  <2>4. j = b \/ j \in b + 1 .. j
    BY <1>1, <2>2
  <2>5. QED
    BY <2>2, <2>3, <2>4 DEF Space
<1>3. ASSUME k - 1 \in UrlFrom(t, 1) PROVE r - 1 \in UrlFrom(v, 1)
  <2>1. k - 1 \in 1 .. n /\ t[k - 1] # "cr"
    BY <1>2, <1>3 DEF Space
  <2>2. k - 1 \in S
    BY <2>1 DEF Kept
  <2>3. k = k - 1 + 1 /\ k \in Nat
    BY <1>1
  <2>4. r = Rank(S, k - 1) + 1 /\ Rank(S, k - 1) \in Nat
    <3> DEFINE j == k - 1
    <3>1. j \in S /\ k = j + 1
      BY <2>2, <2>3
    <3> HIDE DEF j, S, n
    <3>2. Rank(S, k) = Rank(S, j) + 1 /\ Rank(S, j) \in Nat
      BY <1>1, <1>1a, <3>1
    <3>3. QED
      BY <3>2 DEF j
  <2>5. r - 1 = Rank(S, k - 1)
    BY <2>4
  <2>6. Rank(S, k - 1) \in UrlFrom(v, 1)
    BY <1>3, <2>2, UrlsKept
  <2>7. QED
    BY <2>5, <2>6
<1>4. ASSUME r - 1 \in UrlFrom(v, 1) PROVE k - 1 \in UrlFrom(t, 1)
  <2>1. r - 1 \in 1 .. Len(v)
    BY <1>4 DEF UrlFrom
  <2>2. PICK m \in S : r - 1 = Rank(S, m)
    BY <2>1, FromKept
  <2>3. m \in UrlFrom(t, 1)
    BY <1>4, <2>2, UrlsKept
  <2>4. r \in Nat
    <3> HIDE DEF S, n
    <3>1. QED
      BY <1>1, RankOrder
  <2>5. r = Rank(S, m) + 1
    <3> HIDE DEF r, S, v
    <3>1. r - 1 + 1 = r
      BY <2>4
    <3>2. QED
      BY <2>2, <3>1
  <2>6. t[k] # "lf"
    BY <1>2 DEF Space
  <2>7. k = m + 1
    BY <2>5, <2>6, Neighbours
  <2>8. m = k - 1
    BY <1>1, <2>7
  <2>9. QED
    BY <2>3, <2>8
<1>5. QED
  BY <1>3, <1>4

(* What X counts does not grow. *)
LEMMA NoMoreWeight ==
  ASSUME NEW t \in Seq(Symbols)
  PROVE  /\ XWeightedLength(NewLines(t)) \in Nat /\ XWeightedLength(t) \in Nat
         /\ XWeightedLength(NewLines(t)) <= XWeightedLength(t)
<1> DEFINE v == NewLines(t)
           S == Kept(t)
           A == 1 .. Len(v)
           B == 1 .. Len(t)
           f == [i \in A |-> At(S, i)]
           w == WeightsFrom(v, 1)
           x == WeightsFrom(t, 1)
<1>1. /\ v \in Seq(Symbols) /\ Len(v) = Cardinality(S) /\ Cardinality(S) \in Nat
      /\ S \in SUBSET (1 .. Len(t)) /\ Len(t) \in Nat
  BY NewLinesFacts
<1>2. \A i \in A : At(S, i) \in S /\ At(S, i) \in B /\ Rank(S, At(S, i)) = i
  BY <1>1, RankInverse
<1>3. ASSUME NEW i \in A PROVE w[i] = x[f[i]]
  <2> DEFINE k == At(S, i)
  <2>1. k \in S /\ k \in B /\ Rank(S, k) = i /\ f[i] = k
    BY <1>2
  <2> HIDE DEF k
  <2>2. v[i] = IF t[k] = "cr" THEN "lf" ELSE t[k]
    BY <2>1, KeptSymbols
  <2>3. RuneWeight(v[i]) = RuneWeight(t[k])
    BY <2>2 DEF RuneWeight
  <2>4. i \in UrlFrom(v, 1) <=> k \in UrlFrom(t, 1)
    BY <2>1, UrlsKept
  <2>5. k \in UrlFrom(t, 1) => (i - 1 \in UrlFrom(v, 1) <=> k - 1 \in UrlFrom(t, 1))
    BY <2>1, FirstsKept
  <2>6. w[i] = IF i \in UrlFrom(v, 1) THEN (IF i - 1 \in UrlFrom(v, 1) THEN 0 ELSE 23) ELSE RuneWeight(v[i])
    BY DEF WeightsFrom
  <2>7. x[k] = IF k \in UrlFrom(t, 1) THEN (IF k - 1 \in UrlFrom(t, 1) THEN 0 ELSE 23) ELSE RuneWeight(t[k])
    BY <2>1 DEF WeightsFrom
  <2> HIDE DEF w, x, f, v
  <2>8. QED
    BY <2>1, <2>3, <2>4, <2>5, <2>6, <2>7
<1>4. f \in Injection(A, B)
  <2>1. f \in [A -> B]
    BY <1>2
  <2>2. \A i, j \in A : f[i] = f[j] => i = j
    BY <1>2
  <2>3. QED
    BY <2>1, <2>2 DEF Injection, IsInjective
<1>5. IsFiniteSet(B)
  BY <1>1, Interval
<1>6. XWeightedLength(v) = Total(w, A) /\ XWeightedLength(t) = Total(x, B)
  BY <1>1, LoopWeighs DEF Weight
<1> HIDE DEF A, B, f, w, x
<1>7. QED
  BY <1>3, <1>4, <1>5, <1>6, TotalMapped

----------------------------------------------------------------------------
(* Words *)

(* What Max returns. *)
LEMMA MaxFacts ==
  ASSUME NEW n \in Nat, NEW S \in SUBSET (1 .. n), S # {}
  PROVE  Max(S) \in S /\ \A x \in S : x <= Max(S)
<1> DEFINE T == {m \in Nat : \E x \in S : m = n - x}
<1>1. \A x \in S : x \in Nat /\ n - x \in Nat
  OBVIOUS
<1>2. T \in SUBSET Nat /\ T # {}
  BY <1>1
<1>3. PICK m \in T : \A k \in T : m <= k
  <2> HIDE DEF T
  <2>1. QED
    BY <1>2, LeastNumber
<1>4. PICK x \in S : m = n - x
  OBVIOUS
<1>5. \A y \in S : n - y \in T
  BY <1>1
<1> HIDE DEF T
<1>6. \A y \in S : n - x <= n - y
  BY <1>3, <1>4, <1>5
<1>7. \A y \in S : y <= x
  BY <1>1, <1>6
<1>8. QED
  BY <1>7 DEF Max

(* The symbols at some positions of a text, in order. *)
Spelled(t, x) == [i \in 1 .. Cardinality(x) |-> t[At(x, i)]]

(* A position behind all others is spelled last. *)
LEMMA SpelledLast ==
  ASSUME NEW t \in Seq(Symbols), NEW x \in SUBSET (1 .. Len(t)), NEW m \in 1 .. Len(t),
         \A j \in x : j < m
  PROVE  Spelled(t, x \cup {m}) = Append(Spelled(t, x), t[m])
<1> DEFINE n == Len(t)
           y == x \cup {m}
           c == Cardinality(x)
<1>1. n \in Nat /\ y \in SUBSET (1 .. n) /\ m \notin x
  OBVIOUS
<1>2. IsFiniteSet(x) /\ c \in Nat
  BY <1>1, RankGrows
<1>3. Cardinality(y) = c + 1
  BY <1>1, <1>2, FS_AddElement
<1>4. ASSUME NEW k \in x PROVE Rank(y, k) = Rank(x, k)
  <2>1. {j \in y : j <= k} = {j \in x : j <= k}
    <3>1. k \in Nat /\ m \in Nat /\ ~(m <= k)
      BY <1>1
    <3>2. QED
      BY <3>1
  <2>2. QED
    BY <2>1 DEF Rank
<1>5. Rank(y, m) = c + 1
  <2>1. \A j \in y : j <= m
    BY <1>1
  <2>2. {j \in y : j <= m} = y
    BY <2>1
  <2>3. QED
    BY <1>3, <2>2 DEF Rank
<1>6. /\ \A i \in 1 .. c : At(x, i) \in x /\ Rank(x, At(x, i)) = i
      /\ \A k \in y : At(y, Rank(y, k)) = k
  BY <1>1, RankInverse
<1> HIDE DEF y, c
<1>7. \A i \in 1 .. c : At(y, i) = At(x, i)
  BY <1>4, <1>6 DEF y
<1>8. At(y, c + 1) = m
  BY <1>5, <1>6 DEF y
<1>9. Spelled(t, x) = [i \in 1 .. c |-> t[At(x, i)]] /\ Spelled(t, y) = [i \in 1 .. c + 1 |-> t[At(y, i)]]
  BY <1>3 DEF Spelled, c
<1>10. Spelled(t, x) \in Seq(Symbols) /\ Len(Spelled(t, x)) = c
  <2>1. \A i \in 1 .. c : t[At(x, i)] \in Symbols
    <3>1. \A j \in x : t[j] \in Symbols
      OBVIOUS
    <3>2. QED
      BY <1>6, <3>1
  <2>2. [i \in 1 .. c |-> t[At(x, i)]] \in [1 .. c -> Symbols]
    BY <2>1
  <2>3. QED
    BY <1>2, <1>9, <2>2
<1>11. Append(Spelled(t, x), t[m]) = [i \in 1 .. c + 1 |-> IF i <= c THEN Spelled(t, x)[i] ELSE t[m]]
  BY <1>2, <1>10
<1>12. \A i \in 1 .. c + 1 : t[At(y, i)] = IF i <= c THEN Spelled(t, x)[i] ELSE t[m]
  <2>1. SUFFICES ASSUME NEW i \in 1 .. c + 1
                 PROVE  t[At(y, i)] = IF i <= c THEN Spelled(t, x)[i] ELSE t[m]
    OBVIOUS
  <2>2. i \in 1 .. c \/ (i = c + 1 /\ ~(i <= c))
    BY <1>2
  <2>3. QED
    BY <1>2, <1>7, <1>8, <1>9, <2>2
<1>13. QED
  BY <1>9, <1>11, <1>12 DEF y

(* The step of the fold that collects the words. *)
Collects(it, t) ==
  it = [s \in SUBSET DOMAIN t |->
          IF s = {} THEN <<>>
          ELSE IF t[Max(s)] \in NewLineSymbols THEN it[s \ {Max(s)}]
          ELSE Append(it[s \ {Max(s)}], t[Max(s)])]

(* Spelling the positions of words collects them ... *)
LEMMA SpelledCollects ==
  ASSUME NEW t \in Seq(Symbols)
  PROVE  Collects([s \in SUBSET DOMAIN t |-> Spelled(t, s \cap Text(t))], t)
<1> DEFINE D == DOMAIN t
           f == [s \in SUBSET D |-> Spelled(t, s \cap Text(t))]
<1>1. Len(t) \in Nat /\ D = 1 .. Len(t)
  OBVIOUS
<1>2. ASSUME NEW s \in SUBSET D
      PROVE  f[s] = IF s = {} THEN <<>>
                    ELSE IF t[Max(s)] \in NewLineSymbols THEN f[s \ {Max(s)}]
                    ELSE Append(f[s \ {Max(s)}], t[Max(s)])
  <2>1. CASE s = {}
    <3>1. Spelled(t, {}) = <<>>
      BY FS_EmptySet DEF Spelled
    <3>2. s \cap Text(t) = {}
      BY <2>1
    <3>3. QED
      BY <2>1, <3>1, <3>2
  <2>2. CASE s # {}
    <3> DEFINE m == Max(s)
               r == s \ {m}
               x == r \cap Text(t)
    <3>1. m \in s /\ \A j \in s : j <= m
      BY <1>1, <2>2, MaxFacts
    <3> HIDE DEF m
    <3>2. f[s] = Spelled(t, s \cap Text(t)) /\ f[r] = Spelled(t, x)
      OBVIOUS
    <3>3. CASE t[m] \in NewLineSymbols
      <4>1. s \cap Text(t) = x
        BY <3>3 DEF Text
      <4>2. QED
        BY <2>2, <3>2, <3>3, <4>1 DEF m
    <3>4. CASE t[m] \notin NewLineSymbols
      <4>1. s \cap Text(t) = x \cup {m}
        BY <3>1, <3>4 DEF Text
      <4>2. x \in SUBSET (1 .. Len(t)) /\ m \in 1 .. Len(t)
        BY <1>1, <3>1
      <4>3. \A j \in x : j < m
        BY <1>1, <3>1, <4>2
      <4> HIDE DEF x
      <4>4. Spelled(t, x \cup {m}) = Append(Spelled(t, x), t[m])
        BY <4>2, <4>3, SpelledLast
      <4>5. QED
        BY <2>2, <3>2, <3>4, <4>1, <4>4 DEF m
    <3>5. QED
      BY <3>3, <3>4
  <2>3. QED
    BY <2>1, <2>2
<1> HIDE DEF f
<1>3. f = [s \in SUBSET D |-> f[s]]
  BY DEF f
<1>4. QED
  BY <1>2, <1>3 DEF Collects, f

(* ... and nothing else does. *)
LEMMA CollectsOnce ==
  ASSUME NEW t \in Seq(Symbols), NEW f, NEW g, Collects(f, t), Collects(g, t)
  PROVE  \A s \in SUBSET DOMAIN t : f[s] = g[s]
<1> DEFINE D == {s \in SUBSET DOMAIN t : f[s] # g[s]}
           N == {n \in Nat : \E s \in D : n = Cardinality(s)}
<1>1. SUFFICES ASSUME NEW d \in D PROVE FALSE
  OBVIOUS
<1>2. \A s \in SUBSET DOMAIN t : IsFiniteSet(s) /\ Cardinality(s) \in Nat
  BY Interval, FS_Subset, FS_CardinalityType
<1>3. N \in SUBSET Nat /\ N # {}
  BY <1>1, <1>2
<1>4. PICK n \in N : \A m \in N : n <= m
  <2> HIDE DEF N
  <2>1. QED
    BY <1>3, LeastNumber
<1>5. PICK s \in D : n = Cardinality(s)
  OBVIOUS
<1>6. s \in SUBSET DOMAIN t /\ f[s] # g[s]
  OBVIOUS
<1> DEFINE m == Max(s)
           r == s \ {m}
<1>7. /\ f[s] = IF s = {} THEN <<>> ELSE IF t[m] \in NewLineSymbols THEN f[r] ELSE Append(f[r], t[m])
      /\ g[s] = IF s = {} THEN <<>> ELSE IF t[m] \in NewLineSymbols THEN g[r] ELSE Append(g[r], t[m])
  BY <1>6 DEF Collects
<1>8. s # {} /\ f[r] # g[r]
  BY <1>6, <1>7
<1>9. m \in s
  <2>1. s \in SUBSET (1 .. Len(t)) /\ Len(t) \in Nat
    BY <1>6
  <2>2. QED
    BY <1>8, <2>1, MaxFacts
<1> HIDE DEF m
<1>10. r \in SUBSET DOMAIN t
  BY <1>6
<1>11. Cardinality(r) = Cardinality(s) - 1 /\ Cardinality(r) \in Nat /\ Cardinality(s) \in Nat
  BY <1>2, <1>6, <1>9, <1>10, FS_RemoveElement
<1>12. Cardinality(r) \in N
  BY <1>8, <1>10, <1>11
<1> HIDE DEF N, r
<1>13. n <= Cardinality(r)
  BY <1>4, <1>12
<1>14. QED
  BY <1>5, <1>11, <1>13

(* The words of a text are its symbols other than line ends. *)
LEMMA WordsAreSpelled ==
  ASSUME NEW t \in Seq(Symbols)
  PROVE  Words(t) = Spelled(t, Text(t))
<1> DEFINE D == DOMAIN t
           f == [s \in SUBSET D |-> Spelled(t, s \cap Text(t))]
           it == CHOOSE g : Collects(g, t)
<1>1. Words(t) = it[D]
  BY DEF Words, FoldLeft, MapThenFoldSet, Collects
<1>2. D \cap Text(t) = Text(t) /\ D \in SUBSET D
  BY DEF Text
<1>3. f[D] = Spelled(t, Text(t))
  BY <1>2
<1>4. Collects(f, t)
  BY SpelledCollects
<1> HIDE DEF f
<1>5. Collects(it, t)
  BY <1>4
<1> HIDE DEF it
<1>6. it[D] = f[D]
  BY <1>2, <1>4, <1>5, CollectsOnce
<1>7. QED
  BY <1>1, <1>3, <1>6

(* An order-preserving correspondence of positions spells the same. *)
LEMMA SameSpelling ==
  ASSUME NEW t \in Seq(Symbols), NEW v \in Seq(Symbols),
         NEW x \in SUBSET (1 .. Len(t)), NEW y \in SUBSET (1 .. Len(v)), NEW f \in Bijection(x, y),
         \A k, m \in x : k < m => f[k] < f[m], \A k \in x : v[f[k]] = t[k]
  PROVE  Spelled(t, x) = Spelled(v, y)
<1>1. /\ f \in [x -> y] /\ \A k, m \in x : f[k] = f[m] => k = m
      /\ \A j \in y : \E k \in x : f[k] = j
  BY DEF Bijection, Injection, Surjection, IsInjective
<1>2. Len(t) \in Nat /\ Len(v) \in Nat
  OBVIOUS
<1>3. IsFiniteSet(x)
  BY <1>2, RankGrows
<1>4. Cardinality(x) = Cardinality(y)
  BY <1>3, FS_Bijection DEF ExistsBijection
<1>5. ASSUME NEW k \in x PROVE Rank(x, k) = Rank(y, f[k])
  <2> DEFINE X == {j \in x : j <= k}
             Y == {j \in y : j <= f[k]}
             h == [j \in X |-> f[j]]
  <2>1. \A j \in x : j <= k <=> f[j] <= f[k]
    <3>1. \A j \in x : j \in Nat /\ f[j] \in Nat
      <4>1. (\A j \in x : j \in Nat) /\ (\A j \in y : j \in Nat)
        OBVIOUS
      <4>2. QED
        BY <1>1, <4>1
    <3>2. \A j \in x : (j < k => f[j] < f[k]) /\ (k < j => f[k] < f[j])
      OBVIOUS
    <3>3. QED
      BY <3>1, <3>2
  <2>2. h \in [X -> Y]
    BY <1>1, <2>1
  <2>3. \A i, j \in X : h[i] = h[j] => i = j
    BY <1>1
  <2>4. \A j \in Y : \E i \in X : h[i] = j
    BY <1>1, <2>1
  <2>5. h \in Bijection(X, Y)
    BY <2>2, <2>3, <2>4 DEF Bijection, Injection, Surjection, IsInjective
  <2>6. IsFiniteSet(X)
    <3>1. X \in SUBSET x
      OBVIOUS
    <3>2. QED
      BY <1>3, <3>1, FS_Subset
  <2> HIDE DEF X, Y, h
  <2>7. Cardinality(X) = Cardinality(Y)
    BY <2>5, <2>6, FS_Bijection DEF ExistsBijection
  <2>8. QED
    BY <2>7 DEF Rank, X, Y
<1>6. ASSUME NEW i \in 1 .. Cardinality(x) PROVE t[At(x, i)] = v[At(y, i)]
  <2>1. At(x, i) \in x /\ Rank(x, At(x, i)) = i
    BY <1>2, RankInverse
  <2>2. f[At(x, i)] \in y /\ Rank(y, f[At(x, i)]) = i
    BY <1>1, <1>5, <2>1
  <2>3. At(y, i) = f[At(x, i)]
    <3>1. \A j \in y : At(y, Rank(y, j)) = j
      BY <1>2, RankInverse
    <3>2. QED
      BY <2>2, <3>1
  <2>4. QED
    BY <2>1, <2>3
<1>7. QED
  BY <1>4, <1>6 DEF Spelled

(* NormalizeContent changes a text in nothing but how its lines end, and     *)
(* what either connector would have taken before, it takes after: for texts  *)
(* of any length, and any limits of the two networks.                        *)
THEOREM NormalizationFaithful ==
  ASSUME NEW t \in Seq(Symbols)
  PROVE  /\ Cardinality(Breaks(NewLines(t))) = Cardinality(Breaks(t))
         /\ Words(NewLines(t)) = Words(t)
         /\ NewLines(NewLines(t)) = NewLines(t)
         /\ Accepted(NewLines(t)) <=> Accepted(t)
         /\ ValidateXText(t) => ValidateXText(NewLines(t))
         /\ ValidateNostrText(t) => ValidateNostrText(NewLines(t))
<1> DEFINE v == NewLines(t)
<1>1. v \in Seq(Symbols)
  BY NewLinesFacts
<1>2. Words(v) = Words(t)
  <2>1. PICK f \in Bijection(Text(t), Text(v)) :
          /\ \A k, m \in Text(t) : k < m => f[k] < f[m]
          /\ \A k \in Text(t) : v[f[k]] = t[k]
    BY NormalizationKeepsTheText
  <2>2. Text(t) \in SUBSET (1 .. Len(t)) /\ Text(v) \in SUBSET (1 .. Len(v))
    BY <1>1 DEF Text
  <2> HIDE DEF v
  <2>3. Spelled(t, Text(t)) = Spelled(v, Text(v))
    BY <1>1, <2>1, <2>2, SameSpelling
  <2>4. QED
    BY <1>1, <2>3, WordsAreSpelled
<1>3. \A s \in Symbols \ NewLineSymbols : Contains(v, s) <=> Contains(t, s)
  BY SameSymbols
<1>4. /\ Valid(v) <=> Valid(t)
      /\ Contains(v, "nul") <=> Contains(t, "nul")
      /\ Contains(v, "ctl") <=> Contains(t, "ctl")
  BY <1>3 DEF Valid, Symbols, NewLineSymbols
<1>5. Blank(v) <=> Blank(t)
  BY <1>1, <1>3, BlankSymbols DEF NewLineSymbols
<1>6. ValidateXText(t) => ValidateXText(v)
  BY <1>4, <1>5, NoMoreWeight, ContentAssumption DEF ValidateXText
<1>7. ValidateNostrText(t) => ValidateNostrText(v)
  BY <1>4, <1>5, FewerBytes, ContentAssumption DEF ValidateNostrText
<1>8. QED
  BY <1>2, <1>6, <1>7, NormalizationIsStable, NormalizationKeepsTheText
=============================================================================
