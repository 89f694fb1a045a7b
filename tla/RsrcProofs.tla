----------------------------- MODULE RsrcProofs -----------------------------
(***************************************************************************)
(* Lemmas about modules Rsrc and LvMeta, for every width of a byte, every  *)
(* set of sections and every order of blocks: what the parser accepts;     *)
(* what the writers lay out; that the parser finds it again, since the     *)
(* entries of a name table do not overlap, however names are shared and    *)
(* whichever writer has laid them out; and that an edit that is not        *)
(* refused yields a file.                                                  *)
(***************************************************************************)
EXTENDS LvMeta, FiniteSetTheorems, FunctionTheorems, SequenceTheorems,
        WellFoundedInduction, TLAPS

-----------------------------------------------------------------------------
(***************************************************************************)
(* Finite sets.                                                            *)
(***************************************************************************)

\* A function with integer values takes its greatest one on a finite set: the
\* end of the name table exists however many entries there are.
LEMMA GreatestValue ==
  ASSUME NEW S, IsFiniteSet(S), S # {}, NEW g \in [S -> Int]
  PROVE  \E m \in S : \A x \in S : g[x] <= g[m]
<1> DEFINE HasGreatest(A) == \E m \in A : \A x \in A : g[x] <= g[m]
           Bad == {A \in FiniteSubsetsOf(S) : A # {} /\ ~HasGreatest(A)}
<1>1. SUFFICES ASSUME Bad # {} PROVE FALSE
  <2>1. S \in FiniteSubsetsOf(S) BY DEF FiniteSubsetsOf
  <2> QED BY <2>1
<1>2. PICK A \in Bad : \A B \in Bad : << B, A >> \notin StrictSubsetOrdering(S)
  <2> HIDE DEF Bad
  <2>1. Bad \subseteq FiniteSubsetsOf(S) BY DEF Bad
  <2> QED BY <1>1, <2>1, FS_StrictSubsetOrderingWellFounded, WFMin, Zenon
<1>3. PICK a \in A : TRUE BY <1>2
<1>4. A \ {a} \in FiniteSubsetsOf(S) /\ A \in FiniteSubsetsOf(S)
  BY <1>2, FS_RemoveElement DEF FiniteSubsetsOf
<1>5. A \ {a} \notin Bad
  <2>1. << A \ {a}, A >> \in StrictSubsetOrdering(S)
    BY <1>3, <1>4 DEF StrictSubsetOrdering, FiniteSubsetsOf
  <2> QED BY <1>2, <2>1
<1>6. CASE A \ {a} = {}
  <2>1. A = {a} BY <1>3, <1>6
  <2>2. g[a] \in Int BY <1>3, <1>4 DEF FiniteSubsetsOf
  <2> QED BY <1>2, <2>1, <2>2
<1>7. CASE A \ {a} # {}
  <2>1. PICK m \in A \ {a} : \A x \in A \ {a} : g[x] <= g[m]
    BY <1>4, <1>5, <1>7
  <2>2. \A x \in A : g[x] \in Int BY <1>4 DEF FiniteSubsetsOf
  <2>3. CASE g[m] <= g[a] BY <1>2, <1>3, <2>1, <2>2, <2>3
  <2>4. CASE ~(g[m] <= g[a]) BY <1>2, <1>3, <2>1, <2>2, <2>4
  <2> QED BY <2>3, <2>4
<1> QED BY <1>6, <1>7

\* The bytes in front of an entry or of a payload are counted by a natural
\* number.
LEMMA CountedBytes ==
  ASSUME NEW S, IsFiniteSet(S), NEW n \in Int, NEW T, T \subseteq S \X (0 .. n)
  PROVE  Cardinality(T) \in Nat
<1>1. IsFiniteSet(0 .. n) BY FS_Interval
<1>2. IsFiniteSet(S \X (0 .. n)) BY <1>1, FS_Product
<1>3. T \in SUBSET (S \X (0 .. n)) OBVIOUS
<1>4. IsFiniteSet(T) BY <1>2, <1>3, FS_Subset
<1> QED BY <1>4, FS_CardinalityType

LEMMA BytesOfType ==
  ASSUME NEW values, NEW offs, IsFiniteSet(offs)
  PROVE  BytesOf(values, offs) \in Nat
<1>1. MaxNameLen \in Int BY ByteModAssumption DEF MaxNameLen
<1> QED BY <1>1, CountedBytes DEF BytesOf

LEMMA DataOffsetType ==
  ASSUME NEW f, NEW blocks, NEW s, IsFiniteSet(DOMAIN f.sec)
  PROVE  DataOffset(f, blocks, s) \in Nat
<1> DEFINE ahead == {t \in DOMAIN f.sec : Before(blocks, t, s)}
<1>1. IsFiniteSet(ahead) BY FS_Subset
<1>2. MaxLen + 7 \in Int BY MaxLenAssumption
<1>3. Cardinality({c \in ahead \X (0 .. MaxLen + 7) :
                     c[2] < Stored(f.sec[c[1]].payload)}) \in Nat
  <2> HIDE DEF ahead
  <2> QED BY <1>1, <1>2, CountedBytes
<1> QED BY <1>3 DEF DataOffset

\* Things laid out one behind the other: what lies in front of x, and x, fit
\* in front of whatever lies behind both.
Cells(S, size, n) == {c \in S \X (0 .. n) : c[2] < size[c[1]]}

LEMMA PackedSizes ==
  ASSUME NEW T, IsFiniteSet(T), NEW S, S \subseteq T, NEW x \in T \ S,
         NEW n \in Nat, NEW size \in [T -> 0 .. n + 1]
  PROVE  Cardinality(Cells(S, size, n)) + size[x] <= Cardinality(Cells(T, size, n))
<1> DEFINE row == {x} \X (0 .. size[x] - 1)
           C == Cells(S, size, n)
           D == Cells(T, size, n)
<1>1. size[x] \in 0 .. n + 1 OBVIOUS
<1>2. IsFiniteSet(row) /\ Cardinality(row) = size[x]
  <2>1. IsFiniteSet({x}) /\ Cardinality({x}) = 1 BY FS_Singleton
  <2>2. /\ IsFiniteSet(0 .. size[x] - 1)
        /\ Cardinality(0 .. size[x] - 1) = size[x]
    <3>1. PICK m \in Nat : m = size[x] BY <1>1
    <3> HIDE DEF row, C, D
    <3>2. 0 \in Int /\ m - 1 \in Int /\ (0 > m - 1 => m = 0) BY <3>1
    <3>3. IsFiniteSet(0 .. m - 1)
          /\ Cardinality(0 .. m - 1) = IF 0 > m - 1 THEN 0 ELSE m - 1 - 0 + 1
      BY <3>2, FS_Interval
    <3>4. Cardinality(0 .. m - 1) = m BY <3>1, <3>2, <3>3
    <3> QED BY <3>1, <3>3, <3>4
  <2>3. Cardinality(row) = 1 * size[x] /\ IsFiniteSet(row)
    BY <2>1, <2>2, FS_Product
  <2> HIDE DEF row
  <2> QED BY <1>1, <2>3
<1>3. IsFiniteSet(D) /\ IsFiniteSet(C)
  <2>1. IsFiniteSet(0 .. n) BY FS_Interval
  <2>2. IsFiniteSet(T \X (0 .. n)) BY <2>1, FS_Product
  <2>3. D \in SUBSET (T \X (0 .. n)) BY DEF Cells
  <2>4. C \in SUBSET (T \X (0 .. n)) BY DEF Cells
  <2> HIDE DEF C, D
  <2> QED BY <2>2, <2>3, <2>4, FS_Subset
<1>4. C \cap row = {} BY DEF Cells
<1>5. C \cup row \in SUBSET D
  <2>1. C \subseteq D BY DEF Cells
  <2>2. row \subseteq D BY <1>1 DEF Cells
  <2> HIDE DEF C, D, row
  <2> QED BY <2>1, <2>2
<1> HIDE DEF C, D, row
<1>6. Cardinality(C \cup row) = Cardinality(C) + Cardinality(row) - Cardinality({})
  BY <1>2, <1>3, <1>4, FS_Union
<1>7. Cardinality(C \cup row) <= Cardinality(D) BY <1>3, <1>5, FS_Subset
<1>8. Cardinality(C) \in Nat /\ Cardinality({}) = 0
  BY <1>3, FS_CardinalityType, FS_EmptySet
<1>9. Cardinality(C) + size[x] <= Cardinality(D)
  BY <1>1, <1>2, <1>6, <1>7, <1>8
<1> QED BY <1>9 DEF C, D

\* R orders S, totally and strictly.
IsTotalOrder(R, S) ==
  /\ \A x \in S : << x, x >> \notin R
  /\ \A x, y, z \in S : << x, y >> \in R /\ << y, z >> \in R => << x, z >> \in R
  /\ \A x, y \in S : x = y \/ << x, y >> \in R \/ << y, x >> \in R

Below(R, S, x) == {y \in S : << y, x >> \in R}

\* Laid out in a total order, no two things overlap.
LEMMA PackedDisjoint ==
  ASSUME NEW S, IsFiniteSet(S), NEW R, IsTotalOrder(R, S),
         NEW n \in Nat, NEW size \in [S -> 0 .. n + 1], NEW x \in S, NEW y \in S,
         << x, y >> \in R
  PROVE  Cardinality(Cells(Below(R, S, x), size, n)) + size[x]
           <= Cardinality(Cells(Below(R, S, y), size, n))
<1> DEFINE X == Below(R, S, x)
           Y == Below(R, S, y)
<1>1. X \subseteq Y /\ x \in Y \ X /\ Y \in SUBSET S
  BY DEF Below, IsTotalOrder
<1>2. IsFiniteSet(Y) BY <1>1, FS_Subset
<1> DEFINE onY == [z \in Y |-> size[z]]
<1>3. onY \in [Y -> 0 .. n + 1] /\ onY[x] = size[x] BY <1>1
<1>4. Cells(X, onY, n) = Cells(X, size, n) /\ Cells(Y, onY, n) = Cells(Y, size, n)
  <2> HIDE DEF X, Y
  <2> QED BY <1>1 DEF Cells
<1>5. Cardinality(Cells(X, onY, n)) + onY[x] <= Cardinality(Cells(Y, onY, n))
  <2> HIDE DEF X, Y, onY
  <2> QED BY <1>1, <1>2, <1>3, PackedSizes
<1> HIDE DEF onY
<1> QED BY <1>3, <1>4, <1>5

-----------------------------------------------------------------------------
(***************************************************************************)
(* Sorting.                                                                *)
(***************************************************************************)

\* Counting what lies below gives each place once.
LEMMA RankIsBijection ==
  ASSUME NEW n \in Nat, NEW R, IsTotalOrder(R, 1 .. n),
         NEW rank,
         \A i \in 1 .. n : rank[i] = 1 + Cardinality(Below(R, 1 .. n, i))
  PROVE  /\ \A i \in 1 .. n : rank[i] \in 1 .. n
         /\ \A i, j \in 1 .. n : rank[i] = rank[j] => i = j
         /\ \A k \in 1 .. n : \E i \in 1 .. n : rank[i] = k
         /\ \A i, j \in 1 .. n : << i, j >> \in R => rank[i] < rank[j]
<1> DEFINE D == 1 .. n
           B(i) == Below(R, D, i)
           place == [i \in D |-> rank[i]]
<1>1. IsFiniteSet(D) /\ Cardinality(D) = n BY FS_Interval
<1>2. ASSUME NEW i \in D
      PROVE  /\ IsFiniteSet(B(i)) /\ Cardinality(B(i)) \in 0 .. n - 1
             /\ IsFiniteSet(B(i) \cup {i})
             /\ Cardinality(B(i) \cup {i}) = Cardinality(B(i)) + 1
  <2>1. B(i) \in SUBSET (D \ {i}) BY DEF Below, IsTotalOrder
  <2>2. IsFiniteSet(D \ {i}) /\ Cardinality(D \ {i}) = n - 1
    BY <1>1, FS_RemoveElement
  <2> HIDE DEF D, B
  <2>3. IsFiniteSet(B(i)) /\ Cardinality(B(i)) <= n - 1 BY <2>1, <2>2, FS_Subset
  <2>4. Cardinality(B(i)) \in Nat BY <2>3, FS_CardinalityType
  <2>5. i \notin B(i) BY <2>1
  <2> QED BY <2>3, <2>4, <2>5, FS_AddElement
<1>3. ASSUME NEW i \in D, NEW j \in D, << i, j >> \in R
      PROVE  Cardinality(B(i)) < Cardinality(B(j))
  <2>1. B(i) \cup {i} \in SUBSET B(j) BY <1>3 DEF Below, IsTotalOrder
  <2>2. /\ Cardinality(B(i)) \in 0 .. n - 1 /\ IsFiniteSet(B(j))
        /\ Cardinality(B(i) \cup {i}) = Cardinality(B(i)) + 1
        /\ Cardinality(B(j)) \in 0 .. n - 1
    BY <1>2
  <2> HIDE DEF D, B
  <2>3. Cardinality(B(i) \cup {i}) <= Cardinality(B(j)) BY <2>1, <2>2, FS_Subset
  <2> QED BY <2>2, <2>3
<1>4. place \in [D -> D]
  <2>1. \A i \in D : rank[i] = 1 + Cardinality(B(i)) OBVIOUS
  <2>2. ASSUME NEW i \in D PROVE 1 + Cardinality(B(i)) \in D
    <3>1. Cardinality(B(i)) \in 0 .. n - 1 BY <1>2
    <3> HIDE DEF B
    <3> QED BY <3>1
  <2> HIDE DEF B
  <2> QED BY <2>1, <2>2
<1>5. \A i, j \in D : rank[i] = rank[j] => i = j
  <2> SUFFICES ASSUME NEW i \in D, NEW j \in D, i # j PROVE rank[i] # rank[j]
    OBVIOUS
  <2>1. << i, j >> \in R \/ << j, i >> \in R BY DEF IsTotalOrder
  <2>2. rank[i] = 1 + Cardinality(B(i)) /\ rank[j] = 1 + Cardinality(B(j)) OBVIOUS
  <2>3. Cardinality(B(i)) \in 0 .. n - 1 /\ Cardinality(B(j)) \in 0 .. n - 1
    BY <1>2
  <2> HIDE DEF B, D
  <2>4. Cardinality(B(i)) < Cardinality(B(j)) \/ Cardinality(B(j)) < Cardinality(B(i))
    BY <1>3, <2>1
  <2> QED BY <2>2, <2>3, <2>4
<1>6. place \in Surjection(D, D)
  <2>1. place \in Injection(D, D) BY <1>4, <1>5 DEF Injection, IsInjective
  <2> HIDE DEF D, place
  <2> QED BY <1>1, <2>1, FS_Injection
<1>7. \A i \in D : rank[i] = place[i] OBVIOUS
<1>8. ASSUME NEW i \in D, NEW j \in D, << i, j >> \in R PROVE rank[i] < rank[j]
  <2>1. rank[i] = 1 + Cardinality(B(i)) /\ rank[j] = 1 + Cardinality(B(j)) OBVIOUS
  <2>2. Cardinality(B(i)) \in 0 .. n - 1 /\ Cardinality(B(j)) \in 0 .. n - 1
    BY <1>2
  <2>3. Cardinality(B(i)) < Cardinality(B(j)) BY <1>3, <1>8
  <2> HIDE DEF B, D
  <2> QED BY <2>1, <2>2, <2>3
<1> HIDE DEF place
<1> QED BY <1>4, <1>5, <1>6, <1>7, <1>8 DEF Surjection

\* W compares the elements of S; those it does not tell apart are equal to it.
IsWeakOrder(W, S) ==
  /\ \A x \in S : << x, x >> \notin W
  /\ \A x, y, z \in S : << x, y >> \in W /\ << y, z >> \in W => << x, z >> \in W
  /\ \A x, y, z \in S :
       << x, y >> \notin W /\ << y, z >> \notin W => << x, z >> \notin W

\* The order of a stable sort: equal elements stay in the order of their
\* places.
Stable(W, S) ==
  {c \in S \X S : c \in W \/ (<< c[2], c[1] >> \notin W /\ c[1] < c[2])}

LEMMA StableOrder ==
  ASSUME NEW n \in Nat, NEW W, IsWeakOrder(W, 1 .. n)
  PROVE  IsTotalOrder(Stable(W, 1 .. n), 1 .. n)
<1> DEFINE R(x, y) == << x, y >> \in W \/ (<< y, x >> \notin W /\ x < y)
<1>1. \A x, y \in 1 .. n : << x, y >> \in Stable(W, 1 .. n) <=> R(x, y)
  BY DEF Stable
<1>2. ASSUME NEW x \in 1 .. n PROVE ~R(x, x)
  <2>1. ~(x < x) OBVIOUS
  <2> QED BY <2>1 DEF IsWeakOrder
<1>3. \A x, y, z \in 1 .. n : R(x, y) /\ R(y, z) => R(x, z)
  BY DEF IsWeakOrder
<1>4. \A x, y \in 1 .. n : x = y \/ R(x, y) \/ R(y, x) OBVIOUS
<1> HIDE DEF R
<1> QED BY <1>1, <1>2, <1>3, <1>4 DEF IsTotalOrder

\* r holds the elements of q, each as often, in another order.
IsReordering(r, q) ==
  /\ r \in [DOMAIN q -> Range(q)]
  /\ \E from \in [DOMAIN q -> DOMAIN q] :
       /\ \A k, l \in DOMAIN q : from[k] = from[l] => k = l
       /\ \A i \in DOMAIN q : \E k \in DOMAIN q : from[k] = i
       /\ \A k \in DOMAIN q : r[k] = q[from[k]]

\* An order of what a sequence holds orders its places.
PlacePairs(W, q) == {c \in (DOMAIN q) \X (DOMAIN q) : << q[c[1]], q[c[2]] >> \in W}

LEMMA PlacesOrdered ==
  ASSUME NEW S, NEW W, IsWeakOrder(W, S), NEW q \in Seq(S)
  PROVE  IsWeakOrder(PlacePairs(W, q), DOMAIN q)
<1>1. \A i \in DOMAIN q : q[i] \in S OBVIOUS
<1>2. \A i, j \in DOMAIN q :
        << i, j >> \in PlacePairs(W, q) <=> << q[i], q[j] >> \in W
  BY DEF PlacePairs
<1> HIDE DEF PlacePairs
<1> QED BY <1>1, <1>2 DEF IsWeakOrder

\* Nothing is less than what stands in front of it.
IsSorted(q, V) == \A k, l \in DOMAIN q : k < l => << q[l], q[k] >> \notin V

LEMMA SortReorders ==
  ASSUME NEW A, NEW q \in Seq(A), NEW V, IsWeakOrder(V, A),
         NEW r, r = CHOOSE t \in [DOMAIN q -> Range(q)] :
                      \A i \in DOMAIN q :
                        t[1 + Cardinality(Below(Stable(PlacePairs(V, q), DOMAIN q),
                                                DOMAIN q, i))] = q[i]
  PROVE  IsReordering(r, q) /\ IsSorted(r, V)
<1> DEFINE D == DOMAIN q
           W == PlacePairs(V, q)
           rank == [i \in D |-> 1 + Cardinality(Below(Stable(W, D), D, i))]
           from == [k \in D |-> CHOOSE i \in D : rank[i] = k]
           sorted == [k \in D |-> q[from[k]]]
           Placed(p) == \A i \in D : p[rank[i]] = q[i]
<1>0. /\ IsWeakOrder(W, D)
      /\ \A i, j \in D : << i, j >> \in W <=> << q[i], q[j] >> \in V
  BY PlacesOrdered DEF PlacePairs
<1>r. r = CHOOSE p \in [D -> Range(q)] : Placed(p) OBVIOUS
<1> HIDE DEF W
<1>1. PICK n \in Nat : D = 1 .. n
  <2>1. Len(q) \in Nat /\ DOMAIN q = 1 .. Len(q) OBVIOUS
  <2> QED BY <2>1
<1>2. /\ rank \in [D -> D]
      /\ \A i, j \in D : rank[i] = rank[j] => i = j
      /\ \A k \in D : \E i \in D : rank[i] = k
      /\ \A i, j \in D : << i, j >> \in W => rank[i] < rank[j]
  <2>1. IsTotalOrder(Stable(W, 1 .. n), 1 .. n) BY <1>0, <1>1, StableOrder
  <2>2. \A i \in 1 .. n :
          rank[i] = 1 + Cardinality(Below(Stable(W, 1 .. n), 1 .. n, i))
    BY <1>1
  <2>3. rank = [i \in D |-> rank[i]] OBVIOUS
  <2> HIDE DEF rank, D
  <2>4. /\ \A i \in 1 .. n : rank[i] \in 1 .. n
        /\ \A i, j \in 1 .. n : rank[i] = rank[j] => i = j
        /\ \A k \in 1 .. n : \E i \in 1 .. n : rank[i] = k
        /\ \A i, j \in 1 .. n : << i, j >> \in Stable(W, 1 .. n) => rank[i] < rank[j]
    <3> DEFINE R == Stable(W, 1 .. n)
    <3>1. /\ IsTotalOrder(R, 1 .. n)
          /\ \A i \in 1 .. n : rank[i] = 1 + Cardinality(Below(R, 1 .. n, i))
      BY <2>1, <2>2
    <3> HIDE DEF R
    <3>2. /\ \A i \in 1 .. n : rank[i] \in 1 .. n
          /\ \A i, j \in 1 .. n : rank[i] = rank[j] => i = j
          /\ \A k \in 1 .. n : \E i \in 1 .. n : rank[i] = k
          /\ \A i, j \in 1 .. n : << i, j >> \in R => rank[i] < rank[j]
      BY <3>1, RankIsBijection
    <3> QED BY <3>2 DEF R
  <2>5. \A i, j \in 1 .. n : << i, j >> \in W => << i, j >> \in Stable(W, 1 .. n)
    BY DEF Stable
  <2> QED BY <1>1, <2>3, <2>4, <2>5
<1> HIDE DEF rank
<1>4. /\ from \in [D -> D]
      /\ \A k \in D : rank[from[k]] = k
      /\ \A i \in D : from[rank[i]] = i
  BY <1>2
<1> HIDE DEF from
<1>5. \A i \in D : q[i] \in Range(q) BY DEF Range
<1>6. sorted \in [D -> Range(q)] /\ Placed(sorted) BY <1>2, <1>4, <1>5
<1>7. r \in [D -> Range(q)] /\ Placed(r)
  <2> HIDE DEF Placed, sorted, D
  <2> QED BY <1>r, <1>6
<1>8. \A k \in D : r[k] = q[from[k]] BY <1>4, <1>7
<1>9. \A k, l \in D : from[k] = from[l] => k = l BY <1>4
<1>10. \A i \in D : \E k \in D : from[k] = i BY <1>2, <1>4
<1>11. ASSUME NEW k \in D, NEW l \in D, k < l PROVE << r[l], r[k] >> \notin V
  <2>1. from[k] \in D /\ from[l] \in D /\ rank[from[k]] = k /\ rank[from[l]] = l
    BY <1>4
  <2>2. k \in Int /\ l \in Int BY <1>1
  <2>3. ASSUME << from[l], from[k] >> \in W PROVE FALSE
    <3>1. rank[from[l]] < rank[from[k]] BY <1>2, <2>1, <2>3
    <3> HIDE DEF D
    <3> QED BY <1>11, <2>1, <2>2, <3>1
  <2> QED BY <1>0, <1>8, <2>1, <2>3
<1>12. DOMAIN r = D BY <1>7
<1> QED BY <1>4, <1>7, <1>8, <1>9, <1>10, <1>11, <1>12 DEF IsReordering, IsSorted

\* Sorting again changes nothing.
LEMMA SortKeeps ==
  ASSUME NEW A, NEW q \in Seq(A), NEW V, IsWeakOrder(V, A), IsSorted(q, V),
         NEW r, r = CHOOSE t \in [DOMAIN q -> Range(q)] :
                      \A i \in DOMAIN q :
                        t[1 + Cardinality(Below(Stable(PlacePairs(V, q), DOMAIN q),
                                                DOMAIN q, i))] = q[i]
  PROVE  r = q
<1> DEFINE D == DOMAIN q
           W == PlacePairs(V, q)
<1>1. PICK n \in Nat : D = 1 .. n
  <2>1. Len(q) \in Nat /\ DOMAIN q = 1 .. Len(q) OBVIOUS
  <2> QED BY <2>1
<1>2. /\ IsWeakOrder(W, D)
      /\ \A i, j \in D : << i, j >> \in W <=> << q[i], q[j] >> \in V
  BY PlacesOrdered DEF PlacePairs
<1>3. ASSUME NEW i \in D PROVE 1 + Cardinality(Below(Stable(W, D), D, i)) = i
  <2>1. ASSUME NEW j \in D PROVE << j, i >> \in Stable(W, D) <=> j < i
    <3>1. j < i => << i, j >> \notin W BY <1>2 DEF IsSorted
    <3>2. i < j => << j, i >> \notin W BY <1>2 DEF IsSorted
    <3>3. << i, i >> \notin W BY <1>2 DEF IsWeakOrder
    <3>4. i \in Int /\ j \in Int BY <1>1
    <3> HIDE DEF W, D
    <3>5. << j, i >> \in Stable(W, D) <=>
            << j, i >> \in W \/ (<< i, j >> \notin W /\ j < i)
      BY DEF Stable
    <3> QED BY <3>1, <3>2, <3>3, <3>4, <3>5
  <2> HIDE DEF W
  <2>2. Below(Stable(W, D), D, i) = 1 .. i - 1
    BY <1>1, <2>1 DEF Below
  <2>3. i \in Nat /\ i >= 1 BY <1>1
  <2>4. Cardinality(1 .. i - 1) = i - 1
    <3>1. i - 1 \in Nat BY <2>3
    <3> QED BY <3>1, FS_Interval
  <2> QED BY <2>2, <2>3, <2>4
<1>4. \A i \in D : q[i] \in Range(q) BY DEF Range
<1>5. q \in [D -> Range(q)]
  <2>1. q = [i \in D |-> q[i]] OBVIOUS
  <2> QED BY <1>4, <2>1
<1> DEFINE Placed(p) == \A i \in D : p[1 + Cardinality(Below(Stable(W, D), D, i))] = q[i]
<1>6. r = CHOOSE p \in [D -> Range(q)] : Placed(p) OBVIOUS
<1>7. Placed(q) BY <1>3
<1>8. r \in [D -> Range(q)] /\ Placed(r)
  <2> HIDE DEF Placed, D
  <2> QED BY <1>5, <1>6, <1>7
<1>9. \A i \in D : r[i] = q[i] BY <1>3, <1>8
<1> HIDE DEF D
<1> QED BY <1>5, <1>8, <1>9

-----------------------------------------------------------------------------
(***************************************************************************)
(* The name table.                                                         *)
(***************************************************************************)

\* The table ends behind its last entry.
LEMMA TableSizeIsEnd ==
  ASSUME NEW values, IsMap(values, Nat, Name),
         NEW place \in [DOMAIN values -> Nat]
  PROVE  /\ TableSize(values, place) \in Nat
         /\ \A o \in DOMAIN values :
              place[o] + EntrySize(values[o]) <= TableSize(values, place)
         /\ \/ TableSize(values, place) = 0
            \/ \E o \in DOMAIN values :
                 TableSize(values, place) = place[o] + EntrySize(values[o])
<1> DEFINE end == [o \in DOMAIN values |-> place[o] + EntrySize(values[o])]
<1>1. \A o \in DOMAIN values : EntrySize(values[o]) \in Nat
  BY DEF IsMap, Name, EntrySize
<1>2. end \in [DOMAIN values -> Nat] BY <1>1
<1>3. EntryEnds(values, place) = {end[o] : o \in DOMAIN values} BY DEF EntryEnds
<1>4. \E n \in {0} \cup EntryEnds(values, place) :
        \A e \in EntryEnds(values, place) : e <= n
  <2>1. CASE DOMAIN values = {} BY <1>3, <2>1
  <2>2. CASE DOMAIN values # {}
    <3>1. end \in [DOMAIN values -> Int] BY <1>2
    <3>2. \E m \in DOMAIN values : \A o \in DOMAIN values : end[o] <= end[m]
      <4> HIDE DEF end
      <4> QED BY <2>2, <3>1, GreatestValue DEF IsMap
    <3> QED BY <1>3, <3>2
  <2> QED BY <2>1, <2>2
<1>5. /\ TableSize(values, place) \in {0} \cup EntryEnds(values, place)
      /\ \A e \in EntryEnds(values, place) : e <= TableSize(values, place)
  BY <1>4 DEF TableSize
<1> QED BY <1>2, <1>3, <1>5

\* Every byte of the table is one: a length, a byte of a name or zero.
LEMMA NameTableType ==
  ASSUME NEW values, IsMap(values, Nat, Name),
         NEW place \in [DOMAIN values -> Nat]
  PROVE  NameTable(values, place) \in Seq(Byte)
<1>1. TableSize(values, place) \in Nat BY TableSizeIsEnd
<1>2. ASSUME NEW o \in DOMAIN values, NEW i \in 1 .. TableSize(values, place),
             Covers(values, place, o, i)
      PROVE  (IF i = place[o] + 1 THEN Len(values[o])
              ELSE values[o][i - place[o] - 1]) \in Byte
  <2>1. values[o] \in Seq(Byte) /\ Len(values[o]) \in 0 .. ByteMod - 1
    BY ByteModAssumption DEF IsMap, Name
  <2>2. place[o] \in Nat /\ place[o] < i /\ i <= place[o] + 1 + Len(values[o])
    BY <1>2 DEF Covers, EntrySize
  <2>3. CASE i = place[o] + 1 BY <2>1, <2>3 DEF Byte
  <2>4. CASE i # place[o] + 1
    <3>1. i - place[o] - 1 \in 1 .. Len(values[o]) BY <1>1, <2>1, <2>2, <2>4
    <3> QED BY <2>1, <2>4, <3>1
  <2> QED BY <2>3, <2>4
<1>3. 0 \in Byte BY ByteModAssumption DEF Byte
<1>4. CASE place = << >> BY <1>4 DEF NameTable
<1>5. CASE place # << >>
  <2> DEFINE Byte_(i) ==
          IF \E o \in DOMAIN values : Covers(values, place, o, i)
          THEN LET o == CHOOSE o \in DOMAIN values : Covers(values, place, o, i)
               IN  IF i = place[o] + 1 THEN Len(values[o])
                   ELSE values[o][i - place[o] - 1]
          ELSE 0
  <2>1. \A i \in 1 .. TableSize(values, place) : Byte_(i) \in Byte
    BY <1>2, <1>3
  <2>2. NameTable(values, place) = [i \in 1 .. TableSize(values, place) |-> Byte_(i)]
    BY <1>5 DEF NameTable
  <2> HIDE DEF Byte_
  <2> QED BY <1>1, <2>1, <2>2
<1> QED BY <1>4, <1>5

-----------------------------------------------------------------------------
(***************************************************************************)
(* Parsing.                                                                *)
(***************************************************************************)

\* A file uses finitely many name offsets.
LEMMA UsedOffsetsFinite ==
  ASSUME NEW sec, NEW T, IsMap(sec, Sections, T),
         \A d \in T : d.nameOff \in Nat \cup {NoNameOffset}
  PROVE  UsedOffsets(sec) \subseteq Nat /\ IsFiniteSet(UsedOffsets(sec))
<1> DEFINE off == [s \in DOMAIN sec |-> sec[s].nameOff]
           offs == {off[s] : s \in DOMAIN sec}
<1>1. off \in Surjection(DOMAIN sec, offs) BY DEF Surjection
<1>2. IsFiniteSet(offs)
  <2> HIDE DEF off, offs
  <2> QED BY <1>1, FS_Surjection DEF IsMap
<1>3. UsedOffsets(sec) = offs \ {NoNameOffset} BY DEF UsedOffsets
<1>4. IsFiniteSet(UsedOffsets(sec))
  <2> HIDE DEF offs
  <2> QED BY <1>2, <1>3, FS_Difference
<1>5. UsedOffsets(sec) \subseteq Nat BY DEF UsedOffsets, IsMap
<1> QED BY <1>4, <1>5

LEMMA ImageOffsets ==
  ASSUME NEW img, IsImage(img)
  PROVE  UsedOffsets(img.sec) \subseteq Nat /\ IsFiniteSet(UsedOffsets(img.sec))
<1>1. IsMap(img.sec, Sections, Descriptor) BY DEF IsImage
<1>2. \A d \in Descriptor : d.nameOff \in Nat \cup {NoNameOffset} BY DEF Descriptor
<1> QED BY <1>1, <1>2, UsedOffsetsFinite

LEMMA FileOffsets ==
  ASSUME NEW f, IsFile(f)
  PROVE  UsedOffsets(f.sec) \subseteq Nat /\ IsFiniteSet(UsedOffsets(f.sec))
<1>1. IsMap(f.sec, Sections, Section) BY DEF IsFile
<1>2. \A d \in Section : d.nameOff \in Nat \cup {NoNameOffset} BY DEF Section
<1> QED BY <1>1, <1>2, UsedOffsetsFinite

\* What the parser accepts as a name is one, and ends inside the info section.
LEMMA ParsedName ==
  ASSUME NEW img, IsImage(img), NEW o \in GoodOffsets(img)
  PROVE  /\ o \in Nat
         /\ NameAt(img, o) \in Name
         /\ NameEnd(img, o) \in 0 .. Len(img.tail)
<1>1. PICK z \in Seq(Byte) : z = Stream(img) /\ Len(z) >= Len(img.tail)
  <2>1. PICK t \in Seq(Byte), u \in Seq(Byte) : t = img.tail /\ u = img.slack
    BY DEF IsImage
  <2>2. t \o u \in Seq(Byte) /\ Len(t \o u) = Len(t) + Len(u)
    BY ConcatProperties, Zenon
  <2>3. Len(t) \in Nat /\ Len(u) \in Nat OBVIOUS
  <2>4. Len(t \o u) >= Len(t) BY <2>2, <2>3
  <2> QED BY <2>1, <2>2, <2>4 DEF Stream
<1>2. o \in Nat BY ImageOffsets DEF GoodOffsets
<1>3. /\ ~(o >= Len(img.tail))
      /\ o < Len(img.tail) =>
           /\ ~(o + 1 + z[o + 1] > Len(z))
           /\ ~(NameEnd(img, o) > Len(img.tail))
  BY <1>1 DEF GoodOffsets, BadName
<1>4. o < Len(img.tail) /\ Len(img.tail) \in Nat /\ Len(z) \in Nat
  <2>1. Len(img.tail) \in Nat BY DEF IsImage
  <2> QED BY <1>2, <1>3, <2>1
<1>5. PICK n \in Byte : n = z[o + 1]
  <2>1. o + 1 \in 1 .. Len(z) BY <1>1, <1>2, <1>4
  <2> QED BY <2>1
<1>6. n \in 0 .. ByteMod - 1 /\ ByteMod \in Nat \ {0, 1}
  BY ByteModAssumption DEF Byte
<1>7. Consumed(n) \in Nat
  <2>1. CASE n = 0 BY <2>1 DEF Consumed
  <2>2. CASE n # 0
    <3>1. (1 + n) % ByteMod \in Nat BY <1>6
    <3> QED BY <2>2, <3>1 DEF Consumed
  <2> QED BY <2>1, <2>2
<1>8. NameEnd(img, o) \in 0 .. Len(img.tail)
  BY <1>1, <1>2, <1>3, <1>4, <1>5, <1>7 DEF NameEnd
<1>9. NameAt(img, o) \in Name
  <2>1. o + 1 + n <= Len(z) BY <1>2, <1>3, <1>4, <1>5, <1>6
  <2>2. NameAt(img, o) = SubSeq(z, o + 2, o + 1 + n)
    BY <1>1, <1>5 DEF NameAt
  <2>3. \A i \in o + 2 .. o + 1 + n : z[i] \in Byte
    BY <1>2, <1>4, <1>6, <2>1
  <2>4. /\ NameAt(img, o) \in Seq(Byte)
        /\ Len(NameAt(img, o)) = IF o + 2 <= o + 1 + n THEN o + 1 + n - (o + 2) + 1 ELSE 0
    BY <1>2, <1>6, <2>2, <2>3, SubSeqProperties
  <2> QED BY <1>2, <1>6, <2>4 DEF Name
<1> QED BY <1>2, <1>8, <1>9

LEMMA RawTailStartExists ==
  ASSUME NEW img, IsImage(img)
  PROVE  \E e \in 0 .. Len(img.tail) :
           /\ e = 0 \/ \E o \in GoodOffsets(img) : e = NameEnd(img, o)
           /\ \A o \in GoodOffsets(img) : NameEnd(img, o) <= e
<1> DEFINE good == GoodOffsets(img)
           end == [o \in good |-> NameEnd(img, o)]
           IsStart(e) == /\ e = 0 \/ \E o \in good : e = NameEnd(img, o)
                         /\ \A o \in good : NameEnd(img, o) <= e
<1>1. \A o \in good : NameEnd(img, o) \in 0 .. Len(img.tail) BY ParsedName
<1>2. IsFiniteSet(good)
  BY ImageOffsets, FS_Subset DEF GoodOffsets
<1>3. Len(img.tail) \in Nat BY DEF IsImage
<1>4. \E e \in 0 .. Len(img.tail) : IsStart(e)
  <2>1. CASE good = {} BY <1>3, <2>1
  <2>2. CASE good # {}
    <3>1. end \in [good -> Int] BY <1>1
    <3>2. \E m \in good : \A o \in good : end[o] <= end[m]
      <4> HIDE DEF good, end
      <4> QED BY <1>2, <2>2, <3>1, GreatestValue
    <3>3. PICK m \in good : \A o \in good : NameEnd(img, o) <= NameEnd(img, m)
      BY <3>2
    <3> HIDE DEF good
    <3> QED BY <1>1, <3>3
  <2> QED BY <2>1, <2>2
<1> QED BY <1>4

LEMMA RawTailStartType ==
  ASSUME NEW img, IsImage(img)
  PROVE  RawTailStart(img) \in 0 .. Len(img.tail)
BY RawTailStartExists DEF RawTailStart

\* An image with a payload at every offset its sections state parses to a file.
LEMMA StoredParseType ==
  ASSUME NEW img, IsImage(img),
         \A s \in DOMAIN img.sec : StoredAt(img, img.sec[s].dataOff) # {}
  PROVE  IsFile(Parse(img))
<1> DEFINE good == GoodOffsets(img)
           f == Parse(img)
<1>1. f.names = [o \in good |-> NameAt(img, o)] BY DEF Parse
<1>2. IsMap(f.names, Nat, Name)
  <2>1. IsFiniteSet(good) BY ImageOffsets, FS_Subset DEF GoodOffsets
  <2>2. \A o \in good : o \in Nat /\ NameAt(img, o) \in Name BY ParsedName
  <2> HIDE DEF good, f
  <2> QED BY <1>1, <2>1, <2>2 DEF IsMap
<1>3. f.rawTail \in Seq(Byte)
  <2>1. img.tail \in Seq(Byte) BY DEF IsImage
  <2>2. RawTailStart(img) \in 0 .. Len(img.tail) BY RawTailStartType
  <2>3. f.rawTail = SubSeq(img.tail, RawTailStart(img) + 1, Len(img.tail))
    BY DEF Parse
  <2> HIDE DEF f
  <2> QED BY <2>1, <2>2, <2>3
<1>4. ASSUME NEW s \in DOMAIN img.sec
      PROVE  /\ f.sec[s] = [ type    |-> img.sec[s].type,
                             index   |-> img.sec[s].index,
                             nameOff |-> img.sec[s].nameOff,
                             dataOff |-> img.sec[s].dataOff,
                             name    |-> f.sec[s].name,
                             payload |-> f.sec[s].payload ]
             /\ f.sec[s].name \in Name
             /\ f.sec[s].payload \in Payload
  <2>1. f.sec[s] = [ type    |-> img.sec[s].type,
                     index   |-> img.sec[s].index,
                     nameOff |-> img.sec[s].nameOff,
                     dataOff |-> img.sec[s].dataOff,
                     name    |-> IF img.sec[s].nameOff \in good
                                 THEN NameAt(img, img.sec[s].nameOff) ELSE NoName,
                     payload |-> PayloadAt(img, img.sec[s].dataOff) ]
    BY DEF Parse
  <2>2. NoName \in Name BY ByteModAssumption DEF NoName, Name
  <2>3. f.sec[s].name \in Name BY <2>1, <2>2, ParsedName
  <2>4. PICK d \in StoredAt(img, img.sec[s].dataOff) : TRUE OBVIOUS
  <2>5. PayloadAt(img, img.sec[s].dataOff) \in Payload
    BY <2>4 DEF PayloadAt, StoredAt, IsImage
  <2> QED BY <2>1, <2>3, <2>5
<1>5. IsMap(f.sec, Sections, Section)
  <2>1. /\ DOMAIN f.sec = DOMAIN img.sec
        /\ f.sec = [s \in DOMAIN f.sec |-> f.sec[s]]
    BY DEF Parse
  <2>2. \A s \in DOMAIN img.sec : img.sec[s] \in Descriptor BY DEF IsImage, IsMap
  <2>3. ASSUME NEW s \in DOMAIN f.sec PROVE f.sec[s] \in Section
    <3> HIDE DEF f
    <3>1. PICK d \in Descriptor : d = img.sec[s] BY <2>1, <2>2
    <3>2. PICK n \in Name, p \in Payload :
            f.sec[s] = [ type |-> d.type, index |-> d.index, nameOff |-> d.nameOff,
                         dataOff |-> d.dataOff, name |-> n, payload |-> p ]
      BY <1>4, <2>1, <3>1
    <3> QED BY <3>2 DEF Descriptor, Section
  <2> QED BY <2>1, <2>3 DEF IsMap, IsImage
<1>6. /\ f.hdr \in Nat /\ f.hdr2 \in Nat
      /\ f = [ hdr |-> f.hdr, hdr2 |-> f.hdr2, blocks |-> f.blocks, sec |-> f.sec,
               names |-> f.names, rawTail |-> f.rawTail ]
      /\ IsLayout(f.blocks, DOMAIN f.sec)
  BY DEF Parse, IsImage
<1> QED BY <1>2, <1>3, <1>5, <1>6 DEF IsFile

\* A readable image parses to a file.
LEMMA ParseType ==
  ASSUME NEW img, IsImage(img), ~Unreadable(img)
  PROVE  IsFile(Parse(img))
<1>1. \A s \in DOMAIN img.sec : StoredAt(img, img.sec[s].dataOff) # {} BY DEF Unreadable
<1> QED BY <1>1, StoredParseType

-----------------------------------------------------------------------------
(***************************************************************************)
(* Serializing.                                                            *)
(***************************************************************************)

LEMMA NoNameType == NoName \in Name
BY ByteModAssumption DEF NoName, Name

LEMMA ResolvedNameType ==
  ASSUME NEW f, IsFile(f), NEW s \in DOMAIN f.sec
  PROVE  ResolvedName(f, s) \in Name
<1>1. f.sec[s] \in Section BY DEF IsFile, IsMap
<1>2. f.sec[s].name \in Name BY <1>1 DEF Section
<1>3. \A o \in DOMAIN f.names : f.names[o] \in Name BY DEF IsFile, IsMap
<1> QED BY <1>2, <1>3, NoNameType DEF ResolvedName

\* A writer that does not fail has a name for every offset in use.
LEMMA PreservingValuesType ==
  ASSUME NEW f, IsFile(f), ~MissingName(f)
  PROVE  /\ IsMap(PreservingValues(f), Nat, Name)
         /\ UsedOffsets(f.sec) \subseteq DOMAIN PreservingValues(f)
<1> DEFINE offs == DOMAIN f.names \cup UsedOffsets(f.sec)
           v == PreservingValues(f)
<1>1. DOMAIN f.names \subseteq Nat /\ IsFiniteSet(DOMAIN f.names)
  BY DEF IsFile, IsMap
<1>2. UsedOffsets(f.sec) \subseteq Nat /\ IsFiniteSet(UsedOffsets(f.sec))
  BY FileOffsets
<1>3. offs \subseteq Nat /\ IsFiniteSet(offs) BY <1>1, <1>2, FS_Union
<1>4. DOMAIN v = offs /\ v = [o \in DOMAIN v |-> v[o]] BY DEF PreservingValues
<1>5. ASSUME NEW o \in offs PROVE v[o] \in Name
  <2>1. CASE o \in DOMAIN f.names
    <3>1. v[o] = f.names[o] BY <2>1 DEF PreservingValues
    <3> QED BY <2>1, <3>1 DEF IsFile, IsMap
  <2>2. CASE o \notin DOMAIN f.names
    <3>1. PICK s \in DOMAIN f.sec : f.sec[s].nameOff = o /\ o # NoNameOffset
      BY <2>2 DEF UsedOffsets
    <3>2. s \in Named(f) /\ s \in Users(f, o) BY <3>1 DEF Named, Users
    <3>3. \E t \in Users(f, o) : f.sec[t].name # NoName
      <4>1. CASE f.sec[s].name # NoName BY <3>2, <4>1
      <4>2. CASE f.sec[s].name = NoName
        <5>1. s \in Nameless(f) BY <2>2, <3>1, <3>2, <4>2 DEF Nameless
        <5> QED BY <3>1, <5>1 DEF MissingName
      <4> QED BY <4>1, <4>2
    <3>4. SectionNames(f, o) # {} BY <3>3 DEF SectionNames
    <3>5. SectionNames(f, o) \subseteq Name
      BY DEF SectionNames, Users, Named, IsFile, IsMap, Section
    <3>6. v[o] = CHOOSE n \in SectionNames(f, o) : TRUE
      BY <2>2 DEF PreservingValues
    <3> QED BY <3>4, <3>5, <3>6
  <2> QED BY <2>1, <2>2
<1> HIDE DEF v
<1>6. IsMap(v, Nat, Name) BY <1>3, <1>4, <1>5 DEF IsMap
<1> QED BY <1>4, <1>6 DEF v

LEMMA CanonicalValuesType ==
  ASSUME NEW f, IsFile(f)
  PROVE  /\ IsMap(CanonicalValues(f), Nat, Name)
         /\ UsedOffsets(f.sec) = DOMAIN CanonicalValues(f)
<1> DEFINE v == CanonicalValues(f)
<1>1. DOMAIN v = UsedOffsets(f.sec) /\ v = [o \in DOMAIN v |-> v[o]]
  BY DEF CanonicalValues
<1>2. ASSUME NEW o \in UsedOffsets(f.sec) PROVE v[o] \in Name
  <2>1. \E s \in DOMAIN f.sec : s \in Users(f, o)
    BY DEF UsedOffsets, Users, Named
  <2>2. (CHOOSE s \in Users(f, o) : TRUE) \in DOMAIN f.sec
    BY <2>1 DEF Users, Named
  <2> QED BY <2>2, ResolvedNameType DEF CanonicalValues
<1>3. UsedOffsets(f.sec) \subseteq Nat /\ IsFiniteSet(UsedOffsets(f.sec))
  BY FileOffsets
<1> HIDE DEF v
<1>4. IsMap(v, Nat, Name) BY <1>1, <1>2, <1>3 DEF IsMap
<1> QED BY <1>1, <1>4 DEF v

LEMMA PlaceType ==
  ASSUME NEW values, IsMap(values, Nat, Name)
  PROVE  /\ PreservingPlace(values) \in [DOMAIN values -> Nat]
         /\ \A f, blocks : CanonicalPlace(f, blocks, values) \in [DOMAIN values -> Nat]
<1>1. DOMAIN values \subseteq Nat /\ IsFiniteSet(DOMAIN values) BY DEF IsMap
<1>2. ASSUME NEW offs, offs \subseteq DOMAIN values
      PROVE  BytesOf(values, offs) \in Nat
  <2>1. IsFiniteSet(offs) BY <1>1, <1>2, FS_Subset
  <2> QED BY <2>1, BytesOfType
<1>3. PreservingPlace(values) \in [DOMAIN values -> Nat]
  <2>1. SparsePlace(values) \in [DOMAIN values -> Nat] BY <1>1 DEF SparsePlace
  <2>2. [o \in DOMAIN values |-> BytesOf(values, {p \in DOMAIN values : p < o})]
          \in [DOMAIN values -> Nat]
    BY <1>2
  <2> QED BY <2>1, <2>2 DEF PreservingPlace
<1>4. ASSUME NEW f, NEW blocks
      PROVE  CanonicalPlace(f, blocks, values) \in [DOMAIN values -> Nat]
  <2>1. \A o \in DOMAIN values :
          BytesOf(values, {p \in DOMAIN values : FirstUsedBefore(f, blocks, p, o)}) \in Nat
    BY <1>2
  <2> QED BY <2>1 DEF CanonicalPlace
<1> QED BY <1>3, <1>4

\* A layout orders the sections.
Ordered(blocks, S) == {c \in S \X S : Before(blocks, c[1], c[2])}

LEMMA BeforeIsOrder ==
  ASSUME NEW blocks, NEW S, IsLayout(blocks, S)
  PROVE  IsTotalOrder(Ordered(blocks, S), S)
<1> DEFINE Bef(s, t) == Before(blocks, s, t)
<1>1. /\ DOMAIN blocks \subseteq Nat
      /\ \A i \in DOMAIN blocks : DOMAIN blocks[i] \subseteq Nat
  <2>1. DOMAIN blocks = 1 .. Len(blocks) /\ \A i \in DOMAIN blocks : blocks[i] \in Seq(S)
    BY DEF IsLayout
  <2> QED BY <2>1
<1>2. \A s \in S : ~Bef(s, s) BY <1>1 DEF Before, IsLayout
<1>3. ASSUME NEW s \in S, NEW t \in S, NEW u \in S, Bef(s, t), Bef(t, u)
      PROVE  Bef(s, u)
  <2>1. PICK i \in DOMAIN blocks, j \in DOMAIN blocks :
          \E k \in DOMAIN blocks[i], l \in DOMAIN blocks[j] :
            blocks[i][k] = s /\ blocks[j][l] = t /\ (i < j \/ (i = j /\ k < l))
    BY <1>3 DEF Before
  <2>2. PICK k \in DOMAIN blocks[i], l \in DOMAIN blocks[j] :
            blocks[i][k] = s /\ blocks[j][l] = t /\ (i < j \/ (i = j /\ k < l))
    BY <2>1
  <2>3. PICK g \in DOMAIN blocks, h \in DOMAIN blocks :
          \E m \in DOMAIN blocks[g], n \in DOMAIN blocks[h] :
            blocks[g][m] = t /\ blocks[h][n] = u /\ (g < h \/ (g = h /\ m < n))
    BY <1>3 DEF Before
  <2>4. PICK m \in DOMAIN blocks[g], n \in DOMAIN blocks[h] :
            blocks[g][m] = t /\ blocks[h][n] = u /\ (g < h \/ (g = h /\ m < n))
    BY <2>3
  <2>5. g = j /\ m = l BY <2>2, <2>4 DEF IsLayout
  <2>6. /\ i \in Nat /\ j \in Nat /\ h \in Nat /\ k \in Nat /\ l \in Nat /\ n \in Nat
    BY <1>1
  <2>7. i < h \/ (i = h /\ k < n) BY <2>2, <2>4, <2>5, <2>6
  <2> QED BY <2>2, <2>4, <2>7 DEF Before
<1>4. ASSUME NEW s \in S, NEW t \in S PROVE s = t \/ Bef(s, t) \/ Bef(t, s)
  <2>1. PICK i \in DOMAIN blocks : \E k \in DOMAIN blocks[i] : blocks[i][k] = s
    BY DEF IsLayout
  <2>2. PICK k \in DOMAIN blocks[i] : blocks[i][k] = s BY <2>1
  <2>3. PICK j \in DOMAIN blocks : \E l \in DOMAIN blocks[j] : blocks[j][l] = t
    BY DEF IsLayout
  <2>4. PICK l \in DOMAIN blocks[j] : blocks[j][l] = t BY <2>3
  <2>5. i \in Nat /\ j \in Nat /\ k \in Nat /\ l \in Nat BY <1>1
  <2>6. \/ i < j \/ (i = j /\ k < l)
        \/ j < i \/ (j = i /\ l < k)
        \/ i = j /\ k = l
    BY <2>5
  <2> QED BY <2>2, <2>4, <2>6 DEF Before
<1>5. \A x, y \in S : << x, y >> \in Ordered(blocks, S) <=> Bef(x, y)
  BY DEF Ordered
<1> HIDE DEF Bef
<1> QED BY <1>2, <1>3, <1>4, <1>5 DEF IsTotalOrder

\* A payload takes at least its length word and its bytes.
LEMMA StoredSize ==
  ASSUME NEW payload \in Payload
  PROVE  /\ Stored(payload) \in 0 .. MaxLen + 7 + 1
         /\ payload.len \in Nat
         /\ 4 + payload.len <= Stored(payload)
<1>1. PICK len \in 0 .. MaxLen : len = payload.len BY DEF Payload
<1>2. len \in Nat /\ MaxLen \in Nat BY MaxLenAssumption
<1>3. PICK q \in Nat : q = (len + 7) \div 4 BY <1>2
<1>4. 4 * q <= len + 7 /\ len + 7 < 4 * q + 4 BY <1>2, <1>3
<1>5. Stored(payload) = 4 * q BY <1>1, <1>3 DEF Stored
<1> QED BY <1>1, <1>2, <1>4, <1>5

\* The writers lay payloads out one behind the other.
LEMMA PayloadsApart ==
  ASSUME NEW f, IsFile(f), NEW blocks, IsLayout(blocks, DOMAIN f.sec),
         NEW s \in DOMAIN f.sec, NEW t \in DOMAIN f.sec, Before(blocks, s, t)
  PROVE  DataOffset(f, blocks, s) + 4 + f.sec[s].payload.len <= DataOffset(f, blocks, t)
<1> DEFINE S == DOMAIN f.sec
           R == Ordered(blocks, S)
           size == [r \in S |-> Stored(f.sec[r].payload)]
           n == MaxLen + 7
<1>1. IsFiniteSet(S) /\ \A r \in S : f.sec[r].payload \in Payload
  BY DEF IsFile, IsMap, Section
<1>2. n \in Nat BY MaxLenAssumption
<1>3. size \in [S -> 0 .. n + 1] BY <1>1, StoredSize
<1>4. IsTotalOrder(R, S) BY BeforeIsOrder
<1>5. << s, t >> \in R BY DEF Ordered
<1>6. Cardinality(Cells(Below(R, S, s), size, n)) + size[s]
        <= Cardinality(Cells(Below(R, S, t), size, n))
  <2> HIDE DEF R, size, n, S
  <2> QED BY <1>1, <1>2, <1>3, <1>4, <1>5, PackedDisjoint DEF S
<1>7. ASSUME NEW x \in S
      PROVE  DataOffset(f, blocks, x) = Cardinality(Cells(Below(R, S, x), size, n))
  <2>1. {r \in S : Before(blocks, r, x)} = Below(R, S, x) BY DEF Below, Ordered
  <2>2. \A c \in Below(R, S, x) \X (0 .. n) : size[c[1]] = Stored(f.sec[c[1]].payload)
    BY DEF Below
  <2>3. {c \in Below(R, S, x) \X (0 .. n) : c[2] < Stored(f.sec[c[1]].payload)}
          = Cells(Below(R, S, x), size, n)
    <3> HIDE DEF R, S, size, n
    <3> QED BY <2>2 DEF Cells
  <2> QED BY <2>1, <2>3 DEF DataOffset
<1>8. DataOffset(f, blocks, s) \in Nat /\ DataOffset(f, blocks, t) \in Nat
  BY <1>1, DataOffsetType
<1>9. size[s] = Stored(f.sec[s].payload) OBVIOUS
<1>10. DataOffset(f, blocks, s) + Stored(f.sec[s].payload) <= DataOffset(f, blocks, t)
  <2> HIDE DEF R, size, n
  <2> QED BY <1>6, <1>7, <1>9
<1>11. /\ Stored(f.sec[s].payload) \in Nat /\ f.sec[s].payload.len \in Nat
       /\ 4 + f.sec[s].payload.len <= Stored(f.sec[s].payload)
  BY <1>1, MaxLenAssumption, StoredSize
<1> HIDE DEF S, R, size, n
<1> QED BY <1>8, <1>10, <1>11

LEMMA OffsetsDiffer ==
  ASSUME NEW f, IsFile(f), NEW blocks, IsLayout(blocks, DOMAIN f.sec),
         NEW s \in DOMAIN f.sec, NEW t \in DOMAIN f.sec,
         DataOffset(f, blocks, s) = DataOffset(f, blocks, t)
  PROVE  s = t
<1> SUFFICES ASSUME s # t PROVE FALSE
  OBVIOUS
<1>1. Before(blocks, s, t) \/ Before(blocks, t, s)
  BY BeforeIsOrder DEF IsTotalOrder, Ordered
<1>2. \A r \in DOMAIN f.sec : f.sec[r].payload \in Payload
  BY DEF IsFile, IsMap, Section
<1>3. f.sec[s].payload.len \in Nat /\ f.sec[t].payload.len \in Nat
  BY <1>2, StoredSize
<1>4. DataOffset(f, blocks, s) \in Nat /\ DataOffset(f, blocks, t) \in Nat
  BY DataOffsetType DEF IsFile, IsMap
<1> QED BY <1>1, <1>3, <1>4, PayloadsApart

\* Laid out anywhere, a file becomes an image.
LEMMA EmitType ==
  ASSUME NEW f, IsFile(f), NEW blocks, IsLayout(blocks, DOMAIN f.sec),
         NEW values, IsMap(values, Nat, Name), UsedOffsets(f.sec) \subseteq DOMAIN values,
         NEW place \in [DOMAIN values -> Nat]
  PROVE  IsImage(Emit(f, blocks, values, place))
<1> DEFINE i == Emit(f, blocks, values, place)
<1>1. /\ i = [ hdr |-> i.hdr, hdr2 |-> i.hdr2, blocks |-> i.blocks, sec |-> i.sec,
               data |-> i.data, tail |-> i.tail, slack |-> i.slack ]
      /\ i.hdr = f.hdr /\ i.hdr2 = f.hdr /\ i.blocks = blocks
      /\ i.slack = << >>
      /\ i.tail = NameTable(values, place) \o f.rawTail
      /\ i.data = {[ off |-> DataOffset(f, blocks, s),
                     payload |-> f.sec[s].payload ] : s \in DOMAIN f.sec}
      /\ DOMAIN i.sec = DOMAIN f.sec
      /\ i.sec = [s \in DOMAIN i.sec |-> i.sec[s]]
  BY DEF Emit, WrittenHeaders
<1>2. IsFiniteSet(DOMAIN f.sec) /\ DOMAIN f.sec \subseteq Sections
  BY DEF IsFile, IsMap
<1>3. \A s \in DOMAIN f.sec : DataOffset(f, blocks, s) \in Nat
  BY <1>2, DataOffsetType
<1>4. \A s \in DOMAIN f.sec : f.sec[s] \in Section BY DEF IsFile, IsMap
<1>5. i.hdr \in Nat /\ i.hdr2 \in Nat
  <2>1. f.hdr \in Nat BY DEF IsFile
  <2> QED BY <1>1, <2>1
<1>6. i.tail \in Seq(Byte) /\ i.slack \in Seq(Byte)
  <2>1. NameTable(values, place) \in Seq(Byte) BY NameTableType
  <2>2. f.rawTail \in Seq(Byte) BY DEF IsFile
  <2>3. i.tail \in Seq(Byte)
    <3> HIDE DEF i
    <3> QED BY <1>1, <2>1, <2>2
  <2> QED BY <1>1, <2>3
<1>7. i.data \in SUBSET [off : Nat, payload : Payload]
  <2>1. \A s \in DOMAIN f.sec : f.sec[s].payload \in Payload BY <1>4 DEF Section
  <2> HIDE DEF i
  <2> QED BY <1>1, <1>3, <2>1
<1>8. ASSUME NEW s \in DOMAIN f.sec PROVE i.sec[s] \in Descriptor
  <2>1. PICK d \in Section : d = f.sec[s] BY <1>4
  <2>2. d.type \in Types /\ d.index \in Int BY <2>1 DEF Section
  <2> DEFINE o == IF s \in Named(f) THEN place[f.sec[s].nameOff] ELSE NoNameOffset
  <2>3. o \in Nat \cup {NoNameOffset}
    <3>1. s \in Named(f) => f.sec[s].nameOff \in DOMAIN values
      BY DEF Named, UsedOffsets
    <3> QED BY <3>1
  <2>4. i.sec[s] = [ type |-> d.type, index |-> d.index, nameOff |-> o,
                     dataOff |-> DataOffset(f, blocks, s) ]
    BY <2>1 DEF Emit
  <2> HIDE DEF i, o
  <2> QED BY <1>3, <2>2, <2>3, <2>4 DEF Descriptor
<1>9. IsMap(i.sec, Sections, Descriptor)
  <2> HIDE DEF i
  <2> QED BY <1>1, <1>2, <1>8 DEF IsMap
<1>10. \A c, d \in i.data : c.off = d.off => c = d
  <2> SUFFICES ASSUME NEW s \in DOMAIN f.sec, NEW t \in DOMAIN f.sec,
                      DataOffset(f, blocks, s) = DataOffset(f, blocks, t)
               PROVE  s = t
    BY <1>1
  <2> QED BY OffsetsDiffer
<1> HIDE DEF i
<1>11. IsImage(i) BY <1>1, <1>5, <1>6, <1>7, <1>9, <1>10 DEF IsImage
<1> QED BY <1>11 DEF i

-----------------------------------------------------------------------------
(***************************************************************************)
(* The canonical order.                                                    *)
(***************************************************************************)

LEMMA LexIrreflexive ==
  ASSUME NEW a \in Seq(Byte)
  PROVE  ~LexLess(a, a)
<1> SUFFICES ASSUME NEW i \in 0 .. Len(a), i < Len(a), a[i + 1] < a[i + 1]
             PROVE  FALSE
  BY DEF LexLess
<1>1. i + 1 \in 1 .. Len(a) OBVIOUS
<1>2. a[i + 1] \in Byte BY <1>1
<1> QED BY <1>2, ByteModAssumption DEF Byte

LEMMA LexTransitive ==
  ASSUME NEW a \in Seq(Byte), NEW b \in Seq(Byte), NEW c \in Seq(Byte),
         LexLess(a, b), LexLess(b, c)
  PROVE  LexLess(a, c)
<1>1. PICK i \in 0 .. Len(a) :
        /\ i < Len(b) /\ \A k \in 1 .. i : a[k] = b[k]
        /\ i = Len(a) \/ (i < Len(a) /\ a[i + 1] < b[i + 1])
  BY DEF LexLess
<1>2. PICK j \in 0 .. Len(b) :
        /\ j < Len(c) /\ \A k \in 1 .. j : b[k] = c[k]
        /\ j = Len(b) \/ (j < Len(b) /\ b[j + 1] < c[j + 1])
  BY DEF LexLess
<1>3. \A x \in Byte : x \in Int BY ByteModAssumption DEF Byte
<1>4. CASE i < j
  <2>1. \A k \in 1 .. i : a[k] = c[k] BY <1>1, <1>2, <1>4
  <2>2. b[i + 1] = c[i + 1] /\ i < Len(c) BY <1>2, <1>4
  <2> QED BY <1>1, <2>1, <2>2 DEF LexLess
<1>5. CASE i = j
  <2>1. \A k \in 1 .. i : a[k] = c[k] BY <1>1, <1>2, <1>5
  <2>2. CASE i = Len(a) BY <1>2, <1>5, <2>1, <2>2 DEF LexLess
  <2>3. CASE i < Len(a) /\ a[i + 1] < b[i + 1]
    <3>1. a[i + 1] \in Int /\ b[i + 1] \in Int /\ c[i + 1] \in Int
      BY <1>1, <1>2, <1>3, <1>5, <2>3
    <3>2. b[i + 1] < c[i + 1] BY <1>1, <1>2, <1>5
    <3>3. a[i + 1] < c[i + 1] BY <2>3, <3>1, <3>2
    <3> QED BY <1>2, <1>5, <2>1, <2>3, <3>3 DEF LexLess
  <2> QED BY <1>1, <2>2, <2>3
<1>6. CASE j < i
  <2>1. \A k \in 1 .. j : a[k] = c[k] BY <1>1, <1>2, <1>6
  <2>2. b[j + 1] < c[j + 1] /\ j < Len(a) BY <1>1, <1>2, <1>6
  <2>3. a[j + 1] = b[j + 1] BY <1>1, <1>6
  <2> QED BY <1>2, <2>1, <2>2, <2>3 DEF LexLess
<1> QED BY <1>4, <1>5, <1>6

LEMMA LexTotal ==
  ASSUME NEW a \in Seq(Byte), NEW b \in Seq(Byte)
  PROVE  a = b \/ LexLess(a, b) \/ LexLess(b, a)
<1> DEFINE P == {i \in 0 .. Len(a) : i <= Len(b) /\ \A k \in 1 .. i : a[k] = b[k]}
           id == [i \in P |-> i]
<1>1. IsFiniteSet(P) /\ P # {}
  <2>1. IsFiniteSet(0 .. Len(a)) BY FS_Interval
  <2>2. P \in SUBSET (0 .. Len(a)) OBVIOUS
  <2>3. 0 \in P OBVIOUS
  <2> HIDE DEF P
  <2> QED BY <2>1, <2>2, <2>3, FS_Subset
<1>2. PICK m \in P : \A x \in P : id[x] <= id[m]
  <2>1. id \in [P -> Int] OBVIOUS
  <2> HIDE DEF P, id
  <2> QED BY <1>1, <2>1, GreatestValue
<1>3. m + 1 \notin P
  <2>1. \A x \in P : id[x] = x /\ x \in Int OBVIOUS
  <2> HIDE DEF P, id
  <2>2. m \in Int /\ \A x \in P : x <= m BY <1>2, <2>1
  <2> QED BY <2>2
<1>4. CASE m < Len(a) /\ m < Len(b)
  <2>1. a[m + 1] # b[m + 1]
    <3> SUFFICES ASSUME a[m + 1] = b[m + 1] PROVE FALSE
      OBVIOUS
    <3>1. \A k \in 1 .. m + 1 : a[k] = b[k]
      <4>1. ASSUME NEW k \in 1 .. m + 1 PROVE k = m + 1 \/ k \in 1 .. m OBVIOUS
      <4> QED BY <4>1
    <3> QED BY <1>3, <1>4, <3>1
  <2>2. a[m + 1] \in Byte /\ b[m + 1] \in Byte BY <1>4
  <2>3. a[m + 1] < b[m + 1] \/ b[m + 1] < a[m + 1]
    BY <2>1, <2>2, ByteModAssumption DEF Byte
  <2> QED BY <1>4, <2>3 DEF LexLess
<1>5. CASE m = Len(a) /\ m < Len(b) BY <1>5 DEF LexLess
<1>6. CASE m < Len(a) /\ m = Len(b) BY <1>6 DEF LexLess
<1>7. CASE m = Len(a) /\ m = Len(b)
  <2>1. \A k \in 1 .. Len(a) : a[k] = b[k] BY <1>7
  <2>2. a = b BY <1>7, <2>1, SeqEqual
  <2> QED BY <2>2
<1> QED BY <1>4, <1>5, <1>6, <1>7

\* The key sections are sorted by within a block.
SameKey(f, s, t) ==
  /\ f.sec[s].index = f.sec[t].index
  /\ ResolvedName(f, s) = ResolvedName(f, t)
  /\ f.sec[s].payload.val = f.sec[t].payload.val

SectionPairs(f) ==
  {c \in (DOMAIN f.sec) \X (DOMAIN f.sec) : SectionLess(f, c[1], c[2])}

LEMMA SectionOrder ==
  ASSUME NEW f, IsFile(f)
  PROVE  IsWeakOrder(SectionPairs(f), DOMAIN f.sec)
<1> DEFINE S == DOMAIN f.sec
           L(s, t) == SectionLess(f, s, t)
           W == SectionPairs(f)
<1>1. ASSUME NEW s \in S
      PROVE  /\ f.sec[s].index \in Int
             /\ f.sec[s].payload.val \in Int
             /\ ResolvedName(f, s) \in Seq(Byte)
  <2>1. f.sec[s] \in Section BY DEF IsFile, IsMap
  <2>2. f.sec[s].index \in Int /\ f.sec[s].payload \in Payload BY <2>1 DEF Section
  <2> QED BY <2>2, ResolvedNameType DEF Payload, Name
<1>2. ASSUME NEW s \in S PROVE ~L(s, s)
  BY <1>1, LexIrreflexive DEF SectionLess
<1>3. ASSUME NEW s \in S, NEW t \in S, NEW u \in S, L(s, t), L(t, u) PROVE L(s, u)
  <2>1. LexLess(ResolvedName(f, s), ResolvedName(f, t))
          /\ LexLess(ResolvedName(f, t), ResolvedName(f, u))
          => LexLess(ResolvedName(f, s), ResolvedName(f, u))
    BY <1>1, LexTransitive
  <2>2. /\ f.sec[s].index \in Int /\ f.sec[t].index \in Int /\ f.sec[u].index \in Int
        /\ f.sec[s].payload.val \in Int /\ f.sec[t].payload.val \in Int
        /\ f.sec[u].payload.val \in Int
    BY <1>1
  <2> QED BY <1>3, <2>1, <2>2 DEF SectionLess
<1>4. ASSUME NEW s \in S, NEW t \in S PROVE L(s, t) \/ L(t, s) \/ SameKey(f, s, t)
  <2>1. \/ ResolvedName(f, s) = ResolvedName(f, t)
        \/ LexLess(ResolvedName(f, s), ResolvedName(f, t))
        \/ LexLess(ResolvedName(f, t), ResolvedName(f, s))
    BY <1>1, LexTotal
  <2>2. /\ f.sec[s].index \in Int /\ f.sec[t].index \in Int
        /\ f.sec[s].payload.val \in Int /\ f.sec[t].payload.val \in Int
    BY <1>1
  <2> QED BY <2>1, <2>2 DEF SectionLess, SameKey
<1>5. ASSUME NEW s \in S, NEW t \in S, NEW u \in S, SameKey(f, s, t), L(s, u)
      PROVE  L(t, u)
  BY <1>5 DEF SectionLess, SameKey
<1>6. \A s, t \in S : << s, t >> \in W <=> L(s, t) BY DEF SectionPairs
<1> HIDE DEF L
<1>7. \A s, t, u \in S : ~L(s, t) /\ ~L(t, u) => ~L(s, u)
  BY <1>3, <1>4, <1>5
<1>8. \A x \in S : << x, x >> \notin W BY <1>2, <1>6
<1> QED BY <1>3, <1>6, <1>7, <1>8 DEF IsWeakOrder

LEMMA RankType ==
  ASSUME NEW t \in Types
  PROVE  BlockRank(t) \in DOMAIN BlockTypes /\ BlockTypes[BlockRank(t)] = t
BY DEF Types, BlockRank

LEMMA RankIsNat == \A t \in Types : BlockRank(t) \in Nat
<1>1. DOMAIN BlockTypes \subseteq Nat
  <2>1. DOMAIN BlockTypes = 1 .. Len(BlockTypes) BY TypesAssumption
  <2> QED BY <2>1
<1> QED BY <1>1, RankType

\* Sorting the sections of a block, or the blocks, leaves each section in one
\* place.
LEMMA BlockReordered ==
  ASSUME NEW S, NEW q \in Seq(S) \ {<< >>}, NEW r, IsReordering(r, q)
  PROVE  r \in Seq(S) \ {<< >>} /\ DOMAIN r = DOMAIN q
<1>1. DOMAIN q = 1 .. Len(q) /\ Len(q) \in Nat \ {0} BY EmptySeq
<1>2. Range(q) \subseteq S BY <1>1 DEF Range
<1>3. r \in [1 .. Len(q) -> S] BY <1>1, <1>2 DEF IsReordering
<1>4. r \in Seq(S) /\ Len(r) = Len(q) BY <1>1, <1>3
<1> QED BY <1>1, <1>3, <1>4

LEMMA SectionsReordered ==
  ASSUME NEW S, NEW blocks, IsLayout(blocks, S), NEW sorted,
         sorted = [i \in DOMAIN blocks |-> sorted[i]],
         \A i \in DOMAIN blocks : IsReordering(sorted[i], blocks[i])
  PROVE  IsLayout(sorted, S)
<1>1. \A i \in DOMAIN blocks :
        /\ sorted[i] \in Seq(S) \ {<< >>}
        /\ DOMAIN sorted[i] = DOMAIN blocks[i]
  BY BlockReordered DEF IsLayout
<1>2. sorted \in Seq(Seq(S) \ {<< >>}) /\ DOMAIN sorted = DOMAIN blocks
  <2>1. DOMAIN blocks = 1 .. Len(blocks) /\ Len(blocks) \in Nat BY DEF IsLayout
  <2> QED BY <1>1, <2>1
<1>3. ASSUME NEW s \in S
      PROVE  \E i \in DOMAIN sorted : \E k \in DOMAIN sorted[i] : sorted[i][k] = s
  <2>1. PICK i \in DOMAIN blocks : \E k \in DOMAIN blocks[i] : blocks[i][k] = s
    BY DEF IsLayout
  <2> QED BY <1>1, <1>2, <2>1 DEF IsReordering
<1>4. ASSUME NEW i \in DOMAIN sorted, NEW j \in DOMAIN sorted,
             NEW k \in DOMAIN sorted[i], NEW l \in DOMAIN sorted[j],
             sorted[i][k] = sorted[j][l]
      PROVE  i = j /\ k = l
  <2>1. PICK g \in [DOMAIN blocks[i] -> DOMAIN blocks[i]] :
          /\ \A a, b \in DOMAIN blocks[i] : g[a] = g[b] => a = b
          /\ \A a \in DOMAIN blocks[i] : sorted[i][a] = blocks[i][g[a]]
    BY <1>2 DEF IsReordering
  <2>2. PICK h \in [DOMAIN blocks[j] -> DOMAIN blocks[j]] :
          \A a \in DOMAIN blocks[j] : sorted[j][a] = blocks[j][h[a]]
    BY <1>2 DEF IsReordering
  <2>3. /\ i \in DOMAIN blocks /\ j \in DOMAIN blocks
        /\ k \in DOMAIN blocks[i] /\ l \in DOMAIN blocks[j]
    BY <1>1, <1>2
  <2>4. i = j
    <3>1. blocks[i][g[k]] = blocks[j][h[l]] BY <1>4, <2>1, <2>2, <2>3
    <3>2. g[k] \in DOMAIN blocks[i] /\ h[l] \in DOMAIN blocks[j]
      BY <2>1, <2>2, <2>3
    <3> QED BY <2>3, <3>1, <3>2 DEF IsLayout
  <2>5. blocks[i][g[k]] = blocks[i][g[l]] BY <1>4, <2>1, <2>3, <2>4
  <2>6. g[k] \in DOMAIN blocks[i] /\ g[l] \in DOMAIN blocks[i] BY <2>1, <2>3, <2>4
  <2>7. g[k] = g[l] BY <2>3, <2>5, <2>6 DEF IsLayout
  <2> QED BY <2>1, <2>3, <2>4, <2>7
<1> QED BY <1>2, <1>3, <1>4 DEF IsLayout

LEMMA BlocksReordered ==
  ASSUME NEW S, NEW blocks, IsLayout(blocks, S), NEW r, IsReordering(r, blocks)
  PROVE  IsLayout(r, S)
<1>1. PICK from \in [DOMAIN blocks -> DOMAIN blocks] :
        /\ \A k, l \in DOMAIN blocks : from[k] = from[l] => k = l
        /\ \A i \in DOMAIN blocks : \E k \in DOMAIN blocks : from[k] = i
        /\ \A k \in DOMAIN blocks : r[k] = blocks[from[k]]
  BY DEF IsReordering
<1>2. r \in Seq(Seq(S) \ {<< >>}) /\ DOMAIN r = DOMAIN blocks
  <2>1. DOMAIN blocks = 1 .. Len(blocks) /\ Len(blocks) \in Nat BY DEF IsLayout
  <2>2. Range(blocks) \subseteq Seq(S) \ {<< >>} BY <2>1 DEF IsLayout, Range
  <2>3. r \in [1 .. Len(blocks) -> Seq(S) \ {<< >>}]
    BY <2>1, <2>2 DEF IsReordering
  <2> QED BY <2>1, <2>3
<1>3. ASSUME NEW s \in S
      PROVE  \E i \in DOMAIN r : \E k \in DOMAIN r[i] : r[i][k] = s
  <2>1. PICK i \in DOMAIN blocks : \E k \in DOMAIN blocks[i] : blocks[i][k] = s
    BY DEF IsLayout
  <2>2. PICK k \in DOMAIN blocks : from[k] = i BY <1>1
  <2>3. r[k] = blocks[i] BY <1>1, <2>2
  <2> QED BY <1>2, <2>1, <2>3
<1>4. ASSUME NEW i \in DOMAIN r, NEW j \in DOMAIN r,
             NEW k \in DOMAIN r[i], NEW l \in DOMAIN r[j], r[i][k] = r[j][l]
      PROVE  i = j /\ k = l
  <2>1. /\ from[i] \in DOMAIN blocks /\ from[j] \in DOMAIN blocks
        /\ r[i] = blocks[from[i]] /\ r[j] = blocks[from[j]]
    BY <1>1, <1>2
  <2>2. PICK g \in DOMAIN blocks, h \in DOMAIN blocks : g = from[i] /\ h = from[j]
    BY <2>1
  <2>3. /\ k \in DOMAIN blocks[g] /\ l \in DOMAIN blocks[h]
        /\ blocks[g][k] = blocks[h][l]
    BY <1>4, <2>1, <2>2
  <2>4. g = h /\ k = l BY <2>3 DEF IsLayout
  <2> QED BY <1>1, <1>2, <2>2, <2>4
<1> QED BY <1>2, <1>3, <1>4 DEF IsLayout

SortedSections(f, i) == StableSort(f.blocks[i], LAMBDA s, t : SectionLess(f, s, t))

LEMMA SortOfSections ==
  ASSUME NEW f, IsFile(f), NEW i \in DOMAIN f.blocks
  PROVE  LET q == f.blocks[i]
             W == PlacePairs(SectionPairs(f), q)
         IN  SortedSections(f, i) =
               CHOOSE r \in [DOMAIN q -> Range(q)] :
                 \A k \in DOMAIN q :
                   r[1 + Cardinality(Below(Stable(W, DOMAIN q), DOMAIN q, k))] = q[k]
<1> DEFINE S == DOMAIN f.sec
           q == f.blocks[i]
           W == PlacePairs(SectionPairs(f), q)
           Ahead(k) == {j \in DOMAIN q : \/ SectionLess(f, q[j], q[k])
                                         \/ ~SectionLess(f, q[k], q[j]) /\ j < k}
<1>1. q \in Seq(S) BY DEF IsFile, IsLayout
<1>2. ASSUME NEW k \in DOMAIN q PROVE Ahead(k) = Below(Stable(W, DOMAIN q), DOMAIN q, k)
  <2>1. \A a, b \in DOMAIN q : << a, b >> \in W <=> SectionLess(f, q[a], q[b])
    <3>1. \A a \in DOMAIN q : q[a] \in S BY <1>1
    <3> HIDE DEF q
    <3> QED BY <3>1 DEF PlacePairs, SectionPairs
  <2> HIDE DEF W, q
  <2> QED BY <2>1 DEF Below, Stable
<1>3. SortedSections(f, i) =
        CHOOSE r \in [DOMAIN q -> Range(q)] :
          \A k \in DOMAIN q : r[1 + Cardinality(Ahead(k))] = q[k]
  BY DEF SortedSections, StableSort
<1>4. SortedSections(f, i) =
        CHOOSE r \in [DOMAIN q -> Range(q)] :
          \A k \in DOMAIN q :
            r[1 + Cardinality(Below(Stable(W, DOMAIN q), DOMAIN q, k))] = q[k]
  <2> HIDE DEF W, q, Ahead
  <2> QED BY <1>2, <1>3
<1> QED BY <1>4

LEMMA SectionsSorted ==
  ASSUME NEW f, IsFile(f), NEW i \in DOMAIN f.blocks
  PROVE  /\ IsReordering(SortedSections(f, i), f.blocks[i])
         /\ IsSorted(SortedSections(f, i), SectionPairs(f))
<1>1. f.blocks[i] \in Seq(DOMAIN f.sec) BY DEF IsFile, IsLayout
<1>2. IsWeakOrder(SectionPairs(f), DOMAIN f.sec) BY SectionOrder
<1> QED BY <1>1, <1>2, SortOfSections, SortReorders

BlockPairs(f, bs) == {c \in bs \X bs : BlockLess(f, c[1], c[2])}

LEMMA BlockOrder ==
  ASSUME NEW f, IsFile(f)
  PROVE  IsWeakOrder(BlockPairs(f, Seq(DOMAIN f.sec) \ {<< >>}), Seq(DOMAIN f.sec) \ {<< >>})
<1> DEFINE B == Seq(DOMAIN f.sec) \ {<< >>}
           rank(b) == BlockRank(f.sec[b[1]].type)
<1>1. ASSUME NEW b \in B PROVE rank(b) \in Int
  <2>1. b[1] \in DOMAIN f.sec BY EmptySeq
  <2>2. f.sec[b[1]].type \in Types BY <2>1 DEF IsFile, IsMap, Section
  <2> QED BY <2>2, RankIsNat
<1>2. \A a, b \in B : << a, b >> \in BlockPairs(f, B) <=> rank(a) < rank(b)
  BY DEF BlockPairs, BlockLess
<1> HIDE DEF rank, B
<1>3. IsWeakOrder(BlockPairs(f, B), B) BY <1>1, <1>2 DEF IsWeakOrder
<1> QED BY <1>3 DEF B

SortedBlocks(f) == [i \in DOMAIN f.blocks |-> SortedSections(f, i)]

LEMMA SortedBlocksType ==
  ASSUME NEW f, IsFile(f)
  PROVE  SortedBlocks(f) \in Seq(Seq(DOMAIN f.sec) \ {<< >>})
<1> DEFINE B == Seq(DOMAIN f.sec) \ {<< >>}
           q == SortedBlocks(f)
<1>1. DOMAIN q = 1 .. Len(f.blocks) /\ Len(f.blocks) \in Nat
  BY DEF IsFile, IsLayout, SortedBlocks
<1>2. ASSUME NEW i \in DOMAIN f.blocks PROVE q[i] \in B
  <2>1. f.blocks[i] \in B BY DEF IsFile, IsLayout
  <2>2. IsReordering(SortedSections(f, i), f.blocks[i]) BY SectionsSorted
  <2>3. SortedSections(f, i) \in B BY <2>1, <2>2, BlockReordered
  <2> QED BY <2>3 DEF SortedBlocks
<1>3. q = [i \in 1 .. Len(f.blocks) |-> q[i]] BY <1>1 DEF SortedBlocks
<1>4. DOMAIN f.blocks = 1 .. Len(f.blocks) BY DEF IsFile, IsLayout
<1> HIDE DEF q, B
<1>5. q \in Seq(B) BY <1>1, <1>2, <1>3, <1>4
<1> QED BY <1>5 DEF q, B

LEMMA SortOfBlocks ==
  ASSUME NEW f, IsFile(f)
  PROVE  LET q == SortedBlocks(f)
             W == PlacePairs(BlockPairs(f, Seq(DOMAIN f.sec) \ {<< >>}), q)
         IN  CanonicalBlocks(f) =
               CHOOSE r \in [DOMAIN q -> Range(q)] :
                 \A k \in DOMAIN q :
                   r[1 + Cardinality(Below(Stable(W, DOMAIN q), DOMAIN q, k))] = q[k]
<1> DEFINE B == Seq(DOMAIN f.sec) \ {<< >>}
           q == SortedBlocks(f)
           W == PlacePairs(BlockPairs(f, B), q)
           Ahead(k) == {j \in DOMAIN q : \/ BlockLess(f, q[j], q[k])
                                         \/ ~BlockLess(f, q[k], q[j]) /\ j < k}
<1>1. q \in Seq(B) BY SortedBlocksType
<1>2. ASSUME NEW k \in DOMAIN q PROVE Ahead(k) = Below(Stable(W, DOMAIN q), DOMAIN q, k)
  <2> HIDE DEF q
  <2>1. \A a, b \in DOMAIN q : << a, b >> \in W <=> BlockLess(f, q[a], q[b])
    <3>1. \A a \in DOMAIN q : q[a] \in B BY <1>1
    <3> HIDE DEF B
    <3> QED BY <3>1 DEF PlacePairs, BlockPairs
  <2> HIDE DEF W
  <2> QED BY <2>1 DEF Below, Stable
<1>3. CanonicalBlocks(f) =
        CHOOSE r \in [DOMAIN q -> Range(q)] :
          \A k \in DOMAIN q : r[1 + Cardinality(Ahead(k))] = q[k]
  <2>1. CanonicalBlocks(f) = StableSort(q, LAMBDA a, b : BlockLess(f, a, b))
    BY DEF CanonicalBlocks, SortedBlocks, SortedSections
  <2> HIDE DEF q
  <2> QED BY <2>1 DEF StableSort
<1>4. CanonicalBlocks(f) =
        CHOOSE r \in [DOMAIN q -> Range(q)] :
          \A k \in DOMAIN q :
            r[1 + Cardinality(Below(Stable(W, DOMAIN q), DOMAIN q, k))] = q[k]
  <2> HIDE DEF W, q, Ahead
  <2> QED BY <1>2, <1>3
<1> QED BY <1>4

LEMMA BlocksSorted ==
  ASSUME NEW f, IsFile(f)
  PROVE  /\ IsReordering(CanonicalBlocks(f), SortedBlocks(f))
         /\ IsSorted(CanonicalBlocks(f), BlockPairs(f, Seq(DOMAIN f.sec) \ {<< >>}))
BY SortedBlocksType, BlockOrder, SortOfBlocks, SortReorders

\* The canonical order drops no section and doubles none.
LEMMA CanonicalLayout ==
  ASSUME NEW f, IsFile(f)
  PROVE  IsLayout(CanonicalBlocks(f), DOMAIN f.sec)
<1> DEFINE q == SortedBlocks(f)
<1>1. IsLayout(q, DOMAIN f.sec)
  <2>1. /\ IsLayout(f.blocks, DOMAIN f.sec)
        /\ q = [i \in DOMAIN f.blocks |-> q[i]]
        /\ \A i \in DOMAIN f.blocks : IsReordering(q[i], f.blocks[i])
    BY SectionsSorted DEF SortedBlocks, IsFile
  <2> HIDE DEF q
  <2> QED BY <2>1, SectionsReordered
<1> QED BY <1>1, BlocksSorted, BlocksReordered

LEMMA SerializeType ==
  ASSUME NEW f, IsFile(f)
  PROVE  /\ ~SerializeFails(f) => IsImage(Serialize(f))
         /\ IsImage(SerializeCanonical(f))
<1>1. ASSUME ~SerializeFails(f) PROVE IsImage(Serialize(f))
  <2>1. ~MissingName(f) BY <1>1 DEF SerializeFails
  <2> DEFINE v == PreservingValues(f)
  <2>2. IsMap(v, Nat, Name) /\ UsedOffsets(f.sec) \subseteq DOMAIN v
    BY <2>1, PreservingValuesType
  <2>3. PreservingPlace(v) \in [DOMAIN v -> Nat] BY <2>2, PlaceType
  <2>4. IsLayout(f.blocks, DOMAIN f.sec) BY DEF IsFile
  <2>5. IsImage(Emit(f, f.blocks, v, PreservingPlace(v)))
    <3> HIDE DEF v
    <3> QED BY <2>2, <2>3, <2>4, EmitType
  <2> QED BY <2>5 DEF Serialize
<1>2. IsImage(SerializeCanonical(f))
  <2> DEFINE b == CanonicalBlocks(f)
             v == CanonicalValues(f)
  <2>1. IsMap(v, Nat, Name) /\ UsedOffsets(f.sec) \subseteq DOMAIN v
    BY CanonicalValuesType
  <2>2. CanonicalPlace(f, b, v) \in [DOMAIN v -> Nat] BY <2>1, PlaceType
  <2>3. IsLayout(b, DOMAIN f.sec) BY CanonicalLayout
  <2>4. IsImage(Emit(f, b, v, CanonicalPlace(f, b, v)))
    <3> HIDE DEF b, v
    <3> QED BY <2>1, <2>2, <2>3, EmitType
  <2> QED BY <2>4 DEF SerializeCanonical
<1> QED BY <1>1, <1>2

-----------------------------------------------------------------------------
(***************************************************************************)
(* Places.                                                                 *)
(***************************************************************************)

Disjoint(values, place) ==
  \A o, p \in DOMAIN values :
    \/ o = p
    \/ place[o] + EntrySize(values[o]) <= place[p]
    \/ place[p] + EntrySize(values[p]) <= place[o]

LEMMA EntrySizeType ==
  ASSUME NEW n \in Name
  PROVE  EntrySize(n) \in 1 .. MaxNameLen + 1 /\ MaxNameLen \in Nat
BY ByteModAssumption DEF Name, EntrySize, MaxNameLen

\* A table compacted in any order of its entries.
LEMMA CompactedDisjoint ==
  ASSUME NEW values, IsMap(values, Nat, Name), NEW R, IsTotalOrder(R, DOMAIN values),
         NEW place,
         \A o \in DOMAIN values : place[o] = BytesOf(values, Below(R, DOMAIN values, o))
  PROVE  Disjoint(values, place)
<1> DEFINE D == DOMAIN values
           size == [o \in D |-> EntrySize(values[o])]
           n == MaxNameLen
           before(o) == Cardinality(Cells(Below(R, D, o), size, n))
<1>1. IsFiniteSet(D) /\ \A o \in D : values[o] \in Name BY DEF IsMap
<1>2. n \in Nat BY ByteModAssumption DEF MaxNameLen
<1>3. size \in [D -> 0 .. n + 1] BY <1>1, <1>2, EntrySizeType
<1>4. ASSUME NEW o \in D PROVE place[o] = before(o)
  <2>1. Cells(Below(R, D, o), size, n) =
          {c \in Below(R, D, o) \X (0 .. MaxNameLen) : c[2] < EntrySize(values[c[1]])}
    <3>1. \A c \in Below(R, D, o) \X (0 .. MaxNameLen) :
            size[c[1]] = EntrySize(values[c[1]])
      BY DEF Below
    <3> HIDE DEF size
    <3> QED BY <3>1 DEF Cells
  <2> HIDE DEF size
  <2> QED BY <2>1 DEF BytesOf
<1>5. ASSUME NEW o \in D, NEW p \in D, << o, p >> \in R
      PROVE  place[o] + EntrySize(values[o]) <= place[p]
  <2>1. before(o) + size[o] <= before(p)
    <3> HIDE DEF size, n, D
    <3> QED BY <1>1, <1>2, <1>3, <1>5, PackedDisjoint DEF D
  <2>2. size[o] = EntrySize(values[o]) OBVIOUS
  <2> HIDE DEF size, n, before
  <2> QED BY <1>4, <2>1, <2>2
<1> HIDE DEF size, n, before
<1> QED BY <1>5 DEF Disjoint, IsTotalOrder

LEMMA PreservingDisjoint ==
  ASSUME NEW values, IsMap(values, Nat, Name)
  PROVE  Disjoint(values, PreservingPlace(values))
<1> DEFINE D == DOMAIN values
           R == {c \in D \X D : c[1] < c[2]}
<1>1. D \subseteq Nat BY DEF IsMap
<1>2. CASE ~Overlapping(values)
  <2>1. \A o \in D : PreservingPlace(values)[o] = o
    BY <1>2 DEF PreservingPlace, SparsePlace
  <2>2. \A o \in D : EntrySize(values[o]) \in Nat BY DEF IsMap, Name, EntrySize
  <2> QED BY <1>1, <1>2, <2>1, <2>2 DEF Disjoint, Overlapping
<1>3. CASE Overlapping(values)
  <2>1. IsTotalOrder(R, D) BY <1>1 DEF IsTotalOrder
  <2>2. \A o \in D : Below(R, D, o) = {p \in D : p < o} BY DEF Below
  <2>3. \A o \in D : PreservingPlace(values)[o] = BytesOf(values, Below(R, D, o))
    BY <1>3, <2>2 DEF PreservingPlace
  <2> HIDE DEF R
  <2> QED BY <2>1, <2>3, CompactedDisjoint
<1> QED BY <1>2, <1>3

\* Among finitely many things in an order, one comes first.
LEMMA LeastElement ==
  ASSUME NEW S, IsFiniteSet(S), S # {}, NEW R, IsTotalOrder(R, S)
  PROVE  \E m \in S : \A x \in S : x = m \/ << m, x >> \in R
<1> DEFINE Above(x) == {y \in S : << x, y >> \in R}
           count == [x \in S |-> Cardinality(Above(x))]
<1>1. ASSUME NEW x \in S
      PROVE  /\ IsFiniteSet(Above(x)) /\ Cardinality(Above(x)) \in Nat
             /\ Cardinality(Above(x) \cup {x}) = Cardinality(Above(x)) + 1
  <2>1. Above(x) \in SUBSET S /\ x \notin Above(x) BY DEF IsTotalOrder
  <2> HIDE DEF Above
  <2>2. IsFiniteSet(Above(x)) BY <2>1, FS_Subset
  <2> QED BY <2>1, <2>2, FS_CardinalityType, FS_AddElement
<1>2. count \in [S -> Int]
  <2>1. ASSUME NEW x \in S PROVE Cardinality(Above(x)) \in Int
    <3>1. Cardinality(Above(x)) \in Nat BY <1>1
    <3> HIDE DEF Above
    <3> QED BY <3>1
  <2> HIDE DEF Above
  <2> QED BY <2>1
<1>3. PICK m \in S : \A x \in S : count[x] <= count[m]
  <2> HIDE DEF count
  <2> QED BY <1>2, GreatestValue
<1>4. ASSUME NEW x \in S, << x, m >> \in R PROVE FALSE
  <2>1. Above(m) \cup {m} \in SUBSET Above(x) BY <1>4 DEF IsTotalOrder
  <2>2. /\ Cardinality(Above(m)) \in Nat /\ Cardinality(Above(x)) \in Nat
        /\ Cardinality(Above(m) \cup {m}) = Cardinality(Above(m)) + 1
        /\ IsFiniteSet(Above(x))
    BY <1>1
  <2>3. count[x] = Cardinality(Above(x)) /\ count[m] = Cardinality(Above(m)) OBVIOUS
  <2> HIDE DEF Above, count
  <2>4. Cardinality(Above(m) \cup {m}) <= Cardinality(Above(x))
    BY <2>1, <2>2, FS_Subset
  <2> QED BY <1>3, <2>2, <2>3, <2>4
<1> QED BY <1>4 DEF IsTotalOrder

OffsetPairs(f, blocks) ==
  {c \in UsedOffsets(f.sec) \X UsedOffsets(f.sec) : FirstUsedBefore(f, blocks, c[1], c[2])}

LEMMA FirstUseIsOrder ==
  ASSUME NEW f, IsFile(f), NEW blocks, IsLayout(blocks, DOMAIN f.sec)
  PROVE  IsTotalOrder(OffsetPairs(f, blocks), UsedOffsets(f.sec))
<1> DEFINE S == DOMAIN f.sec
           U == UsedOffsets(f.sec)
           F(p, o) == FirstUsedBefore(f, blocks, p, o)
           R == Ordered(blocks, S)
<1>1. IsTotalOrder(R, S) BY BeforeIsOrder
<1>2. \A s, t \in S : << s, t >> \in R <=> Before(blocks, s, t) BY DEF Ordered
<1>3. \A o \in U : Users(f, o) # {} /\ Users(f, o) \subseteq S
  BY DEF UsedOffsets, Users, Named
<1> HIDE DEF R
<1>4. ASSUME NEW o \in U PROVE ~F(o, o)
  BY <1>1, <1>2, <1>3 DEF FirstUsedBefore, IsTotalOrder
<1>5. ASSUME NEW o \in U, NEW p \in U, NEW q \in U, F(o, p), F(p, q) PROVE F(o, q)
  <2>1. PICK s \in Users(f, o) : \A t \in Users(f, p) : Before(blocks, s, t)
    BY <1>5 DEF FirstUsedBefore
  <2>2. PICK t \in Users(f, p) : \A u \in Users(f, q) : Before(blocks, t, u)
    BY <1>5 DEF FirstUsedBefore
  <2>3. ASSUME NEW u \in Users(f, q) PROVE Before(blocks, s, u)
    <3>1. s \in S /\ t \in S /\ u \in S BY <1>3
    <3>2. << s, t >> \in R /\ << t, u >> \in R BY <1>2, <2>1, <2>2, <3>1
    <3>3. << s, u >> \in R BY <1>1, <3>1, <3>2 DEF IsTotalOrder
    <3> QED BY <1>2, <3>1, <3>3
  <2> QED BY <2>3 DEF FirstUsedBefore
<1>6. ASSUME NEW o \in U, NEW p \in U, o # p PROVE F(o, p) \/ F(p, o)
  <2> DEFINE both == Users(f, o) \cup Users(f, p)
  <2>1. IsFiniteSet(S) BY DEF IsFile, IsMap
  <2>2. both \in SUBSET S /\ both # {} BY <1>3
  <2>3. IsTotalOrder(R, both) BY <1>1, <2>2 DEF IsTotalOrder
  <2>4. PICK m \in both : \A x \in both : x = m \/ << m, x >> \in R
    <3> HIDE DEF both, S
    <3>1. IsFiniteSet(both) BY <2>1, <2>2, FS_Subset
    <3> QED BY <2>2, <2>3, <3>1, LeastElement
  <2>5. Users(f, o) \cap Users(f, p) = {} BY <1>6 DEF Users
  <2>6. m \in S BY <2>2
  <2>7. CASE m \in Users(f, o)
    <3>1. ASSUME NEW t \in Users(f, p) PROVE Before(blocks, m, t)
      BY <1>2, <1>3, <2>4, <2>5, <2>6, <2>7
    <3> QED BY <2>7, <3>1 DEF FirstUsedBefore
  <2>8. CASE m \in Users(f, p)
    <3>1. ASSUME NEW t \in Users(f, o) PROVE Before(blocks, m, t)
      BY <1>2, <1>3, <2>4, <2>5, <2>6, <2>8
    <3> QED BY <2>8, <3>1 DEF FirstUsedBefore
  <2> QED BY <2>7, <2>8
<1>7. \A o, p \in U : << o, p >> \in OffsetPairs(f, blocks) <=> F(o, p)
  BY DEF OffsetPairs
<1> HIDE DEF F, U
<1>8. IsTotalOrder(OffsetPairs(f, blocks), U)
  BY <1>4, <1>5, <1>6, <1>7 DEF IsTotalOrder
<1> QED BY <1>8 DEF U

LEMMA CanonicalDisjoint ==
  ASSUME NEW f, IsFile(f), NEW blocks, IsLayout(blocks, DOMAIN f.sec),
         NEW values, IsMap(values, Nat, Name), DOMAIN values = UsedOffsets(f.sec)
  PROVE  Disjoint(values, CanonicalPlace(f, blocks, values))
<1> DEFINE R == OffsetPairs(f, blocks)
           D == DOMAIN values
<1>1. IsTotalOrder(R, D) BY FirstUseIsOrder
<1>2. \A o \in D : Below(R, D, o) = {p \in D : FirstUsedBefore(f, blocks, p, o)}
  BY DEF Below, OffsetPairs
<1>3. \A o \in D :
        CanonicalPlace(f, blocks, values)[o] = BytesOf(values, Below(R, D, o))
  BY <1>2 DEF CanonicalPlace
<1> HIDE DEF R
<1> QED BY <1>1, <1>3, CompactedDisjoint

-----------------------------------------------------------------------------
(***************************************************************************)
(* The name table.                                                         *)
(***************************************************************************)

LEMMA TableLength ==
  ASSUME NEW values, IsMap(values, Nat, Name), NEW place \in [DOMAIN values -> Nat]
  PROVE  Len(NameTable(values, place)) = TableSize(values, place)
<1>1. TableSize(values, place) \in Nat BY TableSizeIsEnd
<1>2. CASE place = << >>
  <2>1. DOMAIN values = {} BY <1>2
  <2>2. EntryEnds(values, place) = {} BY <2>1 DEF EntryEnds
  <2>3. TableSize(values, place) = 0 BY <2>2 DEF TableSize
  <2> QED BY <1>2, <2>3 DEF NameTable
<1>3. CASE place # << >>
  <2> DEFINE At(i) ==
          IF \E o \in DOMAIN values : Covers(values, place, o, i)
          THEN LET o == CHOOSE o \in DOMAIN values : Covers(values, place, o, i)
               IN  IF i = place[o] + 1 THEN Len(values[o])
                   ELSE values[o][i - place[o] - 1]
          ELSE 0
  <2>1. NameTable(values, place) = [i \in 1 .. TableSize(values, place) |-> At(i)]
    BY <1>3 DEF NameTable
  <2> HIDE DEF At
  <2> QED BY <1>1, <2>1
<1> QED BY <1>2, <1>3

\* Where entries do not overlap, each is in the table, byte for byte.
LEMMA TableHolds ==
  ASSUME NEW values, IsMap(values, Nat, Name), NEW place \in [DOMAIN values -> Nat],
         Disjoint(values, place), NEW o \in DOMAIN values
  PROVE  LET t == NameTable(values, place)
         IN  /\ t[place[o] + 1] = Len(values[o])
             /\ \A k \in 1 .. Len(values[o]) : t[place[o] + 1 + k] = values[o][k]
<1>1. \A p \in DOMAIN values : Len(values[p]) \in Nat /\ place[p] \in Nat
  BY DEF IsMap, Name
<1>2. /\ TableSize(values, place) \in Nat
      /\ place[o] + EntrySize(values[o]) <= TableSize(values, place)
  BY TableSizeIsEnd
<1>3. place # << >>
  <2>1. DOMAIN place # {} OBVIOUS
  <2> QED BY <2>1
<1>4. ASSUME NEW k \in 0 .. Len(values[o])
      PROVE  NameTable(values, place)[place[o] + 1 + k] =
               IF k = 0 THEN Len(values[o]) ELSE values[o][k]
  <2> DEFINE i == place[o] + 1 + k
  <2>1. i \in 1 .. TableSize(values, place) BY <1>1, <1>2 DEF EntrySize
  <2>2. Covers(values, place, o, i) BY <1>1 DEF Covers, EntrySize
  <2>3. ASSUME NEW p \in DOMAIN values, Covers(values, place, p, i) PROVE p = o
    <3>1. place[p] < i /\ i <= place[p] + EntrySize(values[p])
      BY <2>3 DEF Covers
    <3>2. place[o] < i /\ i <= place[o] + EntrySize(values[o])
      BY <2>2 DEF Covers
    <3>3. i \in Nat /\ EntrySize(values[o]) \in Nat /\ EntrySize(values[p]) \in Nat
      BY <1>1 DEF EntrySize
    <3> HIDE DEF i
    <3> QED BY <1>1, <3>1, <3>2, <3>3 DEF Disjoint
  <2>4. (CHOOSE p \in DOMAIN values : Covers(values, place, p, i)) = o
    <3> HIDE DEF i
    <3> QED BY <2>2, <2>3
  <2>5. NameTable(values, place)[i] =
          IF i = place[o] + 1 THEN Len(values[o]) ELSE values[o][i - place[o] - 1]
    <3> HIDE DEF i
    <3> QED BY <1>3, <2>1, <2>2, <2>4 DEF NameTable
  <2>6. (i = place[o] + 1 <=> k = 0) /\ i - place[o] - 1 = k BY <1>1
  <2> QED BY <2>5, <2>6
<1>5. NameTable(values, place)[place[o] + 1] = Len(values[o])
  <2>1. 0 \in 0 .. Len(values[o]) /\ place[o] + 1 + 0 = place[o] + 1 BY <1>1
  <2> QED BY <1>4, <2>1
<1>6. ASSUME NEW k \in 1 .. Len(values[o])
      PROVE  NameTable(values, place)[place[o] + 1 + k] = values[o][k]
  BY <1>1, <1>4
<1> QED BY <1>5, <1>6

LEMMA ConsumedBound ==
  ASSUME NEW n \in Byte
  PROVE  /\ Consumed(n) \in 0 .. 1 + n
         /\ n < MaxNameLen => Consumed(n) = 1 + n
<1>1. n \in 0 .. ByteMod - 1 /\ ByteMod \in Nat \ {0, 1}
  BY ByteModAssumption DEF Byte
<1>2. CASE n = 0 BY <1>1, <1>2 DEF Consumed
<1>3. CASE n # 0 /\ n < ByteMod - 1
  <2>1. (1 + n) % ByteMod = 1 + n BY <1>1, <1>3
  <2> QED BY <1>1, <1>3, <2>1 DEF Consumed, MaxNameLen
<1>4. CASE n # 0 /\ n = ByteMod - 1
  <2>1. (1 + n) % ByteMod = 0
    <3>1. 1 + n = ByteMod BY <1>1, <1>4
    <3>2. ByteMod % ByteMod = 0 BY <1>1
    <3> QED BY <3>1, <3>2
  <2> QED BY <1>1, <1>4, <2>1 DEF Consumed, MaxNameLen
<1> QED BY <1>1, <1>2, <1>3, <1>4

\* The parser reads an entry of a table back, whatever bytes follow.
LEMMA EntryReadBack ==
  ASSUME NEW img, IsImage(img), NEW o \in Nat, NEW n \in Name,
         o + EntrySize(n) <= Len(img.tail),
         img.tail[o + 1] = Len(n),
         \A k \in 1 .. Len(n) : img.tail[o + 1 + k] = n[k]
  PROVE  /\ NameAt(img, o) = n
         /\ ~BadName(img, o)
         /\ NameEnd(img, o) <= o + EntrySize(n)
         /\ Len(n) < MaxNameLen => NameEnd(img, o) = o + EntrySize(n)
<1>1. PICK t \in Seq(Byte), u \in Seq(Byte) : t = img.tail /\ u = img.slack
  BY DEF IsImage
<1>2. PICK z \in Seq(Byte) :
        /\ z = Stream(img) /\ Len(z) >= Len(t)
        /\ \A i \in 1 .. Len(t) : z[i] = t[i]
  <2>1. t \o u \in Seq(Byte) /\ Len(t \o u) = Len(t) + Len(u)
    BY ConcatProperties
  <2>2. \A i \in 1 .. Len(t) : (t \o u)[i] = t[i] BY ConcatProperties
  <2>3. Len(t) \in Nat /\ Len(u) \in Nat OBVIOUS
  <2>4. Len(t \o u) >= Len(t) BY <2>1, <2>3
  <2> QED BY <1>1, <2>1, <2>2, <2>4 DEF Stream
<1>3. PICK l \in Nat : l = Len(n) /\ l <= ByteMod - 1 /\ n \in Seq(Byte)
  BY DEF Name
<1>4. Len(t) \in Nat /\ o + 1 + l <= Len(t) BY <1>1, <1>3 DEF EntrySize
<1>5. z[o + 1] = l /\ \A k \in 1 .. l : z[o + 1 + k] = n[k]
  <2>1. o + 1 \in 1 .. Len(t) BY <1>4
  <2>2. \A k \in 1 .. l : o + 1 + k \in 1 .. Len(t) BY <1>4
  <2> QED BY <1>1, <1>2, <1>3, <2>1, <2>2
<1>6. l \in Byte BY <1>3, ByteModAssumption DEF Byte
<1>7. NameAt(img, o) = n
  <2>1. NameAt(img, o) = SubSeq(z, o + 2, o + 1 + l) BY <1>2, <1>5 DEF NameAt
  <2>2. o + 1 + l <= Len(z) /\ Len(z) \in Nat BY <1>2, <1>4
  <2>3. \A i \in o + 2 .. o + 1 + l : z[i] \in Byte BY <2>2
  <2> DEFINE q == SubSeq(z, o + 2, o + 1 + l)
  <2>4. /\ q \in Seq(Byte)
        /\ Len(q) = IF o + 2 <= o + 1 + l THEN o + 1 + l - (o + 2) + 1 ELSE 0
        /\ \A k \in 1 .. o + 1 + l - (o + 2) + 1 : q[k] = z[o + 2 + k - 1]
    BY <2>3, SubSeqProperties
  <2>5. Len(q) = l /\ \A k \in 1 .. l : q[k] = z[o + 1 + k]
    <3>1. /\ o + 1 + l - (o + 2) + 1 = l
          /\ \A k \in 1 .. l : o + 2 + k - 1 = o + 1 + k
          /\ o + 2 <= o + 1 + l <=> l # 0
      OBVIOUS
    <3> HIDE DEF q
    <3> QED BY <2>4, <3>1
  <2> HIDE DEF q
  <2>6. q = n BY <1>3, <1>5, <2>4, <2>5, SeqEqual
  <2> QED BY <2>1, <2>6 DEF q
<1>8. Consumed(l) \in 0 .. 1 + l /\ (l < MaxNameLen => Consumed(l) = 1 + l)
  BY <1>6, ConsumedBound
<1>9. NameEnd(img, o) = o + Consumed(l) BY <1>2, <1>5 DEF NameEnd
<1>10. ~BadName(img, o)
  <2>1. o < Len(t) BY <1>4
  <2>2. ~(o + 1 + l > Len(z)) /\ ~(o + Consumed(l) > Len(t)) /\ ~(o >= Len(t))
    BY <1>2, <1>4, <1>8
  <2> QED BY <1>1, <1>2, <1>5, <1>9, <2>2 DEF BadName
<1>11. EntrySize(n) = 1 + l BY <1>3 DEF EntrySize
<1>12. PICK c \in Nat : c = Consumed(l) BY <1>8
<1>13. c <= 1 + l /\ (l < MaxNameLen => c = 1 + l) BY <1>8, <1>12
<1>14. NameEnd(img, o) <= o + EntrySize(n) BY <1>9, <1>11, <1>12, <1>13
<1>15. Len(n) < MaxNameLen => NameEnd(img, o) = o + EntrySize(n)
  BY <1>3, <1>9, <1>11, <1>12, <1>13
<1> QED BY <1>7, <1>10, <1>14, <1>15

-----------------------------------------------------------------------------
(***************************************************************************)
(* Images.                                                                 *)
(***************************************************************************)

\* A layout of a file: the order of its blocks, the entries of its name table
\* and where they go.
IsPlan(f, blocks, values, place) ==
  /\ IsLayout(blocks, DOMAIN f.sec)
  /\ IsMap(values, Nat, Name)
  /\ UsedOffsets(f.sec) \subseteq DOMAIN values
  /\ place \in [DOMAIN values -> Nat]
  /\ Disjoint(values, place)

LEMMA EmittedTail ==
  ASSUME NEW f, IsFile(f), NEW blocks, NEW values, NEW place,
         IsPlan(f, blocks, values, place)
  PROVE  LET img == Emit(f, blocks, values, place)
             t   == NameTable(values, place)
         IN  /\ t \in Seq(Byte) /\ Len(t) = TableSize(values, place)
             /\ img.tail = t \o f.rawTail /\ f.rawTail \in Seq(Byte)
             /\ Len(img.tail) = Len(t) + Len(f.rawTail)
             /\ \A i \in 1 .. Len(t) : img.tail[i] = t[i]
<1>1. NameTable(values, place) \in Seq(Byte) BY NameTableType DEF IsPlan
<1>2. Len(NameTable(values, place)) = TableSize(values, place)
  BY TableLength DEF IsPlan
<1>3. f.rawTail \in Seq(Byte) BY DEF IsFile
<1>4. Emit(f, blocks, values, place).tail = NameTable(values, place) \o f.rawTail
  BY DEF Emit
<1>5. PICK t \in Seq(Byte), r \in Seq(Byte) :
        t = NameTable(values, place) /\ r = f.rawTail
  BY <1>1, <1>3
<1>6. Len(t \o r) = Len(t) + Len(r) BY ConcatProperties
<1>7. \A i \in 1 .. Len(t) : (t \o r)[i] = t[i] BY ConcatProperties
<1> QED BY <1>2, <1>4, <1>5, <1>6, <1>7

\* Each entry is found again where it was put, whatever the raw tail holds.
LEMMA EmittedNames ==
  ASSUME NEW f, IsFile(f), NEW blocks, NEW values, NEW place,
         IsPlan(f, blocks, values, place), NEW o \in DOMAIN values
  PROVE  LET img == Emit(f, blocks, values, place)
             end == place[o] + EntrySize(values[o])
         IN  /\ NameAt(img, place[o]) = values[o]
             /\ ~BadName(img, place[o])
             /\ NameEnd(img, place[o]) <= end
             /\ Len(values[o]) < MaxNameLen => NameEnd(img, place[o]) = end
             /\ end <= TableSize(values, place)
<1> DEFINE img == Emit(f, blocks, values, place)
           t == NameTable(values, place)
<1>1. IsImage(img) BY EmitType DEF IsPlan
<1>2. /\ values[o] \in Name /\ place[o] \in Nat
      /\ IsMap(values, Nat, Name) /\ place \in [DOMAIN values -> Nat]
      /\ Disjoint(values, place)
  BY DEF IsPlan, IsMap
<1>3. /\ TableSize(values, place) \in Nat
      /\ place[o] + EntrySize(values[o]) <= TableSize(values, place)
  BY <1>2, TableSizeIsEnd
<1>4. /\ t[place[o] + 1] = Len(values[o])
      /\ \A k \in 1 .. Len(values[o]) : t[place[o] + 1 + k] = values[o][k]
  BY <1>2, TableHolds
<1>5. /\ Len(t) = TableSize(values, place)
      /\ Len(img.tail) = Len(t) + Len(f.rawTail) /\ f.rawTail \in Seq(Byte)
      /\ \A i \in 1 .. Len(t) : img.tail[i] = t[i]
  BY EmittedTail
<1>6. PICK l \in Nat : l = Len(values[o]) /\ EntrySize(values[o]) = 1 + l
  BY <1>2 DEF Name, EntrySize
<1>7. place[o] + 1 \in 1 .. Len(t) /\ \A k \in 1 .. l : place[o] + 1 + k \in 1 .. Len(t)
  BY <1>2, <1>3, <1>5, <1>6
<1>8. /\ img.tail[place[o] + 1] = Len(values[o])
      /\ \A k \in 1 .. Len(values[o]) : img.tail[place[o] + 1 + k] = values[o][k]
  BY <1>4, <1>5, <1>6, <1>7
<1>9. place[o] + EntrySize(values[o]) <= Len(img.tail)
  <2>1. Len(f.rawTail) \in Nat BY <1>5
  <2> HIDE DEF img, t
  <2> QED BY <1>2, <1>3, <1>5, <1>6, <2>1
<1>10. /\ NameAt(img, place[o]) = values[o]
       /\ ~BadName(img, place[o])
       /\ NameEnd(img, place[o]) <= place[o] + EntrySize(values[o])
       /\ Len(values[o]) < MaxNameLen =>
            NameEnd(img, place[o]) = place[o] + EntrySize(values[o])
  <2> HIDE DEF img
  <2> QED BY <1>1, <1>2, <1>8, <1>9, EntryReadBack
<1> QED BY <1>3, <1>10

\* The offsets in an image are those of the entries its sections use.
LEMMA EmittedOffsets ==
  ASSUME NEW f, IsFile(f), NEW blocks, NEW values, NEW place,
         IsPlan(f, blocks, values, place)
  PROVE  LET img == Emit(f, blocks, values, place)
         IN  /\ UsedOffsets(img.sec) = {place[o] : o \in UsedOffsets(f.sec)}
             /\ GoodOffsets(img) = UsedOffsets(img.sec)
<1> DEFINE img == Emit(f, blocks, values, place)
<1>1. /\ DOMAIN img.sec = DOMAIN f.sec
      /\ \A s \in DOMAIN f.sec :
           img.sec[s].nameOff = IF s \in Named(f) THEN place[f.sec[s].nameOff]
                                ELSE NoNameOffset
  BY DEF Emit
<1>2. \A o \in UsedOffsets(f.sec) : o \in DOMAIN values /\ place[o] \in Nat
  BY DEF IsPlan
<1>3. \A o \in UsedOffsets(f.sec) : place[o] # NoNameOffset
  BY <1>2 DEF NoNameOffset
<1>4. \A s \in Named(f) : f.sec[s].nameOff \in UsedOffsets(f.sec)
  BY DEF Named, UsedOffsets
<1>5. UsedOffsets(img.sec) = {place[o] : o \in UsedOffsets(f.sec)}
  <2>1. ASSUME NEW p \in UsedOffsets(img.sec)
        PROVE  p \in {place[o] : o \in UsedOffsets(f.sec)}
    <3> HIDE DEF img
    <3>1. PICK s \in DOMAIN f.sec : p = img.sec[s].nameOff /\ p # NoNameOffset
      BY <1>1 DEF UsedOffsets
    <3>2. s \in Named(f) /\ p = place[f.sec[s].nameOff] BY <1>1, <3>1
    <3> QED BY <1>4, <3>2
  <2>2. ASSUME NEW o \in UsedOffsets(f.sec) PROVE place[o] \in UsedOffsets(img.sec)
    <3> HIDE DEF img
    <3>1. PICK s \in DOMAIN f.sec : o = f.sec[s].nameOff /\ o # NoNameOffset
      BY DEF UsedOffsets
    <3>2. img.sec[s].nameOff = place[o] BY <1>1, <3>1 DEF Named
    <3> QED BY <1>1, <1>3, <3>2 DEF UsedOffsets
  <2> HIDE DEF img
  <2> QED BY <2>1, <2>2
<1>6. \A o \in UsedOffsets(f.sec) : ~BadName(img, place[o])
  BY <1>2, EmittedNames
<1> HIDE DEF img
<1>7. GoodOffsets(img) = UsedOffsets(img.sec) BY <1>5, <1>6 DEF GoodOffsets
<1> QED BY <1>5, <1>7 DEF img

\* Each payload is found again where it was put.
LEMMA EmittedPayloads ==
  ASSUME NEW f, IsFile(f), NEW blocks, NEW values, NEW place,
         IsPlan(f, blocks, values, place), NEW s \in DOMAIN f.sec
  PROVE  LET img == Emit(f, blocks, values, place)
         IN  /\ StoredAt(img, DataOffset(f, blocks, s)) =
                  {[off |-> DataOffset(f, blocks, s), payload |-> f.sec[s].payload]}
             /\ PayloadAt(img, DataOffset(f, blocks, s)) = f.sec[s].payload
<1> DEFINE img == Emit(f, blocks, values, place)
           item(t) == [off |-> DataOffset(f, blocks, t), payload |-> f.sec[t].payload]
<1>1. img.data = {item(t) : t \in DOMAIN f.sec} BY DEF Emit
<1>2. \A t \in DOMAIN f.sec :
        DataOffset(f, blocks, t) = DataOffset(f, blocks, s) => t = s
  BY OffsetsDiffer DEF IsPlan
<1>3. StoredAt(img, DataOffset(f, blocks, s)) = {item(s)}
  <2> HIDE DEF img
  <2>1. \A t \in DOMAIN f.sec : item(t).off = DataOffset(f, blocks, t) OBVIOUS
  <2> HIDE DEF item
  <2> QED BY <1>1, <1>2, <2>1 DEF StoredAt
<1>4. PayloadAt(img, DataOffset(f, blocks, s)) = item(s).payload
  <2> HIDE DEF img, item
  <2> QED BY <1>3 DEF PayloadAt
<1> QED BY <1>3, <1>4

\* What the parser makes of a written file: nothing a strict open objects to,
\* and every section with the name and the payload it was written with.
LEMMA ReadBack ==
  ASSUME NEW f, IsFile(f), NEW blocks, NEW values, NEW place,
         IsPlan(f, blocks, values, place)
  PROVE  LET img == Emit(f, blocks, values, place)
             g   == Parse(img)
         IN  /\ ~StrictIssue(img)
             /\ Unreadable(img) <=> ~Fits(f)
             /\ g.hdr = f.hdr /\ g.hdr2 = f.hdr /\ g.blocks = blocks
             /\ DOMAIN g.sec = DOMAIN f.sec
             /\ \A s \in DOMAIN f.sec :
                  /\ g.sec[s].type = f.sec[s].type /\ g.sec[s].index = f.sec[s].index
                  /\ g.sec[s].payload = f.sec[s].payload
                  /\ g.sec[s].dataOff = DataOffset(f, blocks, s)
                  /\ g.sec[s].nameOff = IF s \in Named(f) THEN place[f.sec[s].nameOff]
                                        ELSE NoNameOffset
                  /\ g.sec[s].name = IF s \in Named(f) THEN values[f.sec[s].nameOff] ELSE NoName
             /\ DOMAIN g.names = {place[o] : o \in UsedOffsets(f.sec)}
             /\ \A o \in UsedOffsets(f.sec) : g.names[place[o]] = values[o]
<1> DEFINE img == Emit(f, blocks, values, place)
           g == Parse(img)
<1>1. /\ UsedOffsets(img.sec) = {place[o] : o \in UsedOffsets(f.sec)}
      /\ GoodOffsets(img) = UsedOffsets(img.sec)
  BY EmittedOffsets
<1>2. \A o \in UsedOffsets(f.sec) :
        /\ o \in DOMAIN values
        /\ NameAt(img, place[o]) = values[o] /\ ~BadName(img, place[o])
        /\ place[o] \in Nat
  BY EmittedNames DEF IsPlan
<1>3. /\ img.hdr = f.hdr /\ img.hdr2 = f.hdr /\ img.blocks = blocks
      /\ DOMAIN img.sec = DOMAIN f.sec
      /\ \A s \in DOMAIN f.sec :
           /\ img.sec[s].type = f.sec[s].type
           /\ img.sec[s].index = f.sec[s].index
           /\ img.sec[s].nameOff = IF s \in Named(f) THEN place[f.sec[s].nameOff]
                                   ELSE NoNameOffset
           /\ img.sec[s].dataOff = DataOffset(f, blocks, s)
  BY DEF Emit, WrittenHeaders
<1>4. \A s \in DOMAIN f.sec :
        /\ StoredAt(img, DataOffset(f, blocks, s)) =
             {[off |-> DataOffset(f, blocks, s), payload |-> f.sec[s].payload]}
        /\ PayloadAt(img, DataOffset(f, blocks, s)) = f.sec[s].payload
  BY EmittedPayloads
<1> HIDE DEF img
<1>5. ~StrictIssue(img) BY <1>1, <1>2, <1>3 DEF StrictIssue
<1>6. Unreadable(img) <=> ~Fits(f)
  <2>1. ASSUME NEW s \in DOMAIN f.sec
        PROVE  (\E d \in StoredAt(img, img.sec[s].dataOff) : d.payload.len <= MaxPayload)
                 <=> f.sec[s].payload.len <= MaxPayload
    <3>1. StoredAt(img, img.sec[s].dataOff) =
            {[off |-> DataOffset(f, blocks, s), payload |-> f.sec[s].payload]}
      BY <1>3, <1>4
    <3> QED BY <3>1
  <2> QED BY <1>3, <2>1 DEF Unreadable, Fits
<1>7. /\ g.hdr = f.hdr /\ g.hdr2 = f.hdr /\ g.blocks = blocks
      /\ DOMAIN g.sec = DOMAIN f.sec
  BY <1>3 DEF Parse
<1>8. ASSUME NEW s \in DOMAIN f.sec
      PROVE  /\ g.sec[s].type = f.sec[s].type /\ g.sec[s].index = f.sec[s].index
             /\ g.sec[s].payload = f.sec[s].payload
             /\ g.sec[s].dataOff = DataOffset(f, blocks, s)
             /\ g.sec[s].nameOff = IF s \in Named(f) THEN place[f.sec[s].nameOff]
                                   ELSE NoNameOffset
             /\ g.sec[s].name = IF s \in Named(f) THEN values[f.sec[s].nameOff] ELSE NoName
  <2>1. img.sec[s].nameOff \in GoodOffsets(img) <=> s \in Named(f)
    <3>1. s \in Named(f) => f.sec[s].nameOff \in UsedOffsets(f.sec)
      BY DEF Named, UsedOffsets
    <3>2. NoNameOffset \notin GoodOffsets(img) BY DEF GoodOffsets, UsedOffsets
    <3>3. CASE s \in Named(f) BY <1>1, <1>3, <3>1, <3>3
    <3>4. CASE s \notin Named(f) BY <1>3, <3>2, <3>4
    <3> QED BY <3>3, <3>4
  <2>2. s \in Named(f) => NameAt(img, img.sec[s].nameOff) = values[f.sec[s].nameOff]
    <3>1. s \in Named(f) => f.sec[s].nameOff \in UsedOffsets(f.sec)
      BY DEF Named, UsedOffsets
    <3>2. s \in Named(f) => img.sec[s].nameOff = place[f.sec[s].nameOff] BY <1>3
    <3> QED BY <1>2, <3>1, <3>2
  <2>3. g.sec[s] = [ type    |-> img.sec[s].type,
                     index   |-> img.sec[s].index,
                     nameOff |-> img.sec[s].nameOff,
                     dataOff |-> img.sec[s].dataOff,
                     name    |-> IF img.sec[s].nameOff \in GoodOffsets(img)
                                 THEN NameAt(img, img.sec[s].nameOff) ELSE NoName,
                     payload |-> PayloadAt(img, img.sec[s].dataOff) ]
    BY <1>3 DEF Parse
  <2> HIDE DEF g
  <2>4. CASE s \in Named(f) BY <1>3, <1>4, <2>1, <2>2, <2>3, <2>4
  <2>5. CASE s \notin Named(f) BY <1>3, <1>4, <2>1, <2>3, <2>5
  <2> QED BY <2>4, <2>5
<1>9. g.names = [o \in GoodOffsets(img) |-> NameAt(img, o)] BY DEF Parse
<1>10. /\ DOMAIN g.names = {place[o] : o \in UsedOffsets(f.sec)}
       /\ \A o \in UsedOffsets(f.sec) : g.names[place[o]] = values[o]
  <2> HIDE DEF g
  <2> QED BY <1>1, <1>2, <1>9
<1> HIDE DEF g
<1>11. /\ ~StrictIssue(img)
       /\ Unreadable(img) <=> ~Fits(f)
       /\ g.hdr = f.hdr /\ g.hdr2 = f.hdr /\ g.blocks = blocks
       /\ DOMAIN g.sec = DOMAIN f.sec
  BY <1>5, <1>6, <1>7
<1> QED BY <1>8, <1>10, <1>11 DEF g, img

-----------------------------------------------------------------------------
(***************************************************************************)
(* Names in memory.                                                        *)
(***************************************************************************)

\* The name a section carries is the one the table has behind its offset.  A
\* section the parser found no name for carries none.
TableRules(f) ==
  \A s \in DOMAIN f.sec :
    f.sec[s].name # NoName =>
      /\ f.sec[s].nameOff \in DOMAIN f.names
      /\ f.names[f.sec[s].nameOff] = f.sec[s].name

LEMMA ParsedTableRules == ASSUME NEW img PROVE TableRules(Parse(img))
<1> DEFINE f == Parse(img)
<1>1. /\ DOMAIN f.sec = DOMAIN img.sec
      /\ f.names = [o \in GoodOffsets(img) |-> NameAt(img, o)]
  BY DEF Parse
<1>2. \A s \in DOMAIN img.sec :
        /\ f.sec[s].nameOff = img.sec[s].nameOff
        /\ f.sec[s].name = IF img.sec[s].nameOff \in GoodOffsets(img)
                           THEN NameAt(img, img.sec[s].nameOff) ELSE NoName
  BY DEF Parse
<1> HIDE DEF f
<1>3. TableRules(f) BY <1>1, <1>2 DEF TableRules
<1> QED BY <1>3 DEF f

\* And the other way round, right after a parse.
LEMMA ParsedNames ==
  ASSUME NEW img, NEW s \in DOMAIN Parse(img).sec,
         Parse(img).sec[s].nameOff \in DOMAIN Parse(img).names
  PROVE  Parse(img).names[Parse(img).sec[s].nameOff] = Parse(img).sec[s].name
<1> DEFINE f == Parse(img)
<1>1. /\ s \in DOMAIN img.sec
      /\ f.names = [o \in GoodOffsets(img) |-> NameAt(img, o)]
      /\ f.sec[s].nameOff = img.sec[s].nameOff
      /\ f.sec[s].name = IF img.sec[s].nameOff \in GoodOffsets(img)
                         THEN NameAt(img, img.sec[s].nameOff) ELSE NoName
  BY DEF Parse
<1>2. f.sec[s].nameOff \in DOMAIN f.names OBVIOUS
<1> HIDE DEF f
<1> QED BY <1>1, <1>2 DEF f

LEMMA ParsedFits ==
  ASSUME NEW img, IsImage(img), ~Unreadable(img)
  PROVE  Fits(Parse(img))
<1> DEFINE f == Parse(img)
<1>1. SUFFICES ASSUME NEW s \in DOMAIN f.sec PROVE f.sec[s].payload.len <= MaxPayload
  BY DEF Fits
<1>2. s \in DOMAIN img.sec /\ f.sec[s].payload = PayloadAt(img, img.sec[s].dataOff)
  BY DEF Parse
<1> HIDE DEF f
<1>3. PICK d \in StoredAt(img, img.sec[s].dataOff) : d.payload.len <= MaxPayload
  BY <1>2 DEF Unreadable
<1>4. \A e \in StoredAt(img, img.sec[s].dataOff) : e = d
  BY <1>3 DEF StoredAt, IsImage
<1>5. PayloadAt(img, img.sec[s].dataOff) = d.payload BY <1>3, <1>4 DEF PayloadAt
<1> QED BY <1>2, <1>3, <1>5

LEMMA ContentsOf ==
  ASSUME NEW f
  PROVE  /\ Contents(f).hdr = f.hdr
         /\ DOMAIN Contents(f).sec = DOMAIN f.sec
         /\ Contents(f).sec = [s \in DOMAIN f.sec |-> Contents(f).sec[s]]
         /\ \A s \in DOMAIN f.sec :
              Contents(f).sec[s] =
                [ type |-> f.sec[s].type, index |-> f.sec[s].index,
                  name |-> ResolvedName(f, s), payload |-> f.sec[s].payload ]
BY DEF Contents

\* Two files a caller cannot tell apart.
LEMMA SameContents ==
  ASSUME NEW f, NEW g, Contents(f) = Contents(g)
  PROVE  /\ f.hdr = g.hdr /\ DOMAIN f.sec = DOMAIN g.sec
         /\ \A s \in DOMAIN f.sec :
              /\ f.sec[s].type = g.sec[s].type /\ f.sec[s].index = g.sec[s].index
              /\ ResolvedName(f, s) = ResolvedName(g, s)
              /\ f.sec[s].payload = g.sec[s].payload
<1> DEFINE c == Contents(f)
           d == Contents(g)
<1>1. f.hdr = g.hdr /\ DOMAIN f.sec = DOMAIN g.sec
  <2>1. /\ c.hdr = f.hdr /\ DOMAIN c.sec = DOMAIN f.sec
        /\ d.hdr = g.hdr /\ DOMAIN d.sec = DOMAIN g.sec
    BY ContentsOf
  <2> QED BY <2>1
<1>2. ASSUME NEW s \in DOMAIN f.sec
      PROVE  /\ f.sec[s].type = g.sec[s].type /\ f.sec[s].index = g.sec[s].index
             /\ ResolvedName(f, s) = ResolvedName(g, s)
             /\ f.sec[s].payload = g.sec[s].payload
  <2>1. c.sec[s] = [ type |-> f.sec[s].type, index |-> f.sec[s].index,
                     name |-> ResolvedName(f, s), payload |-> f.sec[s].payload ]
    BY ContentsOf
  <2>2. d.sec[s] = [ type |-> g.sec[s].type, index |-> g.sec[s].index,
                     name |-> ResolvedName(g, s), payload |-> g.sec[s].payload ]
    BY <1>1, ContentsOf
  <2>3. c = d OBVIOUS
  <2> HIDE DEF c, d
  <2> QED BY <2>1, <2>2, <2>3
<1> QED BY <1>1, <1>2

\* What a name resolves to.
LEMMA RuledNames ==
  ASSUME NEW f, IsFile(f), TableRules(f), NEW s \in DOMAIN f.sec
  PROVE  /\ s \notin Named(f) => ResolvedName(f, s) = NoName
         /\ f.sec[s].nameOff \in DOMAIN f.names =>
              ResolvedName(f, s) = f.names[f.sec[s].nameOff]
<1>1. NoNameOffset \notin DOMAIN f.names BY DEF IsFile, IsMap, NoNameOffset
<1> QED BY <1>1 DEF TableRules, ResolvedName, Named

\* The writers fail for one reason only: a name offset with nothing behind it.
LEMMA FailsAlike ==
  ASSUME NEW f, IsFile(f), TableRules(f)
  PROVE  /\ SerializeFails(f) <=> Nameless(f) # {}
         /\ SerializeCanonicalFails(f) <=> Nameless(f) # {}
<1>1. ASSUME NEW o \in UsedOffsets(f.sec) PROVE ~Conflicts(f, o)
  <2>1. ASSUME NEW n \in SectionNames(f, o)
        PROVE  o \in DOMAIN f.names /\ n = f.names[o]
    <3>1. PICK s \in Users(f, o) : n = f.sec[s].name /\ n # NoName
      BY DEF SectionNames
    <3> QED BY <3>1 DEF Users, Named, TableRules
  <2> QED BY <2>1 DEF Conflicts
<1>2. ASSUME NEW o \in UsedOffsets(f.sec), Nameless(f) = {}
      PROVE  ~ConflictsCanonical(f, o)
  <2>1. ASSUME NEW s \in Users(f, o) PROVE ResolvedName(f, s) = f.names[o]
    <3>1. s \in DOMAIN f.sec /\ s \in Named(f) /\ f.sec[s].nameOff = o
      BY DEF Users, Named
    <3>2. o \in DOMAIN f.names BY <1>2, <3>1 DEF Nameless, TableRules
    <3> QED BY <3>1, <3>2, RuledNames
  <2> QED BY <2>1 DEF ConflictsCanonical
<1>3. ASSUME NEW s \in Nameless(f) PROVE MissingName(f)
  <2>1. ASSUME NEW t \in Users(f, f.sec[s].nameOff) PROVE f.sec[t].name = NoName
    BY DEF Users, Named, Nameless, TableRules
  <2> QED BY <2>1 DEF MissingName
<1>4. MissingName(f) => Nameless(f) # {} BY DEF MissingName
<1> QED BY <1>1, <1>2, <1>3, <1>4 DEF SerializeFails, SerializeCanonicalFails

LEMMA NamesComplete ==
  ASSUME NEW f, IsFile(f), TableRules(f), Nameless(f) = {}
  PROVE  /\ UsedOffsets(f.sec) \subseteq DOMAIN f.names
         /\ \A s \in Named(f) : ResolvedName(f, s) = f.names[f.sec[s].nameOff]
<1>1. ASSUME NEW s \in Named(f) PROVE f.sec[s].nameOff \in DOMAIN f.names
  BY DEF Nameless, TableRules, Named
<1>2. UsedOffsets(f.sec) \subseteq DOMAIN f.names
  BY <1>1 DEF UsedOffsets, Named
<1>3. \A s \in Named(f) : ResolvedName(f, s) = f.names[f.sec[s].nameOff]
  BY <1>1, RuledNames DEF Named
<1> QED BY <1>2, <1>3

-----------------------------------------------------------------------------
(***************************************************************************)
(* The two writers.                                                        *)
(***************************************************************************)

LEMMA PreservingPlan ==
  ASSUME NEW f, IsFile(f), TableRules(f), Nameless(f) = {}
  PROVE  /\ IsPlan(f, f.blocks, PreservingValues(f), PreservingPlace(PreservingValues(f)))
         /\ DOMAIN PreservingValues(f) = DOMAIN f.names
         /\ \A o \in DOMAIN f.names : PreservingValues(f)[o] = f.names[o]
<1>1. ~MissingName(f) BY FailsAlike DEF SerializeFails
<1>2. /\ IsMap(PreservingValues(f), Nat, Name)
      /\ UsedOffsets(f.sec) \subseteq DOMAIN PreservingValues(f)
  BY <1>1, PreservingValuesType
<1>3. UsedOffsets(f.sec) \subseteq DOMAIN f.names BY NamesComplete
<1> QED BY <1>2, <1>3, PlaceType, PreservingDisjoint
        DEF IsPlan, IsFile, PreservingValues

LEMMA CanonicalPlan ==
  ASSUME NEW f, IsFile(f), TableRules(f), Nameless(f) = {}
  PROVE  /\ IsPlan(f, CanonicalBlocks(f), CanonicalValues(f),
                   CanonicalPlace(f, CanonicalBlocks(f), CanonicalValues(f)))
         /\ DOMAIN CanonicalValues(f) = UsedOffsets(f.sec)
         /\ \A o \in UsedOffsets(f.sec) : CanonicalValues(f)[o] = f.names[o]
<1>1. /\ IsMap(CanonicalValues(f), Nat, Name)
      /\ DOMAIN CanonicalValues(f) = UsedOffsets(f.sec)
  BY CanonicalValuesType
<1>2. IsPlan(f, CanonicalBlocks(f), CanonicalValues(f),
             CanonicalPlace(f, CanonicalBlocks(f), CanonicalValues(f)))
  BY <1>1, PlaceType, CanonicalLayout, CanonicalDisjoint DEF IsPlan
<1>3. ASSUME NEW o \in UsedOffsets(f.sec) PROVE CanonicalValues(f)[o] = f.names[o]
  <2>1. Users(f, o) # {} BY DEF UsedOffsets, Users, Named
  <2> DEFINE s == CHOOSE s \in Users(f, o) : TRUE
  <2>2. s \in Named(f) /\ f.sec[s].nameOff = o BY <2>1 DEF Users
  <2>3. ResolvedName(f, s) = f.names[o]
    <3> HIDE DEF s
    <3> QED BY <2>2, NamesComplete
  <2> QED BY <2>3 DEF CanonicalValues
<1> QED BY <1>1, <1>2, <1>3

\* The plans that put the names of the table behind the offsets in use.
KeepsNames(f, values) == \A o \in UsedOffsets(f.sec) : values[o] = f.names[o]

\* A written image holds what the file held, and nothing the validator objects
\* to but the types of its blocks.
LEMMA PlanKeepsContents ==
  ASSUME NEW f, IsFile(f), TableRules(f), Nameless(f) = {},
         NEW blocks, NEW values, NEW place,
         IsPlan(f, blocks, values, place), KeepsNames(f, values)
  PROVE  LET img == Emit(f, blocks, values, place)
         IN  /\ ~StrictIssue(img)
             /\ Unreadable(img) <=> ~Fits(f)
             /\ Contents(Parse(img)) = Contents(f)
<1> DEFINE img == Emit(f, blocks, values, place)
           g == Parse(img)
           w(s) == IF s \in Named(f) THEN values[f.sec[s].nameOff] ELSE NoName
<1>1. /\ ~StrictIssue(img)
      /\ Unreadable(img) <=> ~Fits(f)
      /\ g.hdr = f.hdr /\ DOMAIN g.sec = DOMAIN f.sec
  BY ReadBack
<1>2. ASSUME NEW s \in DOMAIN f.sec
      PROVE  /\ g.sec[s].type = f.sec[s].type /\ g.sec[s].index = f.sec[s].index
             /\ g.sec[s].payload = f.sec[s].payload
             /\ g.sec[s].name = w(s)
             /\ g.sec[s].nameOff = IF s \in Named(f) THEN place[f.sec[s].nameOff]
                                   ELSE NoNameOffset
  BY ReadBack
<1>3. /\ DOMAIN g.names = {place[o] : o \in UsedOffsets(f.sec)}
      /\ \A o \in UsedOffsets(f.sec) : g.names[place[o]] = values[o]
  BY ReadBack
<1>4. \A o \in UsedOffsets(f.sec) : place[o] \in Nat BY DEF IsPlan
<1> HIDE DEF img, g
<1>5. ASSUME NEW s \in DOMAIN f.sec PROVE ResolvedName(g, s) = ResolvedName(f, s)
  <2>1. CASE s \in Named(f)
    <3>1. f.sec[s].nameOff \in UsedOffsets(f.sec) BY <2>1 DEF Named, UsedOffsets
    <3>2. ResolvedName(f, s) = values[f.sec[s].nameOff]
      BY <2>1, <3>1, NamesComplete DEF KeepsNames
    <3>3. g.sec[s].name = values[f.sec[s].nameOff] BY <1>2, <2>1
    <3>4. g.names[g.sec[s].nameOff] = values[f.sec[s].nameOff]
      BY <1>2, <1>3, <2>1, <3>1
    <3> QED BY <3>2, <3>3, <3>4 DEF ResolvedName
  <2>2. CASE s \notin Named(f)
    <3>1. NoNameOffset \notin DOMAIN g.names BY <1>3, <1>4 DEF NoNameOffset
    <3>2. ResolvedName(g, s) = NoName BY <1>2, <2>2, <3>1 DEF ResolvedName
    <3> QED BY <2>2, <3>2, RuledNames
  <2> QED BY <2>1, <2>2
<1>6. Contents(g) = Contents(f)
  <2> DEFINE seen(h) == [s \in DOMAIN f.sec |->
               [ type |-> h.sec[s].type, index |-> h.sec[s].index,
                 name |-> ResolvedName(h, s), payload |-> h.sec[s].payload ]]
  <2>1. seen(g) = seen(f) BY <1>2, <1>5
  <2>2. Contents(g) = [hdr |-> g.hdr, sec |-> seen(g)] BY <1>1 DEF Contents
  <2>3. Contents(f) = [hdr |-> f.hdr, sec |-> seen(f)] BY DEF Contents
  <2> HIDE DEF seen
  <2> QED BY <1>1, <2>1, <2>2, <2>3
<1> QED BY <1>1, <1>6 DEF g, img

LEMMA PlanValidates ==
  ASSUME NEW f, IsFile(f), NEW blocks, NEW values, NEW place,
         IsPlan(f, blocks, values, place)
  PROVE  LET g == Parse(Emit(f, blocks, values, place))
         IN  /\ ErrorCodes(g) \subseteq {"block.type.non_printable"}
             /\ "block.type.non_printable" \in ErrorCodes(g) <=>
                  \E s \in DOMAIN f.sec : f.sec[s].type \in Unprintable
<1> DEFINE g == Parse(Emit(f, blocks, values, place))
<1>1. g.hdr = g.hdr2 /\ DOMAIN g.sec = DOMAIN f.sec BY ReadBack
<1>2. ASSUME NEW s \in DOMAIN f.sec
      PROVE  /\ g.sec[s].type = f.sec[s].type
             /\ g.sec[s].payload = f.sec[s].payload
             /\ g.sec[s].dataOff = DataOffset(f, blocks, s)
             /\ g.sec[s].nameOff = IF s \in Named(f) THEN place[f.sec[s].nameOff]
                                   ELSE NoNameOffset
  BY ReadBack
<1>3. DOMAIN g.names = {place[o] : o \in UsedOffsets(f.sec)} BY ReadBack
<1> HIDE DEF g
<1>4. ~DanglingName(g)
  <2> SUFFICES ASSUME NEW s \in Named(g) PROVE g.sec[s].nameOff \in DOMAIN g.names
    BY DEF DanglingName, DanglingSections
  <2>1. s \in Named(f) BY <1>1, <1>2 DEF Named
  <2>2. f.sec[s].nameOff \in UsedOffsets(f.sec) BY <2>1 DEF Named, UsedOffsets
  <2>3. g.sec[s].nameOff = place[f.sec[s].nameOff] BY <1>2, <2>1 DEF Named
  <2> QED BY <1>3, <2>2, <2>3
<1>5. ~NeighboursOverlap(g)
  <2> SUFFICES ASSUME NEW s \in DOMAIN g.sec, NEW t \in DOMAIN g.sec, s # t,
                      ~SortsBefore(g.sec[t], g.sec[s]),
                      g.sec[t].dataOff < RegionEnd(g.sec[s])
               PROVE  FALSE
    BY DEF NeighboursOverlap
  <2>1. /\ s \in DOMAIN f.sec /\ t \in DOMAIN f.sec
        /\ IsLayout(blocks, DOMAIN f.sec)
    BY <1>1 DEF IsPlan
  <2>2. Before(blocks, s, t) \/ Before(blocks, t, s)
    BY <2>1, BeforeIsOrder DEF IsTotalOrder, Ordered
  <2>3. DataOffset(f, blocks, s) \in Nat /\ DataOffset(f, blocks, t) \in Nat
    BY DataOffsetType DEF IsFile, IsMap
  <2>4. \A r \in DOMAIN f.sec : f.sec[r].payload \in Payload
    BY DEF IsFile, IsMap, Section
  <2>5. f.sec[s].payload.len \in Nat /\ f.sec[t].payload.len \in Nat
    BY <2>1, <2>4, StoredSize
  <2>6. /\ RegionEnd(g.sec[s]) = DataOffset(f, blocks, s) + 4 + f.sec[s].payload.len
        /\ RegionEnd(g.sec[t]) = DataOffset(f, blocks, t) + 4 + f.sec[t].payload.len
    BY <1>2, <2>1 DEF RegionEnd
  <2>7. g.sec[s].dataOff = DataOffset(f, blocks, s)
          /\ g.sec[t].dataOff = DataOffset(f, blocks, t)
    BY <1>2, <2>1
  <2>8. CASE Before(blocks, s, t)
    <3>1. DataOffset(f, blocks, s) + 4 + f.sec[s].payload.len <= DataOffset(f, blocks, t)
      BY <2>1, <2>8, PayloadsApart
    <3> QED BY <2>3, <2>5, <2>6, <2>7, <3>1
  <2>9. CASE Before(blocks, t, s)
    <3>1. DataOffset(f, blocks, t) + 4 + f.sec[t].payload.len <= DataOffset(f, blocks, s)
      BY <2>1, <2>9, PayloadsApart
    <3>2. g.sec[t].dataOff < g.sec[s].dataOff BY <2>3, <2>5, <2>7, <3>1
    <3> QED BY <3>2 DEF SortsBefore
  <2> QED BY <2>2, <2>8, <2>9
<1>6. ErrorCodes(g) \subseteq {"block.type.non_printable"}
  BY <1>1, <1>4, <1>5 DEF ErrorCodes
<1>7. "block.type.non_printable" \in ErrorCodes(g) <=>
        \E s \in DOMAIN f.sec : f.sec[s].type \in Unprintable
  BY <1>1, <1>2 DEF ErrorCodes
<1> QED BY <1>6, <1>7 DEF g

\* The parser starts the raw tail no later than the writer did.
LEMMA PlanKeepsTail ==
  ASSUME NEW f, IsFile(f), NEW blocks, NEW values, NEW place,
         IsPlan(f, blocks, values, place)
  PROVE  LET img == Emit(f, blocks, values, place)
         IN  /\ RawTailStart(img) \in 0 .. TableSize(values, place)
             /\ \A o \in UsedOffsets(f.sec) :
                  NameEnd(img, place[o]) <= RawTailStart(img)
<1> DEFINE img == Emit(f, blocks, values, place)
           IsStart(e) == /\ e = 0 \/ \E o \in GoodOffsets(img) : e = NameEnd(img, o)
                         /\ \A o \in GoodOffsets(img) : NameEnd(img, o) <= e
<1>1. IsImage(img) BY EmitType DEF IsPlan
<1>2. TableSize(values, place) \in Nat BY TableSizeIsEnd DEF IsPlan
<1>3. GoodOffsets(img) = {place[o] : o \in UsedOffsets(f.sec)} BY EmittedOffsets
<1>4. \A o \in UsedOffsets(f.sec) :
        /\ o \in DOMAIN values
        /\ place[o] + EntrySize(values[o]) \in Nat
        /\ NameEnd(img, place[o]) <= place[o] + EntrySize(values[o])
        /\ place[o] + EntrySize(values[o]) <= TableSize(values, place)
  <2> SUFFICES ASSUME NEW o \in UsedOffsets(f.sec)
               PROVE  /\ o \in DOMAIN values
                      /\ place[o] + EntrySize(values[o]) \in Nat
                      /\ NameEnd(img, place[o]) <= place[o] + EntrySize(values[o])
                      /\ place[o] + EntrySize(values[o]) <= TableSize(values, place)
    OBVIOUS
  <2>1. o \in DOMAIN values /\ place[o] \in Nat /\ values[o] \in Name
    BY DEF IsPlan, IsMap
  <2>2. place[o] + EntrySize(values[o]) \in Nat BY <2>1 DEF EntrySize, Name
  <2> QED BY <2>1, <2>2, EmittedNames
<1>5. RawTailStart(img) \in 0 .. Len(img.tail) /\ IsStart(RawTailStart(img))
  <2>1. RawTailStart(img) = CHOOSE e \in 0 .. Len(img.tail) : IsStart(e)
    BY DEF RawTailStart
  <2>2. \E e \in 0 .. Len(img.tail) : IsStart(e)
    BY <1>1, RawTailStartExists
  <2> HIDE DEF IsStart, img
  <2> QED BY <2>1, <2>2
<1>6. \A p \in GoodOffsets(img) : NameEnd(img, p) \in Nat
  BY <1>1, ParsedName
<1> HIDE DEF img
<1>7. RawTailStart(img) <= TableSize(values, place)
  <2>1. CASE RawTailStart(img) = 0 BY <1>2, <2>1
  <2>2. CASE RawTailStart(img) # 0
    <3>1. PICK p \in GoodOffsets(img) : RawTailStart(img) = NameEnd(img, p)
      BY <1>5, <2>2
    <3>2. PICK o \in UsedOffsets(f.sec) : p = place[o] BY <1>3
    <3>3. NameEnd(img, p) <= TableSize(values, place)
      BY <1>2, <1>4, <1>6, <3>2
    <3> QED BY <3>1, <3>3
  <2> QED BY <2>1, <2>2
<1>8. RawTailStart(img) \in 0 .. TableSize(values, place) BY <1>2, <1>5, <1>7
<1> QED BY <1>3, <1>5, <1>8 DEF img

-----------------------------------------------------------------------------
(***************************************************************************)
(* Writing again what was just written.                                    *)
(***************************************************************************)

\* A number that bounds the ends of all entries and is one of them is the size
\* of the table.
LEMMA TableSizeIsThat ==
  ASSUME NEW values, IsMap(values, Nat, Name), NEW place \in [DOMAIN values -> Nat],
         NEW e \in Nat,
         e = 0 \/ \E o \in DOMAIN values : e = place[o] + EntrySize(values[o]),
         \A o \in DOMAIN values : place[o] + EntrySize(values[o]) <= e
  PROVE  TableSize(values, place) = e
<1>1. \A o \in DOMAIN values : place[o] + EntrySize(values[o]) \in Nat
  BY DEF IsMap, Name, EntrySize
<1>2. EntryEnds(values, place) \subseteq Nat BY <1>1 DEF EntryEnds
<1>3. e \in {0} \cup EntryEnds(values, place) /\ \A x \in EntryEnds(values, place) : x <= e
  BY DEF EntryEnds
<1> DEFINE n == TableSize(values, place)
<1>4. n \in {0} \cup EntryEnds(values, place) /\ \A x \in EntryEnds(values, place) : x <= n
  BY <1>3 DEF TableSize
<1> HIDE DEF n
<1>5. n \in Nat /\ (e <= n \/ e = 0) /\ (n <= e \/ n = 0) BY <1>2, <1>3, <1>4
<1> QED BY <1>5 DEF n

\* The table of a file just read back from a plan holds the names in use, at
\* the places of the plan.
LEMMA ReparsedTable ==
  ASSUME NEW f, IsFile(f), NEW blocks, NEW values, NEW place,
         IsPlan(f, blocks, values, place)
  PROVE  LET g == Parse(Emit(f, blocks, values, place))
         IN  /\ UsedOffsets(g.sec) = DOMAIN g.names
             /\ IsMap(g.names, Nat, Name)
             /\ IsMap(PreservingValues(g), Nat, Name)
             /\ DOMAIN PreservingValues(g) = DOMAIN g.names
             /\ \A p \in DOMAIN g.names : PreservingValues(g)[p] = g.names[p]
             /\ PreservingPlace(PreservingValues(g)) = SparsePlace(PreservingValues(g))
<1> DEFINE img == Emit(f, blocks, values, place)
           g == Parse(img)
           v == PreservingValues(g)
<1>1. IsImage(img) BY EmitType DEF IsPlan
<1>2. GoodOffsets(img) = UsedOffsets(img.sec) BY EmittedOffsets
<1>3. /\ g.names = [o \in GoodOffsets(img) |-> NameAt(img, o)]
      /\ DOMAIN g.sec = DOMAIN img.sec
      /\ \A s \in DOMAIN img.sec : g.sec[s].nameOff = img.sec[s].nameOff
  BY DEF Parse
<1>4. /\ DOMAIN g.names = {place[o] : o \in UsedOffsets(f.sec)}
      /\ \A o \in UsedOffsets(f.sec) : g.names[place[o]] = values[o]
  BY ReadBack
<1>5. \A o \in GoodOffsets(img) : o \in Nat /\ NameAt(img, o) \in Name
  BY <1>1, ParsedName
<1>6. IsFiniteSet(GoodOffsets(img))
  BY <1>1, <1>2, ImageOffsets
<1> HIDE DEF img, g
<1>7. UsedOffsets(g.sec) = DOMAIN g.names BY <1>2, <1>3 DEF UsedOffsets
<1>8. IsMap(g.names, Nat, Name) BY <1>3, <1>5, <1>6 DEF IsMap
<1>9. /\ DOMAIN v = DOMAIN g.names
      /\ \A p \in DOMAIN g.names : v[p] = g.names[p]
      /\ v = [p \in DOMAIN v |-> v[p]]
  BY <1>7 DEF PreservingValues
<1> HIDE DEF v
<1>10. IsMap(v, Nat, Name) BY <1>8, <1>9 DEF IsMap
<1>11. ~Overlapping(v)
  <2> SUFFICES ASSUME NEW p \in DOMAIN v, NEW q \in DOMAIN v, p < q,
                      q < p + EntrySize(v[p])
               PROVE  FALSE
    BY DEF Overlapping
  <2>1. PICK o \in UsedOffsets(f.sec) : p = place[o] /\ v[p] = values[o]
    BY <1>4, <1>9
  <2>2. PICK u \in UsedOffsets(f.sec) : q = place[u] /\ v[q] = values[u]
    BY <1>4, <1>9
  <2>3. /\ o \in DOMAIN values /\ u \in DOMAIN values
        /\ \/ o = u
           \/ place[o] + EntrySize(values[o]) <= place[u]
           \/ place[u] + EntrySize(values[u]) <= place[o]
    BY DEF IsPlan, Disjoint
  <2>4. p \in Nat /\ q \in Nat /\ EntrySize(v[p]) \in Nat /\ EntrySize(v[q]) \in Nat
    BY <1>10 DEF IsMap, Name, EntrySize
  <2> QED BY <2>1, <2>2, <2>3, <2>4
<1>12. PreservingPlace(v) = SparsePlace(v) BY <1>11 DEF PreservingPlace
<1> QED BY <1>7, <1>8, <1>9, <1>10, <1>12 DEF v, g, img

\* Without names of maximal length the raw tail starts where the last name in
\* use ends.
LEMMA ShortNamesEnd ==
  ASSUME NEW f, IsFile(f), NEW blocks, NEW values, NEW place,
         IsPlan(f, blocks, values, place),
         \A o \in UsedOffsets(f.sec) : Len(values[o]) < MaxNameLen
  PROVE  LET img == Emit(f, blocks, values, place)
             e   == RawTailStart(img)
         IN  /\ e = 0 \/ \E o \in UsedOffsets(f.sec) : e = place[o] + EntrySize(values[o])
             /\ \A o \in UsedOffsets(f.sec) : place[o] + EntrySize(values[o]) <= e
<1> DEFINE img == Emit(f, blocks, values, place)
           IsStart(e) == /\ e = 0 \/ \E o \in GoodOffsets(img) : e = NameEnd(img, o)
                         /\ \A o \in GoodOffsets(img) : NameEnd(img, o) <= e
<1>1. IsStart(RawTailStart(img))
  <2>1. IsImage(img) BY EmitType DEF IsPlan
  <2>2. \E e \in 0 .. Len(img.tail) : IsStart(e) BY <2>1, RawTailStartExists
  <2>3. RawTailStart(img) = CHOOSE e \in 0 .. Len(img.tail) : IsStart(e)
    BY DEF RawTailStart
  <2> HIDE DEF IsStart, img
  <2> QED BY <2>2, <2>3
<1>2. GoodOffsets(img) = {place[o] : o \in UsedOffsets(f.sec)} BY EmittedOffsets
<1>3. \A o \in UsedOffsets(f.sec) : NameEnd(img, place[o]) = place[o] + EntrySize(values[o])
  BY EmittedNames DEF IsPlan
<1> HIDE DEF img
<1> QED BY <1>1, <1>2, <1>3 DEF img

\* Writing what was just written changes no length.
LEMMA PlanIsStable ==
  ASSUME NEW f, IsFile(f), NEW blocks, NEW values, NEW place,
         IsPlan(f, blocks, values, place),
         \A o \in UsedOffsets(f.sec) : Len(values[o]) < MaxNameLen
  PROVE  LET img == Emit(f, blocks, values, place)
         IN  Len(Serialize(Parse(img)).tail) = Len(img.tail)
<1> DEFINE img == Emit(f, blocks, values, place)
           g == Parse(img)
           v == PreservingValues(g)
           same == SparsePlace(v)
           e == RawTailStart(img)
<1>1. IsImage(img) BY EmitType DEF IsPlan
<1>2. /\ IsMap(v, Nat, Name) /\ DOMAIN v = DOMAIN g.names
      /\ \A p \in DOMAIN v : v[p] = g.names[p]
      /\ PreservingPlace(v) = same
  BY ReparsedTable
<1>3. /\ DOMAIN g.names = {place[o] : o \in UsedOffsets(f.sec)}
      /\ \A o \in UsedOffsets(f.sec) : g.names[place[o]] = values[o]
  BY ReadBack
<1>4. e \in 0 .. Len(img.tail) BY <1>1, RawTailStartType
<1>5. /\ e = 0 \/ \E o \in UsedOffsets(f.sec) : e = place[o] + EntrySize(values[o])
      /\ \A o \in UsedOffsets(f.sec) : place[o] + EntrySize(values[o]) <= e
  BY ShortNamesEnd
<1>6. img.tail \in Seq(Byte) BY <1>1 DEF IsImage
<1>7. g.rawTail = SubSeq(img.tail, e + 1, Len(img.tail)) BY DEF Parse
<1>8. Serialize(g).tail = NameTable(v, PreservingPlace(v)) \o g.rawTail
  BY DEF Serialize, Emit
<1> HIDE DEF img, g, v, e
<1>9. same \in [DOMAIN v -> Nat] /\ \A p \in DOMAIN v : same[p] = p
  BY <1>2 DEF SparsePlace, IsMap
<1>10. TableSize(v, same) = e
  <2>1. e = 0 \/ \E p \in DOMAIN v : e = same[p] + EntrySize(v[p])
    BY <1>2, <1>3, <1>5, <1>9
  <2>2. \A p \in DOMAIN v : same[p] + EntrySize(v[p]) <= e
    BY <1>2, <1>3, <1>5, <1>9
  <2>3. e \in Nat BY <1>4
  <2> HIDE DEF same
  <2> QED BY <1>2, <1>9, <2>1, <2>2, <2>3, TableSizeIsThat
<1>11. NameTable(v, same) \in Seq(Byte) /\ Len(NameTable(v, same)) = e
  BY <1>2, <1>9, <1>10, NameTableType, TableLength
<1>12. PICK t \in Seq(Byte) : t = img.tail BY <1>6
<1>13. g.rawTail \in Seq(Byte) /\ Len(g.rawTail) = Len(t) - e
  <2>1. \A i \in e + 1 .. Len(t) : t[i] \in Byte BY <1>4, <1>12
  <2>2. e \in Nat /\ Len(t) \in Nat /\ e <= Len(t) BY <1>4, <1>12
  <2> DEFINE q == SubSeq(t, e + 1, Len(t))
  <2>3. q \in Seq(Byte) /\ Len(q) = IF e + 1 <= Len(t) THEN Len(t) - (e + 1) + 1 ELSE 0
    BY <2>1, <2>2, SubSeqProperties
  <2> HIDE DEF q
  <2>4. Len(q) = Len(t) - e BY <2>2, <2>3
  <2> QED BY <1>7, <1>12, <2>3, <2>4 DEF q
<1>14. Len(NameTable(v, same) \o g.rawTail) = e + (Len(t) - e)
  <2>1. PICK q \in Seq(Byte), r \in Seq(Byte) :
          /\ q = NameTable(v, same) /\ r = g.rawTail
          /\ Len(q) = e /\ Len(r) = Len(t) - e
    BY <1>11, <1>13
  <2>2. Len(q \o r) = Len(q) + Len(r) BY ConcatProperties
  <2> QED BY <2>1, <2>2
<1>15. e + (Len(t) - e) = Len(t) BY <1>4, <1>12
<1> QED BY <1>2, <1>8, <1>12, <1>14, <1>15 DEF img, g

-----------------------------------------------------------------------------
(***************************************************************************)
(* Canonicalizing what is canonical.                                       *)
(***************************************************************************)

\* A file read back compares as the one that was written.
LEMMA SameOrder ==
  ASSUME NEW f, NEW g, Contents(f) = Contents(g)
  PROVE  /\ SectionPairs(g) = SectionPairs(f)
         /\ \A B : B \subseteq Seq(DOMAIN f.sec) \ {<< >>} =>
              BlockPairs(g, B) = BlockPairs(f, B)
<1>1. /\ DOMAIN f.sec = DOMAIN g.sec
      /\ \A s \in DOMAIN f.sec :
           /\ f.sec[s].type = g.sec[s].type /\ f.sec[s].index = g.sec[s].index
           /\ ResolvedName(f, s) = ResolvedName(g, s)
           /\ f.sec[s].payload = g.sec[s].payload
  BY SameContents
<1>2. ASSUME NEW s \in DOMAIN f.sec, NEW t \in DOMAIN f.sec
      PROVE  SectionLess(g, s, t) <=> SectionLess(f, s, t)
  BY <1>1 DEF SectionLess
<1>3. SectionPairs(g) = SectionPairs(f) BY <1>1, <1>2 DEF SectionPairs
<1>4. ASSUME NEW B, B \subseteq Seq(DOMAIN f.sec) \ {<< >>}
      PROVE  BlockPairs(g, B) = BlockPairs(f, B)
  <2>1. ASSUME NEW a \in B PROVE f.sec[a[1]].type = g.sec[a[1]].type
    <3>1. a[1] \in DOMAIN f.sec BY <1>4, EmptySeq
    <3> QED BY <1>1, <3>1
  <2>2. ASSUME NEW a \in B, NEW b \in B PROVE BlockLess(g, a, b) <=> BlockLess(f, a, b)
    BY <2>1 DEF BlockLess
  <2> QED BY <2>2 DEF BlockPairs
<1> QED BY <1>3, <1>4

LEMMA SortedBlocksStay ==
  ASSUME NEW f, IsFile(f),
         IsSorted(SortedBlocks(f), BlockPairs(f, Seq(DOMAIN f.sec) \ {<< >>}))
  PROVE  CanonicalBlocks(f) = SortedBlocks(f)
<1> DEFINE B == Seq(DOMAIN f.sec) \ {<< >>}
           V == BlockPairs(f, B)
           q == SortedBlocks(f)
           r == CanonicalBlocks(f)
<1>1. IsWeakOrder(V, B) /\ q \in Seq(B) /\ IsSorted(q, V)
  BY BlockOrder, SortedBlocksType
<1>2. r = CHOOSE p \in [DOMAIN q -> Range(q)] :
            \A i \in DOMAIN q :
              p[1 + Cardinality(Below(Stable(PlacePairs(V, q), DOMAIN q), DOMAIN q, i))]
                = q[i]
  BY SortOfBlocks
<1> HIDE DEF B, V, q, r
<1>3. r = q BY <1>1, <1>2, SortKeeps
<1> QED BY <1>3 DEF q, r

LEMMA CanonicalBlocksStay ==
  ASSUME NEW f, IsFile(f), NEW g, IsFile(g), Contents(g) = Contents(f),
         g.blocks = CanonicalBlocks(f)
  PROVE  CanonicalBlocks(g) = g.blocks
<1> DEFINE B == Seq(DOMAIN g.sec) \ {<< >>}
           V == SectionPairs(g)
           W == BlockPairs(g, B)
<1>1. DOMAIN f.sec = DOMAIN g.sec BY SameContents
<1>2. /\ SectionPairs(f) = V /\ BlockPairs(f, B) = W
      /\ IsWeakOrder(V, DOMAIN g.sec) /\ IsWeakOrder(W, B)
  BY SameOrder, SectionOrder, BlockOrder
<1>3. g.blocks \in Seq(B) BY DEF IsFile, IsLayout
<1>4. IsReordering(g.blocks, SortedBlocks(f)) /\ IsSorted(g.blocks, W)
  BY <1>1, <1>2, BlocksSorted
<1>5. ASSUME NEW i \in DOMAIN g.blocks PROVE SortedSections(g, i) = g.blocks[i]
  <2>1. PICK from \in [DOMAIN SortedBlocks(f) -> DOMAIN SortedBlocks(f)] :
          \A k \in DOMAIN SortedBlocks(f) : g.blocks[k] = SortedBlocks(f)[from[k]]
    BY <1>4 DEF IsReordering
  <2>2. DOMAIN g.blocks = DOMAIN SortedBlocks(f) BY <1>4 DEF IsReordering
  <2>3. PICK j \in DOMAIN SortedBlocks(f) : g.blocks[i] = SortedBlocks(f)[j]
    BY <2>1, <2>2
  <2>4. j \in DOMAIN f.blocks /\ g.blocks[i] = SortedSections(f, j)
    BY <2>3 DEF SortedBlocks
  <2>5. IsSorted(g.blocks[i], V) BY <1>2, <2>4, SectionsSorted
  <2>6. g.blocks[i] \in Seq(DOMAIN g.sec) BY <1>3
  <2> HIDE DEF V
  <2> QED BY <1>2, <2>5, <2>6, SortOfSections, SortKeeps DEF V
<1>6. SortedBlocks(g) = g.blocks
  <2>1. g.blocks = [i \in DOMAIN g.blocks |-> g.blocks[i]] BY <1>3
  <2> QED BY <1>5, <2>1 DEF SortedBlocks
<1>7. CanonicalBlocks(g) = SortedBlocks(g)
  <2>1. IsSorted(SortedBlocks(g), W) BY <1>4, <1>6
  <2> QED BY <2>1, SortedBlocksStay
<1> QED BY <1>6, <1>7

\* The bytes of some entries are as many when the entries have moved.
LEMMA MovedBytes ==
  ASSUME NEW values, NEW moved, NEW place, NEW offs, IsFiniteSet(offs),
         \A o, p \in offs : place[o] = place[p] => o = p,
         \A o \in offs : moved[place[o]] = values[o]
  PROVE  BytesOf(moved, {place[o] : o \in offs}) = BytesOf(values, offs)
<1> DEFINE M == 0 .. MaxNameLen
           X == {c \in offs \X M : c[2] < EntrySize(values[c[1]])}
           Y == {c \in {place[o] : o \in offs} \X M : c[2] < EntrySize(moved[c[1]])}
           h == [c \in X |-> << place[c[1]], c[2] >>]
<1>1. IsFiniteSet(X)
  <2>1. IsFiniteSet(M) BY ByteModAssumption, FS_Interval DEF MaxNameLen
  <2>2. IsFiniteSet(offs \X M) BY <2>1, FS_Product
  <2>3. X \in SUBSET (offs \X M) OBVIOUS
  <2> QED BY <2>2, <2>3, FS_Subset
<1>2. \A c : c \in X <=> \E o \in offs : \E k \in M : c = << o, k >> /\ k < EntrySize(values[o])
  OBVIOUS
<1>3. \A c : c \in Y <=> \E o \in offs : \E k \in M :
               c = << place[o], k >> /\ k < EntrySize(values[o])
  OBVIOUS
<1> HIDE DEF X, Y, M
<1>4. h \in [X -> Y]
  <2> SUFFICES ASSUME NEW c \in X PROVE << place[c[1]], c[2] >> \in Y OBVIOUS
  <2>1. PICK o \in offs, k \in M : c = << o, k >> /\ k < EntrySize(values[o]) BY <1>2
  <2>2. << place[c[1]], c[2] >> = << place[o], k >> BY <2>1
  <2> QED BY <1>3, <2>1, <2>2
<1>5. ASSUME NEW c \in X, NEW d \in X, h[c] = h[d] PROVE c = d
  <2>1. PICK o \in offs, k \in M : c = << o, k >> BY <1>2
  <2>2. PICK p \in offs, l \in M : d = << p, l >> BY <1>2
  <2>3. h[c] = << place[o], k >> /\ h[d] = << place[p], l >> BY <2>1, <2>2
  <2>4. place[o] = place[p] /\ k = l BY <1>5, <2>3
  <2> QED BY <2>1, <2>2, <2>4
<1>6. ASSUME NEW d \in Y PROVE \E c \in X : h[c] = d
  <2>1. PICK o \in offs, k \in M : d = << place[o], k >> /\ k < EntrySize(values[o])
    BY <1>3
  <2>2. << o, k >> \in X BY <1>2, <2>1
  <2>3. h[<< o, k >>] = d BY <2>1, <2>2
  <2> QED BY <2>2, <2>3
<1> HIDE DEF h
<1>7. h \in Bijection(X, Y) BY <1>4, <1>5, <1>6, Fun_IsBij
<1>8. ExistsBijection(X, Y) BY <1>7, Fun_ExistsBij
<1>9. Cardinality(Y) = Cardinality(X) BY <1>1, <1>8, FS_Bijection
<1> QED BY <1>9 DEF X, Y, M, BytesOf

LEMMA EmptyFunction ==
  ASSUME NEW S, NEW g \in [S -> Nat]
  PROVE  g = << >> <=> S = {}
<1>1. << >> \in [{} -> Nat]
  <2>1. << >> \in [1 .. 0 -> Nat] OBVIOUS
  <2> QED BY <2>1
<1>2. S = {} => g = << >> BY <1>1
<1>3. DOMAIN << >> = {} OBVIOUS
<1> QED BY <1>2, <1>3

\* A table whose entries are named by where they are is the table as it was.
LEMMA MovedTable ==
  ASSUME NEW values, IsMap(values, Nat, Name), NEW place \in [DOMAIN values -> Nat],
         Disjoint(values, place),
         NEW moved, IsMap(moved, Nat, Name),
         DOMAIN moved = {place[o] : o \in DOMAIN values},
         \A o \in DOMAIN values : moved[place[o]] = values[o],
         NEW same \in [DOMAIN moved -> Nat], \A p \in DOMAIN moved : same[p] = p
  PROVE  NameTable(moved, same) = NameTable(values, place)
<1> DEFINE n == TableSize(values, place)
           Here(i) == \E o \in DOMAIN values : Covers(values, place, o, i)
           There(i) == \E p \in DOMAIN moved : Covers(moved, same, p, i)
           o(i) == CHOOSE o \in DOMAIN values : Covers(values, place, o, i)
           p(i) == CHOOSE p \in DOMAIN moved : Covers(moved, same, p, i)
           Old(i) == IF Here(i) THEN IF i = place[o(i)] + 1 THEN Len(values[o(i)])
                                     ELSE values[o(i)][i - place[o(i)] - 1]
                     ELSE 0
           New(i) == IF There(i) THEN IF i = same[p(i)] + 1 THEN Len(moved[p(i)])
                                      ELSE moved[p(i)][i - same[p(i)] - 1]
                     ELSE 0
           olds == [i \in 1 .. n |-> Old(i)]
           news == [i \in 1 .. n |-> New(i)]
<1>1. \A x \in DOMAIN values : place[x] \in Nat /\ EntrySize(values[x]) \in Nat
  BY DEF IsMap, Name, EntrySize
<1>2. n \in Nat /\ \A x \in DOMAIN values : place[x] + EntrySize(values[x]) <= n
  BY TableSizeIsEnd
<1>3. n = 0 \/ \E x \in DOMAIN values : n = place[x] + EntrySize(values[x])
  BY TableSizeIsEnd
<1>4. TableSize(moved, same) = n
  <2> HIDE DEF n
  <2>1. n = 0 \/ \E q \in DOMAIN moved : n = same[q] + EntrySize(moved[q]) BY <1>3
  <2>2. \A q \in DOMAIN moved : same[q] + EntrySize(moved[q]) <= n BY <1>2
  <2> QED BY <1>2, <2>1, <2>2, TableSizeIsThat
<1>5. ASSUME NEW x \in DOMAIN values, NEW i \in 1 .. n
      PROVE  Covers(moved, same, place[x], i) <=> Covers(values, place, x, i)
  BY DEF Covers
<1>6. ASSUME NEW x \in DOMAIN values, NEW y \in DOMAIN values, NEW i \in 1 .. n,
             Covers(values, place, x, i), Covers(values, place, y, i)
      PROVE  x = y
  BY <1>1, <1>2, <1>6 DEF Covers, Disjoint
<1>7. ASSUME NEW i \in 1 .. n PROVE New(i) = Old(i)
  <2>1. There(i) <=> Here(i) BY <1>5
  <2>2. CASE ~Here(i) BY <2>1, <2>2
  <2>3. CASE Here(i)
    <3>1. o(i) \in DOMAIN values /\ Covers(values, place, o(i), i) BY <2>3
    <3>2. p(i) \in DOMAIN moved /\ Covers(moved, same, p(i), i) BY <2>1, <2>3
    <3> HIDE DEF o, p
    <3>3. PICK x \in DOMAIN values : p(i) = place[x] BY <3>2
    <3>4. Covers(values, place, x, i) BY <1>5, <3>2, <3>3
    <3>5. x = o(i) BY <1>6, <3>1, <3>4
    <3>6. same[p(i)] = place[o(i)] /\ moved[p(i)] = values[o(i)] BY <3>3, <3>5
    <3> QED BY <2>1, <2>3, <3>6
  <2> QED BY <2>2, <2>3
<1>8. place = << >> <=> same = << >>
  <2>1. DOMAIN values = {} <=> DOMAIN moved = {} OBVIOUS
  <2> QED BY <2>1, EmptyFunction
<1>9. NameTable(values, place) = IF place = << >> THEN << >> ELSE olds
  BY DEF NameTable
<1>10. NameTable(moved, same) = IF same = << >> THEN << >> ELSE news
  BY <1>4 DEF NameTable
<1> HIDE DEF Old, New, n
<1>11. news = olds BY <1>7
<1> HIDE DEF news, olds
<1> QED BY <1>8, <1>9, <1>10, <1>11

\* What is read back is a file, even one whose payloads are too long to be read.
LEMMA EmittedIsFile ==
  ASSUME NEW f, IsFile(f), NEW blocks, NEW values, NEW place,
         IsPlan(f, blocks, values, place)
  PROVE  IsFile(Parse(Emit(f, blocks, values, place)))
<1> DEFINE img == Emit(f, blocks, values, place)
<1>1. IsImage(img) BY EmitType DEF IsPlan
<1>2. ASSUME NEW s \in DOMAIN img.sec PROVE StoredAt(img, img.sec[s].dataOff) # {}
  <2>1. s \in DOMAIN f.sec /\ img.sec[s].dataOff = DataOffset(f, blocks, s) BY DEF Emit
  <2>2. StoredAt(img, DataOffset(f, blocks, s)) =
          {[off |-> DataOffset(f, blocks, s), payload |-> f.sec[s].payload]}
    BY <2>1, EmittedPayloads
  <2> HIDE DEF img
  <2> QED BY <2>1, <2>2
<1> HIDE DEF img
<1>3. IsFile(Parse(img)) BY <1>1, <1>2, StoredParseType
<1> QED BY <1>3 DEF img

\* The raw tail is read back as it was, when every entry is in use and none is
\* of maximal length.
LEMMA ShortNamesTail ==
  ASSUME NEW f, IsFile(f), NEW blocks, NEW values, NEW place,
         IsPlan(f, blocks, values, place), DOMAIN values = UsedOffsets(f.sec),
         \A o \in UsedOffsets(f.sec) : Len(values[o]) < MaxNameLen
  PROVE  Parse(Emit(f, blocks, values, place)).rawTail = f.rawTail
<1> DEFINE img == Emit(f, blocks, values, place)
           e == RawTailStart(img)
<1>1. IsImage(img) BY EmitType DEF IsPlan
<1>2. /\ e = 0 \/ \E o \in UsedOffsets(f.sec) : e = place[o] + EntrySize(values[o])
      /\ \A o \in UsedOffsets(f.sec) : place[o] + EntrySize(values[o]) <= e
  BY ShortNamesEnd
<1>3. e \in 0 .. Len(img.tail) /\ img.tail \in Seq(Byte)
  BY <1>1, RawTailStartType DEF IsImage
<1>4. Parse(img).rawTail = SubSeq(img.tail, e + 1, Len(img.tail)) BY DEF Parse
<1>5. PICK t \in Seq(Byte), r \in Seq(Byte) :
        /\ t = NameTable(values, place) /\ r = f.rawTail
        /\ Len(t) = TableSize(values, place) /\ img.tail = t \o r
  <2>1. LET t == NameTable(values, place)
        IN  /\ t \in Seq(Byte) /\ Len(t) = TableSize(values, place)
            /\ img.tail = t \o f.rawTail /\ f.rawTail \in Seq(Byte)
    BY EmittedTail
  <2> HIDE DEF img
  <2> QED BY <2>1
<1>6. TableSize(values, place) = e
  <2>1. e \in Nat BY <1>3
  <2> HIDE DEF e
  <2> QED BY <1>2, <2>1, TableSizeIsThat DEF IsPlan
<1> HIDE DEF e
<1>7. Parse(img).rawTail = SubSeq(t \o r, Len(t) + 1, Len(t \o r))
  BY <1>4, <1>5, <1>6
<1> HIDE DEF img
<1>8. SubSeq(t \o r, Len(t) + 1, Len(t \o r)) = r
  <2> DEFINE z == t \o r
  <2>1. PICK n \in Nat, m \in Nat :
          /\ n = Len(t) /\ m = Len(r)
          /\ z \in Seq(Byte) /\ Len(z) = n + m
          /\ \A k \in 1 .. m : z[n + k] = r[k]
    BY ConcatProperties
  <2> HIDE DEF z
  <2>2. \A i \in n + 1 .. n + m : z[i] \in Byte BY <2>1
  <2> DEFINE q == SubSeq(z, n + 1, n + m)
  <2>3. /\ q \in Seq(Byte)
        /\ Len(q) = IF n + 1 <= n + m THEN n + m - (n + 1) + 1 ELSE 0
        /\ \A k \in 1 .. n + m - (n + 1) + 1 : q[k] = z[n + 1 + k - 1]
    BY <2>1, <2>2, SubSeqProperties
  <2>4. n + m - (n + 1) + 1 = m /\ \A k \in 1 .. m : n + 1 + k - 1 = n + k OBVIOUS
  <2> HIDE DEF q
  <2>5. Len(q) = Len(r) /\ \A k \in 1 .. Len(r) : q[k] = r[k]
    BY <2>1, <2>3, <2>4
  <2>6. q = r BY <2>3, <2>5, SeqEqual
  <2> QED BY <2>1, <2>6 DEF q, z
<1> QED BY <1>5, <1>7, <1>8 DEF img

\* Payloads that have not changed are laid out where they were.
LEMMA SameDataOffset ==
  ASSUME NEW f, NEW g, DOMAIN g.sec = DOMAIN f.sec,
         \A s \in DOMAIN f.sec : g.sec[s].payload = f.sec[s].payload,
         NEW blocks, NEW s \in DOMAIN f.sec
  PROVE  DataOffset(g, blocks, s) = DataOffset(f, blocks, s)
<1> DEFINE ahead == {t \in DOMAIN f.sec : Before(blocks, t, s)}
           M == 0 .. MaxLen + 7
           X == {c \in ahead \X M : c[2] < Stored(f.sec[c[1]].payload)}
           Y == {c \in ahead \X M : c[2] < Stored(g.sec[c[1]].payload)}
<1>1. \A c \in ahead \X M : g.sec[c[1]].payload = f.sec[c[1]].payload OBVIOUS
<1>2. DataOffset(f, blocks, s) = Cardinality(X) BY DEF DataOffset
<1>3. DataOffset(g, blocks, s) = Cardinality(Y) BY DEF DataOffset
<1> HIDE DEF M, ahead
<1>4. X = Y BY <1>1
<1> QED BY <1>2, <1>3, <1>4

\* The sections that use an entry use it where it has been put.
LEMMA MovedUsers ==
  ASSUME NEW f, IsFile(f), NEW blocks, NEW values, NEW place,
         IsPlan(f, blocks, values, place)
  PROVE  LET g == Parse(Emit(f, blocks, values, place))
         IN  /\ \A o, p \in DOMAIN values : place[o] = place[p] => o = p
             /\ Named(g) = Named(f)
             /\ UsedOffsets(g.sec) = {place[o] : o \in UsedOffsets(f.sec)}
             /\ \A o \in UsedOffsets(f.sec) : Users(g, place[o]) = Users(f, o)
<1> DEFINE g == Parse(Emit(f, blocks, values, place))
<1>1. ASSUME NEW o \in DOMAIN values, NEW p \in DOMAIN values, place[o] = place[p]
      PROVE  o = p
  <2>1. /\ place[o] \in Nat /\ values[o] \in Name /\ values[p] \in Name
        /\ \/ o = p
           \/ place[o] + EntrySize(values[o]) <= place[p]
           \/ place[p] + EntrySize(values[p]) <= place[o]
    BY DEF IsPlan, IsMap, Disjoint
  <2>2. EntrySize(values[o]) \in Nat \ {0} /\ EntrySize(values[p]) \in Nat \ {0}
    BY <2>1 DEF Name, EntrySize
  <2> QED BY <1>1, <2>1, <2>2
<1>2. \A o \in UsedOffsets(f.sec) : o \in DOMAIN values /\ place[o] \in Nat
  BY DEF IsPlan
<1>3. /\ DOMAIN g.sec = DOMAIN f.sec
      /\ \A s \in DOMAIN f.sec :
           g.sec[s].nameOff = IF s \in Named(f) THEN place[f.sec[s].nameOff]
                              ELSE NoNameOffset
  BY ReadBack
<1> HIDE DEF g
<1>4. \A s \in Named(f) : s \in DOMAIN f.sec /\ f.sec[s].nameOff \in UsedOffsets(f.sec)
  BY DEF Named, UsedOffsets
<1>5. \A s \in Named(f) : place[f.sec[s].nameOff] # NoNameOffset
  BY <1>2, <1>4 DEF NoNameOffset
<1>6. Named(g) = Named(f) BY <1>3, <1>4, <1>5 DEF Named
<1>7. ASSUME NEW o \in UsedOffsets(f.sec) PROVE Users(g, place[o]) = Users(f, o)
  <2>1. ASSUME NEW s \in Named(f) PROVE g.sec[s].nameOff = place[o] <=> f.sec[s].nameOff = o
    BY <1>1, <1>2, <1>3, <1>4
  <2> QED BY <1>6, <2>1 DEF Users
<1>8. UsedOffsets(g.sec) = {place[o] : o \in UsedOffsets(f.sec)}
  <2>1. \A p : p \in UsedOffsets(f.sec) <=> \E s \in Named(f) : p = f.sec[s].nameOff
    BY DEF UsedOffsets, Named
  <2>2. \A p : p \in UsedOffsets(g.sec) <=> \E s \in Named(g) : p = g.sec[s].nameOff
    BY DEF UsedOffsets, Named
  <2>3. \A s \in Named(f) : g.sec[s].nameOff = place[f.sec[s].nameOff] BY <1>3, <1>4
  <2>4. ASSUME NEW p PROVE p \in UsedOffsets(g.sec) <=> p \in {place[o] : o \in UsedOffsets(f.sec)}
    BY <1>6, <2>1, <2>2, <2>3
  <2> QED BY <2>4
<1> QED BY <1>1, <1>6, <1>7, <1>8 DEF g

\* A table laid out in the order of first use stays where it is.
LEMMA FirstUseStays ==
  ASSUME NEW f, IsFile(f), NEW blocks, NEW values, NEW place,
         IsPlan(f, blocks, values, place), DOMAIN values = UsedOffsets(f.sec),
         place = CanonicalPlace(f, blocks, values),
         NEW moved, DOMAIN moved = {place[o] : o \in UsedOffsets(f.sec)},
         \A o \in UsedOffsets(f.sec) : moved[place[o]] = values[o]
  PROVE  LET g == Parse(Emit(f, blocks, values, place))
         IN  \A p \in DOMAIN moved : CanonicalPlace(g, blocks, moved)[p] = p
<1> DEFINE g == Parse(Emit(f, blocks, values, place))
           U == UsedOffsets(f.sec)
<1>1. /\ \A o, p \in U : place[o] = place[p] => o = p
      /\ \A o \in U : Users(g, place[o]) = Users(f, o)
  BY MovedUsers
<1>2. IsFiniteSet(U) BY FileOffsets
<1> HIDE DEF g
<1>3. SUFFICES ASSUME NEW o \in U
               PROVE  CanonicalPlace(g, blocks, moved)[place[o]] = place[o]
  BY DEF g
<1> DEFINE ahead == {p \in U : FirstUsedBefore(f, blocks, p, o)}
           there == {p \in DOMAIN moved : FirstUsedBefore(g, blocks, p, place[o])}
<1>4. place[o] = BytesOf(values, ahead) BY DEF CanonicalPlace
<1>5. CanonicalPlace(g, blocks, moved)[place[o]] = BytesOf(moved, there)
  BY DEF CanonicalPlace
<1>6. \A p \in U : FirstUsedBefore(g, blocks, place[p], place[o])
                      <=> FirstUsedBefore(f, blocks, p, o)
  BY <1>1 DEF FirstUsedBefore
<1>7. there = {place[p] : p \in ahead}
  <2> HIDE DEF U
  <2> QED BY <1>6 DEF U
<1>8. ahead \in SUBSET U OBVIOUS
<1> HIDE DEF ahead, there
<1>9. IsFiniteSet(ahead) BY <1>2, <1>8, FS_Subset
<1>10. /\ \A p, q \in ahead : place[p] = place[q] => p = q
       /\ \A p \in ahead : moved[place[p]] = values[p]
  BY <1>1, <1>8
<1>11. BytesOf(moved, {place[p] : p \in ahead}) = BytesOf(values, ahead)
  BY <1>9, <1>10, MovedBytes
<1> QED BY <1>4, <1>5, <1>7, <1>11

\* Canonicalizing a canonical image gives it again: the blocks are in order,
\* the names are where they are first used, and nothing else moves.
LEMMA CanonicalAgain ==
  ASSUME NEW f, IsFile(f), TableRules(f), Nameless(f) = {},
         \A o \in UsedOffsets(f.sec) : Len(f.names[o]) < MaxNameLen
  PROVE  LET img == SerializeCanonical(f)
             g   == Parse(img)
         IN  ~SerializeCanonicalFails(g) /\ SerializeCanonical(g) = img
<1> DEFINE B == CanonicalBlocks(f)
           V == CanonicalValues(f)
           P == CanonicalPlace(f, B, V)
           img == Emit(f, B, V, P)
           g == Parse(img)
           W == CanonicalValues(g)
           Q == CanonicalPlace(g, B, W)
           U == UsedOffsets(f.sec)
<1>1. /\ IsPlan(f, B, V, P) /\ DOMAIN V = U
      /\ \A o \in U : V[o] = f.names[o]
  BY CanonicalPlan
<1>2. P = CanonicalPlace(f, B, V) /\ SerializeCanonical(f) = img
  BY DEF SerializeCanonical
<1>3. B = CanonicalBlocks(f) OBVIOUS
<1> HIDE DEF B, V, P
<1>4. \A o \in U : Len(V[o]) < MaxNameLen BY <1>1
<1>5. IsFile(g) /\ g.rawTail = f.rawTail
  BY <1>1, <1>4, EmittedIsFile, ShortNamesTail
<1>6. Contents(g) = Contents(f)
  <2> HIDE DEF g, img
  <2>1. KeepsNames(f, V) BY <1>1 DEF KeepsNames
  <2> QED BY <1>1, <2>1, PlanKeepsContents DEF g, img
<1>7. /\ g.hdr = f.hdr /\ g.blocks = B /\ DOMAIN g.sec = DOMAIN f.sec
      /\ DOMAIN g.names = {P[o] : o \in U}
      /\ \A o \in U : g.names[P[o]] = V[o]
  BY <1>1, ReadBack
<1>8. ASSUME NEW s \in DOMAIN f.sec
      PROVE  /\ g.sec[s].type = f.sec[s].type /\ g.sec[s].index = f.sec[s].index
             /\ g.sec[s].payload = f.sec[s].payload
             /\ g.sec[s].nameOff = IF s \in Named(f) THEN P[f.sec[s].nameOff]
                                   ELSE NoNameOffset
  BY <1>1, ReadBack
<1>9. /\ Named(g) = Named(f) /\ UsedOffsets(g.sec) = {P[o] : o \in U}
  BY <1>1, MovedUsers
<1>10. TableRules(g) BY ParsedTableRules
<1>11. \A m : DOMAIN m = {P[o] : o \in U} /\ (\A o \in U : m[P[o]] = V[o])
               => \A p \in DOMAIN m : CanonicalPlace(g, B, m)[p] = p
  BY <1>1, <1>2, FirstUseStays
<1> HIDE DEF U, img, g
<1>12. Nameless(g) = {}
  <2>1. ASSUME NEW s \in Named(g) PROVE g.sec[s].nameOff \in DOMAIN g.names
    <3>1. s \in DOMAIN f.sec /\ f.sec[s].nameOff \in U BY <1>9 DEF Named, UsedOffsets, U
    <3>2. g.sec[s].nameOff = P[f.sec[s].nameOff] BY <1>8, <1>9, <3>1
    <3> QED BY <1>7, <3>1, <3>2
  <2> QED BY <2>1 DEF Nameless
<1>13. ~SerializeCanonicalFails(g) BY <1>5, <1>10, <1>12, FailsAlike
<1>14. CanonicalBlocks(g) = B BY <1>3, <1>5, <1>6, <1>7, CanonicalBlocksStay
<1>15. /\ DOMAIN W = {P[o] : o \in U} /\ \A o \in U : W[P[o]] = V[o]
       /\ IsPlan(g, B, W, Q)
  <2> HIDE DEF W, Q, B
  <2>1. /\ IsPlan(g, CanonicalBlocks(g), W, CanonicalPlace(g, CanonicalBlocks(g), W))
        /\ DOMAIN W = UsedOffsets(g.sec)
        /\ \A p \in UsedOffsets(g.sec) : W[p] = g.names[p]
    BY <1>5, <1>10, <1>12, CanonicalPlan DEF W
  <2> QED BY <1>7, <1>9, <1>14, <2>1 DEF Q
<1>16. SerializeCanonical(g) = Emit(g, B, W, Q) BY <1>14 DEF SerializeCanonical
<1> HIDE DEF W
<1>17. \A p \in DOMAIN W : Q[p] = p BY <1>11, <1>15
<1> HIDE DEF Q
<1>18. NameTable(W, Q) = NameTable(V, P)
  <2>1. /\ IsMap(V, Nat, Name) /\ P \in [DOMAIN V -> Nat] /\ Disjoint(V, P)
        /\ IsMap(W, Nat, Name) /\ Q \in [DOMAIN W -> Nat]
    BY <1>1, <1>15 DEF IsPlan
  <2> QED BY <1>1, <1>15, <1>17, <2>1, MovedTable
<1>19. ASSUME NEW s \in DOMAIN f.sec PROVE DataOffset(g, B, s) = DataOffset(f, B, s)
  BY <1>7, <1>8, SameDataOffset
<1>20. ASSUME NEW s \in DOMAIN f.sec
       PROVE  (IF s \in Named(g) THEN Q[g.sec[s].nameOff] ELSE NoNameOffset) =
              (IF s \in Named(f) THEN P[f.sec[s].nameOff] ELSE NoNameOffset)
  <2>1. s \in Named(f) => f.sec[s].nameOff \in U BY DEF Named, UsedOffsets, U
  <2> QED BY <1>8, <1>9, <1>15, <1>17, <2>1
<1> DEFINE sec(h, R) == [s \in DOMAIN f.sec |->
                            [ type    |-> h.sec[s].type,
                              index   |-> h.sec[s].index,
                              nameOff |-> IF s \in Named(h) THEN R[h.sec[s].nameOff]
                                          ELSE NoNameOffset,
                              dataOff |-> DataOffset(h, B, s) ]]
           data(h) == {[off |-> DataOffset(h, B, s), payload |-> h.sec[s].payload] :
                         s \in DOMAIN f.sec}
           written(h, t, d, c) == [ hdr |-> h.hdr, hdr2 |-> h.hdr, blocks |-> B,
                                    tail |-> t \o h.rawTail, slack |-> << >>,
                                    data |-> d, sec |-> c ]
<1>21. sec(g, Q) = sec(f, P) BY <1>8, <1>19, <1>20
<1>22. data(g) = data(f) BY <1>8, <1>19
<1>23. img = written(f, NameTable(V, P), data(f), sec(f, P))
  BY DEF img, Emit, WrittenHeaders
<1>24. Emit(g, B, W, Q) = written(g, NameTable(W, Q), data(g), sec(g, Q))
  BY <1>7 DEF Emit, WrittenHeaders
<1> HIDE DEF sec, data
<1>25. Emit(g, B, W, Q) = img BY <1>5, <1>7, <1>18, <1>21, <1>22, <1>23, <1>24
<1> QED BY <1>2, <1>13, <1>16, <1>25 DEF g

-----------------------------------------------------------------------------
(***************************************************************************)
(* Edits.                                                                  *)
(***************************************************************************)

\* An edit that is not refused for its target has one.
LEMMA TargetExists ==
  ASSUME NEW f, NEW t, OfType(f, t) # {}
  PROVE  Only(OfType(f, t)) \in DOMAIN f.sec
BY DEF Only, OfType

LEMMA OneOfType ==
  ASSUME NEW f, IsFile(f), NEW t, ~(Cardinality(OfType(f, t)) > 1),
         NEW s \in OfType(f, t)
  PROVE  OfType(f, t) = {s}
<1> DEFINE S == OfType(f, t)
<1>1. S \in SUBSET DOMAIN f.sec /\ IsFiniteSet(DOMAIN f.sec)
  BY DEF OfType, IsFile, IsMap
<1> HIDE DEF S
<1>2. IsFiniteSet(S) BY <1>1, FS_Subset
<1>3. Cardinality(S) \in Nat /\ Cardinality(S) # 0
  BY <1>2, FS_CardinalityType, FS_EmptySet DEF S
<1>4. Cardinality(S) = 1 BY <1>3 DEF S
<1>5. \E x : S = {x} BY <1>2, <1>4, FS_Singleton
<1> QED BY <1>5 DEF S

LEMMA RenameTarget ==
  ASSUME NEW f, NEW n, NameRefusal(f, n) = "none"
  PROVE  /\ OfType(f, "LVSR") # {}
         /\ ~(Len(n) > MaxNameLen)
BY DEF NameRefusal, TargetRefusal

LEMMA NextFreeType ==
  ASSUME NEW f, IsFile(f)
  PROVE  /\ NextFreeNameOffset(f) \in Nat
         /\ \A o \in DOMAIN f.names : o < NextFreeNameOffset(f)
<1>1. IsMap(f.names, Nat, Name) BY DEF IsFile
<1> DEFINE same == [o \in DOMAIN f.names |-> o]
<1>2. same \in [DOMAIN f.names -> Nat] BY <1>1 DEF IsMap
<1>3. /\ TableSize(f.names, same) \in Nat
      /\ \A o \in DOMAIN f.names :
           same[o] + EntrySize(f.names[o]) <= TableSize(f.names, same)
  <2> HIDE DEF same
  <2> QED BY <1>1, <1>2, TableSizeIsEnd
<1>4. \A o \in DOMAIN f.names : o \in Nat /\ EntrySize(f.names[o]) \in Nat \ {0}
  BY <1>1 DEF IsMap, Name, EntrySize
<1> QED BY <1>3, <1>4 DEF NextFreeNameOffset

LEMMA FirstCarrierType ==
  ASSUME NEW f, IsFile(f), NEW n, Carriers(f, n) # {}
  PROVE  FirstCarrier(f, n) \in Carriers(f, n)
<1> DEFINE C == Carriers(f, n)
           down == [o \in C |-> 0 - o]
<1>1. C \subseteq Nat /\ IsFiniteSet(C)
  <2>1. C \in SUBSET DOMAIN f.names BY DEF Carriers
  <2>2. DOMAIN f.names \subseteq Nat /\ IsFiniteSet(DOMAIN f.names) BY DEF IsFile, IsMap
  <2> HIDE DEF C
  <2> QED BY <2>1, <2>2, FS_Subset
<1>2. down \in [C -> Int] BY <1>1
<1>3. \E m \in C : \A o \in C : down[o] <= down[m]
  <2> HIDE DEF C, down
  <2>1. C # {} BY DEF C
  <2> QED BY <1>1, <1>2, <2>1, GreatestValue
<1>4. \E m \in C : \A o \in C : m <= o BY <1>1, <1>3
<1> QED BY <1>4 DEF FirstCarrier

LEMMA PointAtType ==
  ASSUME NEW f, IsFile(f), NEW s \in DOMAIN f.sec, NEW n \in Name, NEW o \in Nat,
         NEW names, IsMap(names, Nat, Name)
  PROVE  IsFile(PointAt(f, s, n, o, names))
<1> DEFINE g == PointAt(f, s, n, o, names)
<1>1. /\ g = [ hdr |-> g.hdr, hdr2 |-> g.hdr2, blocks |-> g.blocks, sec |-> g.sec,
               names |-> g.names, rawTail |-> g.rawTail ]
      /\ g.hdr = f.hdr /\ g.hdr2 = f.hdr2 /\ g.rawTail = f.rawTail
      /\ g.names = names
      /\ g.sec = [f.sec EXCEPT ![s] = [@ EXCEPT !.name = n, !.nameOff = o]]
  BY DEF PointAt
<1>2. IsMap(f.sec, Sections, Section) BY DEF IsFile
<1>3. [f.sec[s] EXCEPT !.name = n, !.nameOff = o] \in Section
  <2>1. f.sec[s] \in Section BY <1>2 DEF IsMap
  <2> QED BY <2>1 DEF Section
<1>4. IsMap(g.sec, Sections, Section)
  <2> HIDE DEF g
  <2> QED BY <1>1, <1>2, <1>3 DEF IsMap
<1>5. DOMAIN g.sec = DOMAIN f.sec /\ g.blocks = f.blocks BY DEF PointAt
<1> HIDE DEF g
<1>6. IsFile(g) BY <1>1, <1>4, <1>5 DEF IsFile
<1> QED BY <1>6 DEF g

LEMMA NameEditedType ==
  ASSUME NEW f, IsFile(f), NEW n \in Seq(Byte), NameRefusal(f, n) = "none"
  PROVE  IsFile(NameEdited(f, n))
<1> DEFINE s == Only(OfType(f, "LVSR"))
<1>1. s \in DOMAIN f.sec BY RenameTarget, TargetExists
<1>2. n \in Name
  <2>1. ~(Len(n) > MaxNameLen) BY RenameTarget
  <2> QED BY <2>1, ByteModAssumption DEF Name, MaxNameLen
<1>3. IsMap(f.names, Nat, Name) BY DEF IsFile
<1>4. CASE NameUnchanged(f, s, n) BY <1>4 DEF NameEdited
<1>5. CASE ~NameUnchanged(f, s, n) /\ Carriers(f, n) # {}
  <2>1. FirstCarrier(f, n) \in Nat
    BY <1>3, <1>5, FirstCarrierType DEF Carriers, IsMap
  <2>2. IsFile(PointAt(f, s, n, FirstCarrier(f, n), f.names))
    <3> HIDE DEF s
    <3> QED BY <1>1, <1>2, <1>3, <2>1, PointAtType
  <2> QED BY <1>5, <2>2 DEF NameEdited, Repointed
<1>6. CASE ~NameUnchanged(f, s, n) /\ Carriers(f, n) = {}
  <2> DEFINE o == IF OwnsEntry(f, s) THEN f.sec[s].nameOff ELSE NextFreeNameOffset(f)
             names == WithEntry(f.names, o, n)
  <2>1. o \in Nat
    <3>1. OwnsEntry(f, s) => f.sec[s].nameOff \in Nat BY <1>3 DEF OwnsEntry, IsMap
    <3> QED BY <3>1, NextFreeType
  <2>2. IsMap(names, Nat, Name)
    <3>1. IsFiniteSet(DOMAIN f.names \cup {o}) BY <1>3, FS_AddElement DEF IsMap
    <3> HIDE DEF o
    <3> QED BY <1>2, <1>3, <2>1, <3>1 DEF IsMap, WithEntry
  <2>3. IsFile(PointAt(f, s, n, o, names))
    <3> HIDE DEF s, o, names
    <3> QED BY <1>1, <1>2, <2>1, <2>2, PointAtType
  <2> QED BY <1>6, <2>3 DEF NameEdited, Repointed
<1> QED BY <1>4, <1>5, <1>6

LEMMA EncodeType ==
  ASSUME NEW d \in Description
  PROVE  Encode(d) \in Payload
<1>1. d.val \in Nat /\ d.len \in 0 .. MaxLen - 4 BY DEF Description
<1>2. 4 + d.len \in 0 .. MaxLen BY <1>1, MaxLenAssumption
<1>3. (IF d.control THEN {"control_chars"} ELSE {}) \in SUBSET StrgIssues
  BY DEF StrgIssues
<1> QED BY <1>1, <1>2, <1>3 DEF Encode, Payload

\* A block with a new section behind the others.
LEMMA LayoutAppended ==
  ASSUME NEW S, NEW blocks, IsLayout(blocks, S), NEW x, x \notin S
  PROVE  IsLayout(Append(blocks, << x >>), S \cup {x})
<1> DEFINE B == Seq(S) \ {<< >>}
           T == S \cup {x}
           b == Append(blocks, << x >>)
<1>1. blocks \in Seq(B) /\ Len(blocks) \in Nat /\ DOMAIN blocks = 1 .. Len(blocks)
  BY DEF IsLayout
<1>2. B \subseteq Seq(T) \ {<< >>} /\ << x >> \in Seq(T) \ {<< >>} OBVIOUS
<1>3. b \in Seq(Seq(T) \ {<< >>})
  <2> HIDE DEF B, T
  <2>1. blocks \in Seq(Seq(T) \ {<< >>}) BY <1>1, <1>2
  <2> QED BY <1>2, <2>1
<1>4. /\ DOMAIN b = 1 .. Len(blocks) + 1
      /\ \A i \in DOMAIN blocks : b[i] = blocks[i]
      /\ b[Len(blocks) + 1] = << x >>
  <2> HIDE DEF B
  <2> QED BY <1>1
<1>5. \A i \in DOMAIN blocks : \A k \in DOMAIN blocks[i] : blocks[i][k] \in S
  <2>1. \A i \in DOMAIN blocks : blocks[i] \in Seq(S) BY <1>1
  <2> QED BY <2>1
<1> HIDE DEF b
<1>6. ASSUME NEW s \in T
      PROVE  \E i \in DOMAIN b : \E k \in DOMAIN b[i] : b[i][k] = s
  <2>1. CASE s = x
    <3>1. 1 \in DOMAIN << x >> /\ << x >>[1] = x OBVIOUS
    <3>2. Len(blocks) + 1 \in DOMAIN b BY <1>1, <1>4
    <3> QED BY <1>4, <2>1, <3>1, <3>2
  <2>2. CASE s \in S
    <3>1. PICK i \in DOMAIN blocks : \E k \in DOMAIN blocks[i] : blocks[i][k] = s
      BY <2>2 DEF IsLayout
    <3>2. i \in DOMAIN b BY <1>1, <1>4
    <3> QED BY <1>4, <3>1, <3>2
  <2> QED BY <2>1, <2>2
<1>7. ASSUME NEW i \in DOMAIN b, NEW j \in DOMAIN b,
             NEW k \in DOMAIN b[i], NEW l \in DOMAIN b[j], b[i][k] = b[j][l]
      PROVE  i = j /\ k = l
  <2>1. \A h \in DOMAIN b : h \in DOMAIN blocks \/ h = Len(blocks) + 1
    BY <1>1, <1>4
  <2>2. \A h \in DOMAIN b : \A m \in DOMAIN b[h] :
          h \notin DOMAIN blocks => m = 1 /\ b[h][m] = x
    BY <1>4, <2>1
  <2>3. CASE i \in DOMAIN blocks /\ j \in DOMAIN blocks
    BY <1>4, <1>7, <2>3 DEF IsLayout
  <2>4. CASE i \notin DOMAIN blocks /\ j \notin DOMAIN blocks
    BY <2>1, <2>2, <2>4
  <2>5. CASE i \in DOMAIN blocks /\ j \notin DOMAIN blocks
    BY <1>4, <1>5, <1>7, <2>2, <2>5
  <2>6. CASE i \notin DOMAIN blocks /\ j \in DOMAIN blocks
    BY <1>4, <1>5, <1>7, <2>2, <2>6
  <2> QED BY <2>3, <2>4, <2>5, <2>6
<1>8. IsLayout(b, T) BY <1>3, <1>6, <1>7 DEF IsLayout
<1> QED BY <1>8 DEF b

LEMMA DescriptionEditedType ==
  ASSUME NEW f, IsFile(f), SpareIsFree(f), NEW d \in Description
  PROVE  IsFile(DescriptionEdited(f, d))
<1> DEFINE g == DescriptionEdited(f, d)
<1>1. Encode(d) \in Payload BY EncodeType
<1>2. IsMap(f.sec, Sections, Section) BY DEF IsFile
<1>3. CASE OfType(f, "STRG") = {}
  <2> DEFINE new == [ type |-> "STRG", index |-> 0, nameOff |-> NoNameOffset,
                      dataOff |-> 0, name |-> NoName, payload |-> Encode(d) ]
  <2>1. new \in Section
    <3>1. "STRG" \in Types
      <4>1. 9 \in DOMAIN BlockTypes /\ BlockTypes[9] = "STRG"
        BY DEF BlockTypes, CanonicalTypes
      <4> QED BY <4>1 DEF Types
    <3> QED BY <1>1, <3>1, NoNameType DEF Section
  <2>2. /\ g = [ hdr |-> g.hdr, hdr2 |-> g.hdr2, blocks |-> g.blocks, sec |-> g.sec,
                 names |-> g.names, rawTail |-> g.rawTail ]
        /\ g.hdr = f.hdr /\ g.hdr2 = f.hdr2 /\ g.rawTail = f.rawTail
        /\ g.names = f.names
        /\ g.blocks = Append(f.blocks, << SpareSection >>)
        /\ g.sec = [s \in DOMAIN f.sec \cup {SpareSection} |->
                      IF s \in DOMAIN f.sec THEN f.sec[s] ELSE new]
    BY <1>3 DEF DescriptionEdited, AppendStrg
  <2>3. IsMap(g.sec, Sections, Section)
    <3>1. IsFiniteSet(DOMAIN f.sec \cup {SpareSection})
      BY <1>2, FS_AddElement DEF IsMap
    <3> HIDE DEF g, new
    <3> QED BY <1>2, <2>1, <2>2, <3>1, SpareAssumption DEF IsMap
  <2>4. IsLayout(g.blocks, DOMAIN g.sec)
    <3>1. SpareSection \notin DOMAIN f.sec BY <1>3 DEF SpareIsFree, OfType
    <3>2. IsLayout(f.blocks, DOMAIN f.sec) BY DEF IsFile
    <3>3. DOMAIN g.sec = DOMAIN f.sec \cup {SpareSection} BY <2>2
    <3> HIDE DEF g, new
    <3> QED BY <2>2, <3>1, <3>2, <3>3, LayoutAppended
  <2> HIDE DEF g, new
  <2>5. IsFile(g) BY <2>2, <2>3, <2>4 DEF IsFile
  <2> QED BY <2>5 DEF g
<1>4. CASE OfType(f, "STRG") # {}
  <2> DEFINE s == Only(OfType(f, "STRG"))
  <2>1. s \in DOMAIN f.sec BY <1>4, TargetExists
  <2>2. /\ g = [ hdr |-> g.hdr, hdr2 |-> g.hdr2, blocks |-> g.blocks, sec |-> g.sec,
                 names |-> g.names, rawTail |-> g.rawTail ]
        /\ g.hdr = f.hdr /\ g.hdr2 = f.hdr2 /\ g.rawTail = f.rawTail
        /\ g.names = f.names /\ g.blocks = f.blocks
        /\ g.sec = [f.sec EXCEPT ![s] = [@ EXCEPT !.payload = Encode(d)]]
    BY <1>4 DEF DescriptionEdited, ReplacePayload
  <2>3. [f.sec[s] EXCEPT !.payload = Encode(d)] \in Section
    <3>1. f.sec[s] \in Section BY <1>2, <2>1 DEF IsMap
    <3> HIDE DEF s
    <3> QED BY <1>1, <3>1 DEF Section
  <2>4. IsMap(g.sec, Sections, Section)
    <3> HIDE DEF g, s
    <3> QED BY <1>2, <2>1, <2>2, <2>3 DEF IsMap
  <2>5. DOMAIN g.sec = DOMAIN f.sec
    <3> HIDE DEF s
    <3> QED BY <2>2
  <2> HIDE DEF g
  <2>6. IsFile(g) BY <2>2, <2>4, <2>5 DEF IsFile
  <2> QED BY <2>6 DEF g
<1> QED BY <1>3, <1>4

\* What a rename does to the target and to the table.
LEMMA PointAtSections ==
  ASSUME NEW f, IsFile(f), NEW t \in DOMAIN f.sec, NEW n, NEW o, NEW names
  PROVE  LET g == PointAt(f, t, n, o, names)
         IN  /\ DOMAIN g.sec = DOMAIN f.sec /\ g.names = names
             /\ g.hdr = f.hdr /\ g.hdr2 = f.hdr2
             /\ g.blocks = f.blocks /\ g.rawTail = f.rawTail
             /\ \A s \in DOMAIN f.sec : s # t => g.sec[s] = f.sec[s]
             /\ g.sec[t].name = n /\ g.sec[t].nameOff = o
             /\ g.sec[t].type = f.sec[t].type /\ g.sec[t].index = f.sec[t].index
             /\ g.sec[t].payload = f.sec[t].payload
<1> DEFINE g == PointAt(f, t, n, o, names)
<1>1. f.sec[t] \in Section BY DEF IsFile, IsMap
<1>2. g.sec = [f.sec EXCEPT ![t] = [@ EXCEPT !.name = n, !.nameOff = o]]
  BY DEF PointAt
<1>3. g.sec[t] = [f.sec[t] EXCEPT !.name = n, !.nameOff = o]
  <2> HIDE DEF g
  <2> QED BY <1>2
<1>4. /\ g.sec[t].name = n /\ g.sec[t].nameOff = o
      /\ g.sec[t].type = f.sec[t].type /\ g.sec[t].index = f.sec[t].index
      /\ g.sec[t].payload = f.sec[t].payload
  <2> HIDE DEF g
  <2> QED BY <1>1, <1>3 DEF Section
<1>5. DOMAIN g.sec = DOMAIN f.sec /\ \A s \in DOMAIN f.sec : s # t => g.sec[s] = f.sec[s]
  <2> HIDE DEF g
  <2> QED BY <1>2
<1>6. /\ g.names = names /\ g.hdr = f.hdr /\ g.hdr2 = f.hdr2
      /\ g.blocks = f.blocks /\ g.rawTail = f.rawTail
  BY DEF PointAt
<1> QED BY <1>4, <1>5, <1>6

\* A rename gives the VI its name, behind an offset of the table unless it had
\* both already, and takes no entry away that another section uses.
LEMMA RenameShape ==
  ASSUME NEW f, IsFile(f), NEW n \in Seq(Byte), NameRefusal(f, n) = "none",
         NEW t, t = Only(OfType(f, "LVSR")), NEW g, g = NameEdited(f, n)
  PROVE  /\ t \in DOMAIN f.sec /\ f.sec[t].type = "LVSR"
         /\ DOMAIN g.sec = DOMAIN f.sec /\ g.hdr = f.hdr
         /\ \A s \in DOMAIN f.sec : s # t => g.sec[s] = f.sec[s]
         /\ g.sec[t].name = n
         /\ g.sec[t].type = f.sec[t].type /\ g.sec[t].index = f.sec[t].index
         /\ g.sec[t].payload = f.sec[t].payload
         /\ \/ g = f
            \/ /\ g.sec[t].nameOff \in DOMAIN g.names
               /\ g.names[g.sec[t].nameOff] = n
         /\ DOMAIN f.names \subseteq DOMAIN g.names
         /\ \A s \in DOMAIN f.sec :
              s # t /\ f.sec[s].nameOff \in DOMAIN f.names =>
                g.names[f.sec[s].nameOff] = f.names[f.sec[s].nameOff]
<1>1. t \in DOMAIN f.sec /\ f.sec[t].type = "LVSR"
  BY RenameTarget DEF OfType, Only
<1>2. DOMAIN f.names \subseteq Nat BY DEF IsFile, IsMap
<1>3. CASE NameUnchanged(f, t, n)
  <2>1. g = f /\ f.sec[t].name = n BY <1>3 DEF NameEdited, NameUnchanged
  <2> QED BY <1>1, <2>1
<1>4. CASE ~NameUnchanged(f, t, n) /\ Carriers(f, n) # {}
  <2>1. g = PointAt(f, t, n, FirstCarrier(f, n), f.names)
    BY <1>4 DEF NameEdited, Repointed
  <2>2. FirstCarrier(f, n) \in DOMAIN f.names /\ f.names[FirstCarrier(f, n)] = n
    BY <1>4, FirstCarrierType DEF Carriers
  <2> QED BY <1>1, <2>1, <2>2, PointAtSections
<1>5. CASE ~NameUnchanged(f, t, n) /\ Carriers(f, n) = {}
  <2> DEFINE o == IF OwnsEntry(f, t) THEN f.sec[t].nameOff ELSE NextFreeNameOffset(f)
             names == WithEntry(f.names, o, n)
  <2>1. g = PointAt(f, t, n, o, names) BY <1>5 DEF NameEdited, Repointed
  <2>2. /\ o \in DOMAIN names /\ names[o] = n
        /\ \A p \in DOMAIN f.names : p # o => p \in DOMAIN names /\ names[p] = f.names[p]
        /\ DOMAIN f.names \subseteq DOMAIN names
    <3> HIDE DEF o
    <3> QED BY DEF WithEntry
  <2>3. ASSUME NEW s \in DOMAIN f.sec, s # t, f.sec[s].nameOff \in DOMAIN f.names
        PROVE  f.sec[s].nameOff # o
    <3>1. CASE OwnsEntry(f, t)
      <4>1. s \notin Users(f, f.sec[t].nameOff) BY <2>3, <3>1 DEF OwnsEntry
      <4>2. f.sec[s].nameOff \in Nat BY <1>2, <2>3
      <4>3. s \in Named(f) BY <4>2 DEF Named, NoNameOffset
      <4> QED BY <3>1, <4>1, <4>3 DEF Users
    <3>2. CASE ~OwnsEntry(f, t)
      <4>1. f.sec[s].nameOff < NextFreeNameOffset(f) BY <2>3, NextFreeType
      <4>2. f.sec[s].nameOff \in Nat /\ NextFreeNameOffset(f) \in Nat
        BY <1>2, <2>3, NextFreeType
      <4> QED BY <3>2, <4>1, <4>2
    <3> QED BY <3>1, <3>2
  <2> HIDE DEF o, names
  <2> QED BY <1>1, <2>1, <2>2, <2>3, PointAtSections
<1> QED BY <1>3, <1>4, <1>5

\* What a description changes: one payload, or one section more.
LEMMA DescriptionShape ==
  ASSUME NEW f, IsFile(f), SpareIsFree(f), NEW d, NEW g, g = DescriptionEdited(f, d)
  PROVE  /\ g.hdr = f.hdr /\ g.names = f.names
         /\ DOMAIN f.sec \subseteq DOMAIN g.sec
         /\ \E t \in DOMAIN g.sec :
              /\ DOMAIN g.sec = DOMAIN f.sec \cup {t}
              /\ g.sec[t].type = "STRG" /\ g.sec[t].payload = Encode(d)
              /\ t \in DOMAIN f.sec => OfType(f, "STRG") # {}
              /\ t \in DOMAIN f.sec =>
                   /\ f.sec[t].type = "STRG" /\ g.sec[t].index = f.sec[t].index
                   /\ g.sec[t].name = f.sec[t].name
                   /\ g.sec[t].nameOff = f.sec[t].nameOff
              /\ t \notin DOMAIN f.sec =>
                   /\ OfType(f, "STRG") = {} /\ g.sec[t].index = 0
                   /\ g.sec[t].name = NoName /\ g.sec[t].nameOff = NoNameOffset
              /\ \A s \in DOMAIN f.sec : s # t => g.sec[s] = f.sec[s]
<1>1. CASE OfType(f, "STRG") = {}
  <2>1. SpareSection \notin DOMAIN f.sec BY <1>1 DEF SpareIsFree, OfType
  <2>2. g = AppendStrg(f, Encode(d)) BY <1>1 DEF DescriptionEdited
  <2>3. /\ g.hdr = f.hdr /\ g.names = f.names
        /\ DOMAIN g.sec = DOMAIN f.sec \cup {SpareSection}
        /\ \A s \in DOMAIN f.sec : g.sec[s] = f.sec[s]
        /\ g.sec[SpareSection] =
             [ type |-> "STRG", index |-> 0, nameOff |-> NoNameOffset,
               dataOff |-> 0, name |-> NoName, payload |-> Encode(d) ]
    BY <2>1, <2>2 DEF AppendStrg
  <2> QED BY <1>1, <2>1, <2>3
<1>2. CASE OfType(f, "STRG") # {}
  <2> DEFINE t == Only(OfType(f, "STRG"))
  <2>1. t \in DOMAIN f.sec /\ f.sec[t].type = "STRG" BY <1>2 DEF Only, OfType
  <2>2. g = ReplacePayload(f, t, Encode(d)) BY <1>2 DEF DescriptionEdited
  <2> HIDE DEF t
  <2>3. f.sec[t] \in Section BY <2>1 DEF IsFile, IsMap
  <2>4. /\ g.hdr = f.hdr /\ g.names = f.names
        /\ g.sec = [f.sec EXCEPT ![t] = [@ EXCEPT !.payload = Encode(d)]]
    BY <2>2 DEF ReplacePayload
  <2>5. g.sec[t] = [f.sec[t] EXCEPT !.payload = Encode(d)] BY <2>1, <2>4
  <2>6. /\ g.sec[t].payload = Encode(d) /\ g.sec[t].type = f.sec[t].type
        /\ g.sec[t].index = f.sec[t].index /\ g.sec[t].name = f.sec[t].name
        /\ g.sec[t].nameOff = f.sec[t].nameOff
    BY <2>3, <2>5 DEF Section
  <2>7. DOMAIN g.sec = DOMAIN f.sec /\ \A s \in DOMAIN f.sec : s # t => g.sec[s] = f.sec[s]
    BY <2>4
  <2> QED BY <1>2, <2>1, <2>4, <2>6, <2>7
<1> QED BY <1>1, <1>2

\* Neither edit breaks the rules of the table or leaves a section nameless.
LEMMA RenameRules ==
  ASSUME NEW f, IsFile(f), TableRules(f), NEW n \in Seq(Byte),
         NameRefusal(f, n) = "none", NEW g, g = NameEdited(f, n)
  PROVE  /\ TableRules(g)
         /\ Nameless(f) = {} => Nameless(g) = {}
         /\ Fits(f) => Fits(g)
<1> DEFINE t == Only(OfType(f, "LVSR"))
<1>1. /\ t \in DOMAIN f.sec
      /\ DOMAIN g.sec = DOMAIN f.sec
      /\ \A s \in DOMAIN f.sec : s # t => g.sec[s] = f.sec[s]
      /\ g.sec[t].name = n /\ g.sec[t].payload = f.sec[t].payload
      /\ \/ g = f
         \/ /\ g.sec[t].nameOff \in DOMAIN g.names
            /\ g.names[g.sec[t].nameOff] = n
      /\ DOMAIN f.names \subseteq DOMAIN g.names
      /\ \A s \in DOMAIN f.sec :
           s # t /\ f.sec[s].nameOff \in DOMAIN f.names =>
             g.names[f.sec[s].nameOff] = f.names[f.sec[s].nameOff]
  BY RenameShape
<1> HIDE DEF t
<1>2. TableRules(g)
  <2>1. CASE g = f BY <2>1
  <2>2. CASE g # f BY <1>1, <2>2 DEF TableRules
  <2> QED BY <2>1, <2>2
<1>3. ASSUME Nameless(f) = {} PROVE Nameless(g) = {}
  <2>1. CASE g = f BY <1>3, <2>1
  <2>2. CASE g # f BY <1>1, <1>3, <2>2 DEF Nameless, Named
  <2> QED BY <2>1, <2>2
<1>4. Fits(f) => Fits(g) BY <1>1 DEF Fits
<1> QED BY <1>2, <1>3, <1>4

LEMMA DescriptionRules ==
  ASSUME NEW f, IsFile(f), SpareIsFree(f), TableRules(f), NEW d,
         NEW g, g = DescriptionEdited(f, d)
  PROVE  /\ TableRules(g)
         /\ Nameless(f) = {} => Nameless(g) = {}
         /\ Fits(g) => Encode(d).len <= MaxPayload
         /\ Fits(f) /\ Encode(d).len <= MaxPayload => Fits(g)
<1>1. PICK t \in DOMAIN g.sec :
        /\ g.names = f.names
        /\ DOMAIN g.sec = DOMAIN f.sec \cup {t}
        /\ g.sec[t].payload = Encode(d)
        /\ t \in DOMAIN f.sec => /\ g.sec[t].name = f.sec[t].name
                                 /\ g.sec[t].nameOff = f.sec[t].nameOff
        /\ t \notin DOMAIN f.sec => /\ g.sec[t].name = NoName
                                    /\ g.sec[t].nameOff = NoNameOffset
        /\ \A s \in DOMAIN f.sec : s # t => g.sec[s] = f.sec[s]
  BY DescriptionShape
<1>2. TableRules(g) BY <1>1 DEF TableRules
<1>3. Nameless(f) = {} => Nameless(g) = {} BY <1>1 DEF Nameless, Named
<1>4. Fits(g) => Encode(d).len <= MaxPayload BY <1>1 DEF Fits
<1>5. Fits(f) /\ Encode(d).len <= MaxPayload => Fits(g) BY <1>1 DEF Fits
<1> QED BY <1>2, <1>3, <1>4, <1>5

-----------------------------------------------------------------------------
(***************************************************************************)
(* The structural gate.                                                    *)
(***************************************************************************)

HasUnprintable(f) == \E s \in DOMAIN f.sec : f.sec[s].type \in Unprintable

\* What a file is read back as.
LEMMA RoundTripOf ==
  ASSUME NEW f, IsFile(f), TableRules(f)
  PROVE  /\ RoundTrip(f) # {} <=> Nameless(f) = {} /\ Fits(f)
         /\ \A g \in RoundTrip(f) :
              ErrorCodes(g) = IF HasUnprintable(f) THEN {"block.type.non_printable"} ELSE {}
<1>1. SerializeFails(f) <=> Nameless(f) # {} BY FailsAlike
<1>2. CASE Nameless(f) # {} BY <1>1, <1>2 DEF RoundTrip
<1>3. CASE Nameless(f) = {}
  <2> DEFINE v == PreservingValues(f)
             img == Serialize(f)
  <2>1. /\ IsPlan(f, f.blocks, v, PreservingPlace(v))
        /\ img = Emit(f, f.blocks, v, PreservingPlace(v))
    BY <1>3, PreservingPlan DEF Serialize
  <2>2. Unreadable(img) <=> ~Fits(f)
    <3> HIDE DEF v, img
    <3> QED BY <2>1, ReadBack
  <2>3. /\ ErrorCodes(Parse(img)) \subseteq {"block.type.non_printable"}
        /\ "block.type.non_printable" \in ErrorCodes(Parse(img)) <=> HasUnprintable(f)
    <3> HIDE DEF v, img
    <3> QED BY <2>1, PlanValidates DEF HasUnprintable
  <2>4. RoundTrip(f) = {Parse(i) : i \in {j \in {img} : ~Unreadable(j)}}
    BY <1>1, <1>3 DEF RoundTrip, ParseFails
  <2> HIDE DEF img
  <2>5. \A g \in RoundTrip(f) : g = Parse(img) BY <2>4
  <2>6. RoundTrip(f) # {} <=> ~Unreadable(img) BY <2>4
  <2>7. ErrorCodes(Parse(img)) =
          IF HasUnprintable(f) THEN {"block.type.non_printable"} ELSE {}
    BY <2>3
  <2> QED BY <1>3, <2>2, <2>5, <2>6, <2>7
<1> QED BY <1>2, <1>3

\* The gate compares two files that can be read back, or lets the edit pass.
LEMMA GateDecides ==
  ASSUME NEW f, IsFile(f), TableRules(f), NEW g, IsFile(g), TableRules(g),
         HasUnprintable(g) => HasUnprintable(f)
  PROVE  GateRejects(f, g) <=>
           (Nameless(f) = {} /\ Fits(f)) /\ ~(Nameless(g) = {} /\ Fits(g))
<1>1. RoundTrip(f) # {} <=> Nameless(f) = {} /\ Fits(f) BY RoundTripOf
<1>2. RoundTrip(g) # {} <=> Nameless(g) = {} /\ Fits(g) BY RoundTripOf
<1>3. \A old \in RoundTrip(f), new \in RoundTrip(g) : ErrorCodes(new) \subseteq ErrorCodes(old)
  <2> SUFFICES ASSUME NEW old \in RoundTrip(f), NEW new \in RoundTrip(g)
               PROVE  ErrorCodes(new) \subseteq ErrorCodes(old)
    OBVIOUS
  <2>1. ErrorCodes(old) = IF HasUnprintable(f) THEN {"block.type.non_printable"} ELSE {}
    BY RoundTripOf
  <2>2. ErrorCodes(new) = IF HasUnprintable(g) THEN {"block.type.non_printable"} ELSE {}
    BY RoundTripOf
  <2> QED BY <2>1, <2>2
<1>4. GateRejects(f, g) <=> RoundTrip(f) # {} /\ RoundTrip(g) = {}
  BY <1>3 DEF GateRejects
<1> QED BY <1>1, <1>2, <1>4

\* A rename passes the gate; a description passes it when the parser can read
\* it, and only then if the file could be read back before.
LEMMA GateOnRename ==
  ASSUME NEW f, IsFile(f), TableRules(f), NEW n \in Seq(Byte),
         NameRefusal(f, n) = "none"
  PROVE  ~GateRejects(f, NameEdited(f, n))
<1> DEFINE g == NameEdited(f, n)
<1>1. IsFile(g) BY NameEditedType
<1>2. TableRules(g) /\ (Nameless(f) = {} => Nameless(g) = {}) /\ (Fits(f) => Fits(g))
  BY RenameRules
<1>3. HasUnprintable(g) => HasUnprintable(f)
  <2> DEFINE t == Only(OfType(f, "LVSR"))
  <2>1. /\ DOMAIN g.sec = DOMAIN f.sec
        /\ \A s \in DOMAIN f.sec : s # t => g.sec[s] = f.sec[s]
        /\ g.sec[t].type = f.sec[t].type
    BY RenameShape
  <2> HIDE DEF t, g
  <2> QED BY <2>1 DEF HasUnprintable
<1> HIDE DEF g
<1>4. ~GateRejects(f, g) BY <1>1, <1>2, <1>3, GateDecides
<1> QED BY <1>4 DEF g

LEMMA GateOnDescription ==
  ASSUME NEW f, IsFile(f), SpareIsFree(f), TableRules(f), NEW d \in Description
  PROVE  GateRejects(f, DescriptionEdited(f, d)) <=>
           /\ Nameless(f) = {} /\ Fits(f)
           /\ Encode(d).len > MaxPayload
<1> DEFINE g == DescriptionEdited(f, d)
<1>1. IsFile(g) BY DescriptionEditedType
<1>2. /\ TableRules(g)
      /\ Nameless(f) = {} => Nameless(g) = {}
      /\ Fits(g) => Encode(d).len <= MaxPayload
      /\ Fits(f) /\ Encode(d).len <= MaxPayload => Fits(g)
  BY DescriptionRules
<1>3. HasUnprintable(g) => HasUnprintable(f)
  <2>1. PICK t \in DOMAIN g.sec :
          /\ DOMAIN g.sec = DOMAIN f.sec \cup {t}
          /\ g.sec[t].type = "STRG"
          /\ \A s \in DOMAIN f.sec : s # t => g.sec[s] = f.sec[s]
    BY DescriptionShape
  <2>2. "STRG" \notin Unprintable
    <3>1. 9 \in DOMAIN CanonicalTypes /\ CanonicalTypes[9] = "STRG" BY DEF CanonicalTypes
    <3> QED BY <3>1, TypesAssumption
  <2> HIDE DEF g
  <2> QED BY <2>1, <2>2 DEF HasUnprintable
<1>4. Encode(d).len \in Nat /\ MaxPayload \in Int
  BY MaxLenAssumption DEF Encode, Description
<1> HIDE DEF g
<1>5. GateRejects(f, g) <=>
        (Nameless(f) = {} /\ Fits(f)) /\ ~(Nameless(g) = {} /\ Fits(g))
  BY <1>1, <1>2, <1>3, GateDecides
<1>6. GateRejects(f, g) <=> Nameless(f) = {} /\ Fits(f) /\ Encode(d).len > MaxPayload
  BY <1>2, <1>4, <1>5
<1> QED BY <1>6 DEF g

-----------------------------------------------------------------------------
(***************************************************************************)
(* The identity of the section to come.                                    *)
(***************************************************************************)

\* Parsing and writing change no type of a section.
LEMMA ParseKeepsSpare ==
  ASSUME NEW img, SpareIsFree(img)
  PROVE  SpareIsFree(Parse(img))
BY DEF SpareIsFree, Parse

LEMMA EmitKeepsSpare ==
  ASSUME NEW f, SpareIsFree(f)
  PROVE  SpareIsFree(Serialize(f)) /\ SpareIsFree(SerializeCanonical(f))
BY DEF SpareIsFree, Serialize, SerializeCanonical, Emit

LEMMA RenameKeepsSpare ==
  ASSUME NEW f, IsFile(f), SpareIsFree(f), NEW n \in Seq(Byte),
         NameRefusal(f, n) = "none"
  PROVE  SpareIsFree(NameEdited(f, n))
<1> DEFINE g == NameEdited(f, n)
<1>1. DOMAIN g.sec = DOMAIN f.sec /\ \A s \in DOMAIN f.sec : g.sec[s].type = f.sec[s].type
  BY RenameShape
<1> HIDE DEF g
<1>2. SpareIsFree(g) BY <1>1 DEF SpareIsFree
<1> QED BY <1>2 DEF g

LEMMA DescriptionKeepsSpare ==
  ASSUME NEW f, IsFile(f), SpareIsFree(f), NEW d
  PROVE  SpareIsFree(DescriptionEdited(f, d))
<1> DEFINE g == DescriptionEdited(f, d)
<1>1. \A s \in DOMAIN g.sec :
        \/ s \in DOMAIN f.sec /\ g.sec[s].type = f.sec[s].type
        \/ g.sec[s].type = "STRG"
  BY DescriptionShape
<1> HIDE DEF g
<1>2. SpareIsFree(g) BY <1>1 DEF SpareIsFree
<1> QED BY <1>2 DEF g

=============================================================================
