---------------------------- MODULE LibraryFacts ----------------------------
(***************************************************************************)
(* Facts about operators of the libraries that the proofs share: Min and   *)
(* Max, the recursive FlattenSeq, SumFunctionOnSet and FoldLeft, and what  *)
(* places each entry of a sequence by the number of those before it.  The  *)
(* least element of a set of naturals is how they argue by induction: what *)
(* fails for some number fails for a least one.                            *)
(***************************************************************************)
EXTENDS Integers, Sequences, FiniteSets, SequencesExt, FiniteSetTheorems,
        SequenceTheorems, WellFoundedInduction, TLAPS

(* The order of the naturals is well founded. *)
LEMMA LessIsWellFounded == IsWellFoundedOn({p \in Nat \X Nat : p[1] < p[2]}, Nat)
BY NatLessThanWellFounded DEF OpToRel

(* Every set of naturals that has an element has a least one. *)
LEMMA LeastElement ==
  ASSUME NEW T, T \subseteq Nat, T # {}
  PROVE  \E x \in T : \A y \in T : x <= y
<1> DEFINE R == {p \in Nat \X Nat : p[1] < p[2]}
<1>1. IsWellFoundedOn(R, Nat)
  BY LessIsWellFounded
<1> HIDE DEF R
<1>2. PICK x \in T : \A y \in T : <<y, x>> \notin R
  BY <1>1, WFMin
<1>3. ASSUME NEW y \in T
      PROVE  x <= y
  <2>1. <<y, x>> \notin R
    BY <1>2
  <2> QED BY <2>1 DEF R
<1> QED BY <1>3

(* A set of naturals below a bound has a greatest element: the one that *)
(* leaves least below the bound.                                        *)
LEMMA GreatestElement ==
  ASSUME NEW bound \in Nat, NEW T, T \subseteq 0 .. bound, T # {}
  PROVE  \E x \in T : \A y \in T : y <= x
<1> DEFINE left == {bound - y : y \in T}
<1>1. left \subseteq Nat /\ left # {}
  <2>1. \A y \in T : bound - y \in Nat
    OBVIOUS
  <2>2. PICK t \in T : TRUE
    OBVIOUS
  <2>3. bound - t \in left
    BY <2>2
  <2> QED BY <2>1, <2>3
<1>2. PICK l \in left : \A k \in left : l <= k
  BY <1>1, LeastElement
<1>3. PICK x \in T : l = bound - x
  BY <1>2
<1>4. \A y \in T : y <= x
  <2> TAKE y \in T
  <2>1. l <= bound - y
    BY <1>2
  <2> QED BY <1>3, <2>1
<1> QED BY <1>4

(* What Min and Max of FiniteSetsExt choose. *)
LEMMA MinIsLeast ==
  ASSUME NEW T, T \subseteq Nat, T # {}
  PROVE  Min(T) \in T /\ \A y \in T : Min(T) <= y
<1>1. \E x \in T : \A y \in T : x <= y
  BY LeastElement
<1> QED BY <1>1, Zenon DEF Min

LEMMA MaxIsGreatest ==
  ASSUME NEW bound \in Nat, NEW T, T \subseteq 0 .. bound, T # {}
  PROVE  Max(T) \in T /\ \A y \in T : y <= Max(T)
<1>1. \E x \in T : \A y \in T : x >= y
  <2>1. PICK x \in T : \A y \in T : y <= x
    BY GreatestElement
  <2> QED BY <2>1
<1>2. Max(T) \in T /\ \A y \in T : Max(T) >= y
  BY <1>1, Zenon DEF Max
<1> QED BY <1>2

(* Finitely many naturals have a bound. *)
LEMMA BoundedValues ==
  ASSUME NEW n \in Nat, NEW f, \A i \in 1 .. n : f[i] \in Nat
  PROVE  \E b \in Nat : \A i \in 1 .. n : f[i] <= b
<1> DEFINE Bounds(b, k) == \A i \in 1 .. k : f[i] <= b
           bad == {k \in 0 .. n : ~ \E b \in Nat : Bounds(b, k)}
<1>1. SUFFICES ASSUME bad # {} PROVE FALSE
  <2>1. ASSUME bad = {} PROVE \E b \in Nat : Bounds(b, n)
    <3>1. n \in 0 .. n
      OBVIOUS
    <3>2. n \notin bad
      <4> HIDE DEF bad
      <4> QED BY <2>1
    <3> HIDE DEF Bounds
    <3> QED BY <3>1, <3>2
  <2> QED BY <2>1
<1>2. PICK k \in bad : \A j \in bad : k <= j
  <2>1. bad \subseteq Nat
    OBVIOUS
  <2> HIDE DEF bad
  <2> QED BY <1>1, <2>1, LeastElement
<1>3. k \in 0 .. n /\ ~ \E b \in Nat : Bounds(b, k)
  BY <1>2
<1>4. k # 0
  <2>1. Bounds(0, 0)
    OBVIOUS
  <2> QED BY <1>3, <2>1
<1>5. k - 1 \in 0 .. n /\ k - 1 \notin bad
  <2>1. ASSUME k - 1 \in bad PROVE FALSE
    <3>1. k <= k - 1
      BY <1>2, <2>1
    <3> QED BY <1>3, <3>1
  <2> QED BY <1>3, <1>4, <2>1
<1>6. PICK b \in Nat : Bounds(b, k - 1)
  BY <1>5
<1>7. f[k] \in Nat /\ \A i \in 1 .. k : i = k \/ i \in 1 .. k - 1
  BY <1>3, <1>4
<1>8. b + f[k] \in Nat /\ Bounds(b + f[k], k)
  <2>1. ASSUME NEW i \in 1 .. k PROVE f[i] <= b + f[k]
    <3>1. f[i] \in Nat
      BY <1>3
    <3>2. CASE i = k
      BY <1>7, <3>2
    <3>3. CASE i \in 1 .. k - 1
      BY <1>6, <1>7, <3>1, <3>3
    <3> QED BY <1>7, <3>2, <3>3
  <2> QED BY <1>7, <2>1
<1> QED BY <1>3, <1>8

LEMMA MinOfTwo ==
  ASSUME NEW a \in Nat, NEW b \in Nat
  PROVE  Min({a, b}) \in {a, b} /\ Min({a, b}) <= a /\ Min({a, b}) <= b
BY MinIsLeast
-----------------------------------------------------------------------------
(***************************************************************************)
(* FlattenSeq                                                              *)
(***************************************************************************)

(* The recursion of FlattenSeq has a solution for every length. *)
LEMMA FlattenExists ==
  ASSUME NEW rows, NEW n \in Nat
  PROVE  \E h : h = [i \in 1 .. n |-> IF i = 1 THEN rows[i] ELSE h[i - 1] \o rows[i]]
<1> DEFINE Solves(h, k) == h = [i \in 1 .. k |-> IF i = 1 THEN rows[i] ELSE h[i - 1] \o rows[i]]
           bad == {k \in Nat : ~ \E h : Solves(h, k)}
<1>1. SUFFICES ASSUME bad # {} PROVE FALSE
  OBVIOUS
<1>2. PICK k \in bad : \A j \in bad : k <= j
  BY <1>1, LeastElement
<1>3. k # 0
  <2> DEFINE none == [i \in 1 .. 0 |-> rows[i]]
  <2>1. Solves(none, 0)
    OBVIOUS
  <2> QED BY <2>1, <1>2
<1>4. PICK h : Solves(h, k - 1)
  <2> HIDE DEF Solves
  <2>1. k - 1 \in Nat /\ ~(k <= k - 1)
    BY <1>2, <1>3
  <2>2. k - 1 \notin bad
    BY <1>2, <2>1
  <2> QED BY <2>1, <2>2
<1> DEFINE g == [i \in 1 .. k |-> IF i = 1 THEN rows[i] ELSE h[i - 1] \o rows[i]]
<1>5. \A i \in 1 .. k - 1 : g[i] = h[i]
  <2> TAKE i \in 1 .. k - 1
  <2>1. h[i] = IF i = 1 THEN rows[i] ELSE h[i - 1] \o rows[i]
    BY <1>4
  <2>2. i \in 1 .. k
    BY <1>2
  <2> QED BY <2>1, <2>2
<1>6. \A i \in 1 .. k : g[i] = IF i = 1 THEN rows[i] ELSE g[i - 1] \o rows[i]
  <2> TAKE i \in 1 .. k
  <2>1. g[i] = IF i = 1 THEN rows[i] ELSE h[i - 1] \o rows[i]
    OBVIOUS
  <2>2. i # 1 => i - 1 \in 1 .. k - 1
    BY <1>2
  <2> HIDE DEF g
  <2> QED BY <2>1, <2>2, <1>5
<1>7. g = [i \in 1 .. k |-> g[i]]
  OBVIOUS
<1> HIDE DEF g
<1>8. Solves(g, k)
  BY <1>6, <1>7
<1> QED BY <1>8, <1>2

(* The rows lie one after the other in flat: where each of them starts, and *)
(* that every place of the whole is one of a row.                           *)
LaysOut(start, rows, flat) ==
  /\ start \in [1 .. Len(rows) + 1 -> Nat] /\ start[1] = 0
  /\ \A m \in 1 .. Len(rows) : start[m + 1] = start[m] + Len(rows[m])
  /\ Len(flat) = start[Len(rows) + 1]
  /\ \A m \in 1 .. Len(rows) : \A e \in 1 .. Len(rows[m]) :
       start[m] + e \in 1 .. Len(flat) /\ flat[start[m] + e] = rows[m][e]
  /\ \A k \in 1 .. Len(flat) :
       \E m \in 1 .. Len(rows) : \E e \in 1 .. Len(rows[m]) : k = start[m] + e

LEMMA FlattenFacts ==
  ASSUME NEW S, NEW rows \in Seq(Seq(S))
  PROVE  FlattenSeq(rows) \in Seq(S) /\ \E start : LaysOut(start, rows, FlattenSeq(rows))
<1> DEFINE N == Len(rows)
<1>1. N \in Nat /\ \A m \in 1 .. N : rows[m] \in Seq(S) /\ Len(rows[m]) \in Nat
  OBVIOUS
<1>2. CASE N = 0
  <2>1. FlattenSeq(rows) = rows /\ rows = <<>>
    BY <1>2 DEF FlattenSeq
  <2> DEFINE start == [m \in 1 .. 1 |-> 0]
  <2>2. start \in [1 .. N + 1 -> Nat] /\ start[1] = 0 /\ <<>> \in Seq(S) /\ Len(<<>>) = 0
    BY <1>2
  <2> HIDE DEF start
  <2>3. LaysOut(start, rows, FlattenSeq(rows))
    BY <2>1, <2>2, <1>2 DEF LaysOut
  <2> QED BY <2>1, <2>2, <2>3
<1>3. CASE N # 0
  <2> DEFINE H == CHOOSE h : h = [i \in 1 .. N |-> IF i = 1 THEN rows[i] ELSE h[i - 1] \o rows[i]]
  <2>1. H = [i \in 1 .. N |-> IF i = 1 THEN rows[i] ELSE H[i - 1] \o rows[i]]
    BY <1>1, FlattenExists, Zenon
  <2>2. FlattenSeq(rows) = H[N]
    BY <1>3, Zenon DEF FlattenSeq
  <2> HIDE DEF H, N
  <2>3. \A i \in 1 .. N : H[i] = IF i = 1 THEN rows[i] ELSE H[i - 1] \o rows[i]
    BY <2>1
  <2> DEFINE start == [m \in 1 .. N + 1 |-> IF m = 1 THEN 0 ELSE Len(H[m - 1])]
  <2>4. start[1] = 0 /\ \A i \in 1 .. N : start[i + 1] = Len(H[i])
    BY <1>1
  <2> HIDE DEF start
  <2> DEFINE Good(i) ==
        /\ H[i] \in Seq(S) /\ Len(H[i]) \in Nat /\ start[i] \in Nat
        /\ Len(H[i]) = start[i] + Len(rows[i])
        /\ \A m \in 1 .. i : \A e \in 1 .. Len(rows[m]) :
             start[m] + e \in 1 .. Len(H[i]) /\ H[i][start[m] + e] = rows[m][e]
        /\ \A k \in 1 .. Len(H[i]) :
             \E m \in 1 .. i : \E e \in 1 .. Len(rows[m]) : k = start[m] + e
  <2>5. Good(1)
    <3>0. 1 \in 1 .. N
      BY <1>1, <1>3
    <3>1. 1 \in 1 .. N /\ H[1] = rows[1] /\ start[1] = 0
      BY <2>3, <2>4, <3>0
    <3>2. rows[1] \in Seq(S) /\ Len(rows[1]) \in Nat
      BY <1>1, <3>1
    <3>3. /\ H[1] \in Seq(S) /\ Len(H[1]) \in Nat /\ start[1] \in Nat
          /\ Len(H[1]) = start[1] + Len(rows[1])
      BY <3>1, <3>2
    <3>4. ASSUME NEW m \in 1 .. 1, NEW e \in 1 .. Len(rows[m])
          PROVE  start[m] + e \in 1 .. Len(H[1]) /\ H[1][start[m] + e] = rows[m][e]
      <4>1. m = 1 /\ start[m] + e = e /\ e \in 1 .. Len(rows[1])
        BY <3>1
      <4> QED BY <3>1, <4>1
    <3>5. ASSUME NEW k \in 1 .. Len(H[1])
          PROVE  \E m \in 1 .. 1 : \E e \in 1 .. Len(rows[m]) : k = start[m] + e
      <4>1. k \in 1 .. Len(rows[1]) /\ k = start[1] + k /\ 1 \in 1 .. 1
        BY <3>1
      <4> QED BY <4>1
    <3> QED BY <3>3, <3>4, <3>5
  <2>6. ASSUME NEW i \in 2 .. N, \A j \in 1 .. i - 1 : Good(j)
        PROVE  Good(i)
    <3>1. i \in 1 .. N /\ i - 1 \in 1 .. N /\ i # 1
      BY <1>1, <2>6
    <3>2. Good(i - 1)
      <4>1. i - 1 \in 1 .. i - 1
        BY <3>1
      <4> HIDE DEF Good
      <4> QED BY <2>6, <4>1
    <3>3. H[i] = H[i - 1] \o rows[i] /\ start[i] = Len(H[i - 1])
      <4>1. start[(i - 1) + 1] = Len(H[i - 1]) /\ (i - 1) + 1 = i
        BY <2>4, <3>1
      <4> QED BY <2>3, <3>1, <4>1
    <3> DEFINE old == H[i - 1]
               new == rows[i]
    <3>4. /\ old \in Seq(S) /\ new \in Seq(S) /\ Len(old) \in Nat /\ Len(new) \in Nat
          /\ start[i] = Len(old) /\ H[i] = old \o new
      BY <1>1, <3>1, <3>2, <3>3
    <3>5. \A m \in 1 .. i - 1 : \A e \in 1 .. Len(rows[m]) :
             start[m] + e \in 1 .. Len(old) /\ old[start[m] + e] = rows[m][e]
      BY <3>2
    <3>6. \A k \in 1 .. Len(old) :
             \E m \in 1 .. i - 1 : \E e \in 1 .. Len(rows[m]) : k = start[m] + e
      BY <3>2
    <3> HIDE DEF old, new
    <3>7. /\ H[i] \in Seq(S) /\ Len(H[i]) = Len(old) + Len(new)
          /\ \A k \in 1 .. Len(old) + Len(new) :
               H[i][k] = IF k <= Len(old) THEN old[k] ELSE new[k - Len(old)]
      BY <3>4, ConcatProperties
    <3>8. ASSUME NEW m \in 1 .. i, NEW e \in 1 .. Len(rows[m])
          PROVE  start[m] + e \in 1 .. Len(H[i]) /\ H[i][start[m] + e] = rows[m][e]
      <4>1. CASE m \in 1 .. i - 1
        <5>1. start[m] + e \in 1 .. Len(old) /\ old[start[m] + e] = rows[m][e]
          BY <4>1, <3>5
        <5>2. start[m] + e \in 1 .. Len(old) + Len(new) /\ start[m] + e <= Len(old)
          BY <5>1, <3>4
        <5> QED BY <5>1, <5>2, <3>7
      <4>2. CASE m = i
        <5> DEFINE k == start[m] + e
        <5>1. k = Len(old) + e /\ e \in 1 .. Len(new)
          BY <4>2, <3>4 DEF new
        <5> HIDE DEF k
        <5>2. k \in 1 .. Len(old) + Len(new) /\ ~(k <= Len(old)) /\ k - Len(old) = e
          BY <5>1, <3>4
        <5>3. k \in 1 .. Len(H[i]) /\ H[i][k] = new[e]
          BY <5>2, <3>7
        <5>4. start[m] + e \in 1 .. Len(H[i]) /\ H[i][start[m] + e] = new[e]
          BY <5>3 DEF k
        <5> QED BY <5>4, <4>2 DEF new
      <4> QED BY <4>1, <4>2, <3>1
    <3>9. ASSUME NEW k \in 1 .. Len(H[i])
          PROVE  \E m \in 1 .. i : \E e \in 1 .. Len(rows[m]) : k = start[m] + e
      <4>1. CASE k \in 1 .. Len(old)
        <5>1. PICK m \in 1 .. i - 1 : \E e \in 1 .. Len(rows[m]) : k = start[m] + e
          BY <4>1, <3>6
        <5>2. m \in 1 .. i
          BY <3>1
        <5> QED BY <5>1, <5>2
      <4>2. CASE k \notin 1 .. Len(old)
        <5>1. k \in 1 .. Len(old) + Len(rows[i]) /\ start[i] = Len(old)
          BY <3>4, <3>7 DEF new
        <5>2. k - Len(old) \in 1 .. Len(rows[i]) /\ k = Len(old) + (k - Len(old))
          BY <4>2, <5>1, <3>4 DEF new
        <5>3. i \in 1 .. i
          BY <3>1
        <5> QED BY <5>1, <5>2, <5>3
      <4> QED BY <4>1, <4>2
    <3> QED BY <3>4, <3>7, <3>8, <3>9 DEF new
  <2>7. \A i \in 1 .. N : Good(i)
    <3> HIDE DEF Good
    <3> DEFINE bad == {i \in 1 .. N : ~ Good(i)}
    <3>1. SUFFICES ASSUME bad # {} PROVE FALSE
      OBVIOUS
    <3>2. bad \subseteq Nat
      OBVIOUS
    <3>3. PICK i \in bad : \A j \in bad : i <= j
      BY <3>1, <3>2, LeastElement
    <3>4. i # 1 /\ i \in 2 .. N
      BY <2>5, <3>3, <1>1
    <3>5. \A j \in 1 .. i - 1 : Good(j)
      <4> TAKE j \in 1 .. i - 1
      <4>1. j \in 1 .. N /\ ~(i <= j)
        BY <3>4, <1>1
      <4> QED BY <3>3, <4>1
    <3> QED BY <2>6, <3>3, <3>4, <3>5
  <2>8. \A i \in 1 .. N : start[i] \in Nat /\ Len(H[i]) \in Nat
                           /\ start[i + 1] = start[i] + Len(rows[i])
    BY <2>7, <2>4
  <2>9. start \in [1 .. N + 1 -> Nat]
    <3>1. \A m \in 1 .. N + 1 : start[m] \in Nat
      <4> TAKE m \in 1 .. N + 1
      <4>1. CASE m \in 1 .. N
        BY <4>1, <2>8
      <4>2. CASE m = N + 1
        <5>1. N \in 1 .. N
          BY <1>1, <1>3
        <5> QED BY <5>1, <4>2, <2>4, <2>8
      <4> QED BY <4>1, <4>2, <1>1
    <3> QED BY <3>1 DEF start
  <2>10. Good(N) /\ start[N + 1] = Len(H[N])
    <3> HIDE DEF Good
    <3>1. N \in 1 .. N
      BY <1>1, <1>3
    <3> QED BY <3>1, <2>4, <2>7
  <2>11. start[1] = 0 /\ \A m \in 1 .. Len(rows) : start[m + 1] = start[m] + Len(rows[m])
    BY <2>4, <2>8 DEF N
  <2>12. FlattenSeq(rows) \in Seq(S) /\ Len(FlattenSeq(rows)) = start[Len(rows) + 1]
    BY <2>2, <2>10 DEF N
  <2>13. \A m \in 1 .. Len(rows) : \A e \in 1 .. Len(rows[m]) :
            /\ start[m] + e \in 1 .. Len(FlattenSeq(rows))
            /\ FlattenSeq(rows)[start[m] + e] = rows[m][e]
    BY <2>2, <2>10 DEF N
  <2>14. \A k \in 1 .. Len(FlattenSeq(rows)) :
            \E m \in 1 .. Len(rows) : \E e \in 1 .. Len(rows[m]) : k = start[m] + e
    BY <2>2, <2>10 DEF N
  <2>15. start \in [1 .. Len(rows) + 1 -> Nat]
    BY <2>9 DEF N
  <2> HIDE DEF Good
  <2>16. LaysOut(start, rows, FlattenSeq(rows))
    BY <2>11, <2>12, <2>13, <2>14, <2>15, Zenon DEF LaysOut
  <2> QED BY <2>12, <2>16
<1> QED BY <1>2, <1>3
-----------------------------------------------------------------------------
(***************************************************************************)
(* SumFunctionOnSet                                                           *)
(***************************************************************************)

(* As many cells in row i as w says: a sum of numbers is how many cells there are. *)
Cells(w, rows) == {c \in rows \X Nat : c[2] \in 1 .. w[c[1]]}

LEMMA NoCells ==
  ASSUME NEW w
  PROVE  IsFiniteSet(Cells(w, {})) /\ Cardinality(Cells(w, {})) = 0
<1>1. Cells(w, {}) = {}
  BY DEF Cells
<1> QED BY <1>1, FS_EmptySet

(* One row more. *)
LEMMA CellsOfRow ==
  ASSUME NEW w, NEW rows, NEW x \in rows, w[x] \in Nat, IsFiniteSet(Cells(w, rows \ {x}))
  PROVE  /\ IsFiniteSet(Cells(w, rows))
         /\ Cardinality(Cells(w, rows)) = w[x] + Cardinality(Cells(w, rows \ {x}))
<1> DEFINE row == {x} \X (1 .. w[x])
           others == Cells(w, rows \ {x})
<1>1. IsFiniteSet(row) /\ Cardinality(row) = w[x]
  <2>1. IsFiniteSet({x}) /\ Cardinality({x}) = 1
    BY FS_Singleton
  <2>2. IsFiniteSet(1 .. w[x]) /\ Cardinality(1 .. w[x]) = w[x]
    BY FS_Interval
  <2>3. IsFiniteSet(row) /\ Cardinality(row) = Cardinality({x}) * Cardinality(1 .. w[x])
    BY <2>1, <2>2, FS_Product
  <2>4. 1 * w[x] = w[x]
    OBVIOUS
  <2> QED BY <2>1, <2>2, <2>3, <2>4
<1>2. Cells(w, rows) = row \cup others /\ row \cap others = {}
  BY DEF Cells
<1>3. Cardinality(others) \in Nat
  BY FS_CardinalityType
<1> HIDE DEF row, others
<1>4. IsFiniteSet(others)
  BY DEF others
<1>5. /\ IsFiniteSet(row \cup others)
      /\ Cardinality(row \cup others)
           = Cardinality(row) + Cardinality(others) - Cardinality(row \cap others)
  BY <1>1, <1>4, FS_Union
<1>6. Cardinality(row \cap others) = 0
  BY <1>2, FS_EmptySet
<1>7. IsFiniteSet(Cells(w, rows)) /\ Cardinality(Cells(w, rows)) = w[x] + Cardinality(others)
  BY <1>1, <1>2, <1>3, <1>5, <1>6
<1> QED BY <1>7 DEF others

LEMMA RowByRow ==
  \A w, s : \A y \in s :
    w[y] \in Nat /\ IsFiniteSet(Cells(w, s \ {y})) =>
      /\ IsFiniteSet(Cells(w, s))
      /\ Cardinality(Cells(w, s)) = w[y] + Cardinality(Cells(w, s \ {y}))
BY CellsOfRow

(* The recursion of SumFunctionOnSet, over any way of choosing, counts the cells. *)
LEMMA CellsAreFinite ==
  ASSUME NEW w, NEW S, IsFiniteSet(S), \A i \in S : w[i] \in Nat
  PROVE  \A s \in SUBSET S : IsFiniteSet(Cells(w, s))
<1> DEFINE bad == {n \in Nat : \E s \in SUBSET S : Cardinality(s) = n /\ ~ IsFiniteSet(Cells(w, s))}
<1>1. \A s \in SUBSET S : IsFiniteSet(s) /\ Cardinality(s) \in Nat
  BY FS_Subset, FS_CardinalityType
<1>2. SUFFICES ASSUME bad # {} PROVE FALSE
  BY <1>1
<1>3. PICK n \in bad : \A k \in bad : n <= k
  BY <1>2, LeastElement
<1>4. PICK s \in SUBSET S : Cardinality(s) = n /\ ~ IsFiniteSet(Cells(w, s))
  BY <1>3
<1>5. PICK x \in s : TRUE
  BY <1>4, NoCells
<1>6. /\ s \ {x} \in SUBSET S
      /\ Cardinality(s \ {x}) = n - 1 /\ n - 1 \in Nat
  <2>1. IsFiniteSet(s) /\ IsFiniteSet(s \ {x}) /\ Cardinality(s \ {x}) \in Nat
    BY <1>1
  <2>2. Cardinality(s \ {x}) = n - 1
    BY <2>1, <1>4, <1>5, FS_RemoveElement
  <2> QED BY <2>1, <2>2
<1>7. IsFiniteSet(Cells(w, s \ {x}))
  <2>1. n - 1 \notin bad
    BY <1>3, <1>6
  <2> QED BY <2>1, <1>6
<1> QED BY <1>4, <1>5, <1>7, CellsOfRow

LEMMA SumIsCells ==
  ASSUME NEW w, NEW S, IsFiniteSet(S), \A i \in S : w[i] \in Nat, NEW sum,
         \A s \in SUBSET S :
           sum[s] = IF s = {} THEN 0
                    ELSE w[CHOOSE x \in s : TRUE] + sum[s \ {CHOOSE x \in s : TRUE}]
  PROVE  \A s \in SUBSET S : sum[s] = Cardinality(Cells(w, s))
<1> DEFINE bad == {n \in Nat : \E s \in SUBSET S : Cardinality(s) = n
                                                   /\ sum[s] # Cardinality(Cells(w, s))}
<1>1. \A s \in SUBSET S : IsFiniteSet(s) /\ Cardinality(s) \in Nat
  BY FS_Subset, FS_CardinalityType
<1>2. SUFFICES ASSUME bad # {} PROVE FALSE
  BY <1>1
<1>3. PICK n \in bad : \A k \in bad : n <= k
  BY <1>2, LeastElement
<1>4. PICK s \in SUBSET S : Cardinality(s) = n /\ sum[s] # Cardinality(Cells(w, s))
  BY <1>3
<1>5. s # {}
  BY <1>4, NoCells
<1> DEFINE x == CHOOSE y \in s : TRUE
<1>6. x \in s /\ x \in S
  BY <1>5, <1>4
<1>7. sum[s] = w[x] + sum[s \ {x}]
  BY <1>5, <1>4
<1> HIDE DEF x
<1>8. /\ s \ {x} \in SUBSET S
      /\ Cardinality(s \ {x}) = n - 1 /\ n - 1 \in Nat
  <2>1. IsFiniteSet(s) /\ IsFiniteSet(s \ {x}) /\ Cardinality(s \ {x}) \in Nat
    BY <1>1
  <2>2. Cardinality(s \ {x}) = n - 1
    BY <2>1, <1>4, <1>6, FS_RemoveElement
  <2> QED BY <2>1, <2>2
<1>9. sum[s \ {x}] = Cardinality(Cells(w, s \ {x}))
  <2>1. n - 1 \notin bad
    BY <1>3, <1>8
  <2> QED BY <2>1, <1>8
<1>10. IsFiniteSet(Cells(w, s \ {x}))
  BY <1>8, CellsAreFinite
<1> QED BY <1>4, <1>6, <1>7, <1>9, <1>10, CellsOfRow

(* The recursion of SumFunctionOnSet over the numbers w, which has a solution. *)
Sums(sum, w, S) ==
  sum = [s \in SUBSET S |-> IF s = {} THEN 0
                            ELSE w[CHOOSE x \in s : TRUE] + sum[s \ {CHOOSE x \in s : TRUE}]]

LEMMA SumExists ==
  ASSUME NEW w, NEW S, IsFiniteSet(S), \A i \in S : w[i] \in Nat
  PROVE  \E sum : Sums(sum, w, S)
<1> DEFINE sum == [s \in SUBSET S |-> Cardinality(Cells(w, s))]
<1>1. ASSUME NEW s \in SUBSET S
      PROVE  sum[s] = IF s = {} THEN 0
                      ELSE w[CHOOSE x \in s : TRUE] + sum[s \ {CHOOSE x \in s : TRUE}]
  <2>1. CASE s = {}
    BY <2>1, NoCells
  <2>2. CASE s # {}
    <3> DEFINE x == CHOOSE y \in s : TRUE
    <3>1. x \in s /\ w[x] \in Nat /\ s \ {x} \in SUBSET S
      BY <2>2
    <3> HIDE DEF x
    <3>2. IsFiniteSet(Cells(w, s \ {x}))
      BY <3>1, CellsAreFinite
    <3>3. Cardinality(Cells(w, s)) = w[x] + Cardinality(Cells(w, s \ {x}))
      BY <3>1, <3>2, CellsOfRow
    <3>4. sum[s] = w[x] + sum[s \ {x}]
      BY <3>1, <3>3
    <3> QED BY <3>4, <2>2 DEF x
  <2> QED BY <2>1, <2>2
<1>2. sum = [s \in SUBSET S |-> sum[s]]
  OBVIOUS
<1> HIDE DEF sum
<1>3. Sums(sum, w, S)
  BY <1>1, <1>2, Zenon DEF Sums
<1> QED BY <1>3

(* SumFunctionOnSet counts the cells of the rows it is given. *)
LEMMA SumOfRows ==
  ASSUME NEW w, NEW S, IsFiniteSet(S), \A i \in S : w[i] \in Nat
  PROVE  SumFunctionOnSet(w, S) = Cardinality(Cells(w, S))
<1> DEFINE sum == CHOOSE h : Sums(h, w, S)
<1>1. Sums(sum, w, S)
  <2>1. \E h : Sums(h, w, S)
    BY SumExists
  <2> QED BY <2>1, Zenon
<1>2. SumFunctionOnSet(w, S) = sum[S]
  BY Zenon DEF SumFunctionOnSet, FoldFunctionOnSet, MapThenFoldSet, Sums
<1> HIDE DEF sum
<1>3. \A s \in SUBSET S :
        sum[s] = IF s = {} THEN 0
                 ELSE w[CHOOSE x \in s : TRUE] + sum[s \ {CHOOSE x \in s : TRUE}]
  BY <1>1, Zenon DEF Sums
<1>4. sum[S] = Cardinality(Cells(w, S))
  <2>1. \A s \in SUBSET S : sum[s] = Cardinality(Cells(w, s))
    BY <1>3, SumIsCells
  <2> QED BY <2>1
<1> QED BY <1>2, <1>4

(* The numbers before each place of a sequence: the partial sums. *)
Accumulates(start, w, n) ==
  /\ \A i \in 1 .. n : w[i] \in Nat
  /\ start[1] = 0 /\ \A m \in 1 .. n : start[m + 1] = start[m] + w[m]

SumsBefore(start, w, n) ==
  \A m \in 1 .. n + 1 : SumFunctionOnSet(w, 1 .. m - 1) = start[m]

LEMMA PartialSums ==
  ASSUME NEW n \in Nat, NEW w, NEW start, Accumulates(start, w, n)
  PROVE  SumsBefore(start, w, n)
<1>0. /\ \A i \in 1 .. n : w[i] \in Nat
      /\ start[1] = 0 /\ \A m \in 1 .. n : start[m + 1] = start[m] + w[m]
  BY DEF Accumulates
<1> DEFINE bad == {m \in 1 .. n + 1 : SumFunctionOnSet(w, 1 .. m - 1) # start[m]}
<1>1. \A m \in 1 .. n + 1 :
        /\ IsFiniteSet(1 .. m - 1) /\ \A i \in 1 .. m - 1 : w[i] \in Nat
  <2> TAKE m \in 1 .. n + 1
  <2>1. IsFiniteSet(1 .. m - 1)
    BY FS_Interval
  <2>2. \A i \in 1 .. m - 1 : i \in 1 .. n
    OBVIOUS
  <2> QED BY <1>0, <2>1, <2>2
<1>2. \A m \in 1 .. n + 1 : SumFunctionOnSet(w, 1 .. m - 1) = Cardinality(Cells(w, 1 .. m - 1))
  BY <1>1, SumOfRows
<1>3. SUFFICES ASSUME bad # {} PROVE FALSE
  BY DEF SumsBefore
<1>4. bad \subseteq Nat
  OBVIOUS
<1>5. PICK m \in bad : \A k \in bad : m <= k
  BY <1>3, <1>4, LeastElement
<1>6. m \in 1 .. n + 1 /\ Cardinality(Cells(w, 1 .. m - 1)) # start[m]
  BY <1>2, <1>5
<1>7. m # 1
  <2>1. 1 .. 1 - 1 = {}
    OBVIOUS
  <2> QED BY <1>0, <2>1, <1>6, NoCells
<1>8. /\ m - 1 \in 1 .. n /\ m - 1 \in 1 .. n + 1 /\ m - 1 \notin bad
      /\ (m - 1) + 1 = m /\ w[m - 1] \in Nat
  <2>1. /\ m - 1 \in 1 .. n /\ m - 1 \in 1 .. n + 1 /\ ~(m <= m - 1)
        /\ (m - 1) + 1 = m /\ w[m - 1] \in Nat
    BY <1>0, <1>6, <1>7
  <2> QED BY <2>1, <1>5
<1>9. Cardinality(Cells(w, 1 .. (m - 1) - 1)) = start[m - 1]
  BY <1>2, <1>8
<1>10. (1 .. m - 1) \ {m - 1} = 1 .. (m - 1) - 1 /\ m - 1 \in 1 .. m - 1
  BY <1>6, <1>7
<1>11. IsFiniteSet(Cells(w, 1 .. (m - 1) - 1))
  BY <1>8, <1>1, CellsAreFinite
<1>12. Cardinality(Cells(w, 1 .. m - 1))
         = w[m - 1] + Cardinality(Cells(w, 1 .. (m - 1) - 1))
  <2> DEFINE upto == 1 .. m - 1
             last == m - 1
  <2>1. IsFiniteSet(Cells(w, upto \ {last}))
    BY <1>10, <1>11
  <2>2. last \in upto /\ w[last] \in Nat
    BY <1>8, <1>10
  <2> HIDE DEF upto, last
  <2>3. /\ IsFiniteSet(Cells(w, upto))
        /\ Cardinality(Cells(w, upto)) = w[last] + Cardinality(Cells(w, upto \ {last}))
    <3>1. \A s : \A y \in s :
            w[y] \in Nat /\ IsFiniteSet(Cells(w, s \ {y})) =>
              /\ IsFiniteSet(Cells(w, s))
              /\ Cardinality(Cells(w, s)) = w[y] + Cardinality(Cells(w, s \ {y}))
      BY RowByRow, Zenon
    <3> QED BY <2>1, <2>2, <3>1, Zenon
  <2> QED BY <2>3, <1>10 DEF upto, last
<1>13. Cardinality(Cells(w, 1 .. (m - 1) - 1)) \in Nat
  BY <1>11, FS_CardinalityType
<1>14. start[m] = start[m - 1] + w[m - 1]
  BY <1>0, <1>8
<1> QED BY <1>6, <1>8, <1>9, <1>12, <1>13, <1>14
-----------------------------------------------------------------------------
(***************************************************************************)
(* FoldLeft                                                                *)
(***************************************************************************)

(* What holds of the first place of a row and of the place after each that  *)
(* it holds of holds of every place.                                        *)
LEMMA Stepwise ==
  ASSUME NEW n \in Nat, NEW good, 1 \in good, \A k \in 1 .. n : k \in good => k + 1 \in good
  PROVE  \A k \in 1 .. n + 1 : k \in good
<1> DEFINE bad == {k \in 1 .. n + 1 : k \notin good}
<1>1. SUFFICES ASSUME bad # {} PROVE FALSE
  OBVIOUS
<1>2. PICK k \in bad : \A j \in bad : k <= j
  <2>1. bad \subseteq Nat
    OBVIOUS
  <2> HIDE DEF bad
  <2> QED BY <1>1, <2>1, LeastElement
<1>3. k \in 1 .. n + 1 /\ k \notin good /\ k # 1
  BY <1>2
<1>4. k - 1 \in 1 .. n /\ (k - 1) + 1 = k /\ k - 1 \notin bad
  BY <1>2, <1>3
<1>5. k - 1 \in good
  BY <1>4
<1> QED BY <1>3, <1>4, <1>5

(* h folds the steps over every set of places, the last place last. *)
FoldsPlaces(h, base, step, n, size) ==
  \A t \in SUBSET (1 .. n) :
    Cardinality(t) <= size =>
      h[t] = IF t = {} THEN base ELSE step[<<h[t \ {Max(t)}], Max(t)>>]

(* The last of some places. *)
LEMMA MaxOfPlaces ==
  ASSUME NEW n \in Nat, NEW t \in SUBSET (1 .. n), t # {}
  PROVE  Max(t) \in t /\ Max(t) \in 1 .. n /\ t \ {Max(t)} \in SUBSET (1 .. n)
<1>1. t \subseteq 0 .. n
  OBVIOUS
<1>2. Max(t) \in t
  BY <1>1, MaxIsGreatest
<1> QED BY <1>2

(* The recursion of FoldLeft has a solution whenever its steps stay in a set. *)
StepsIn(A, step, n) == \A a \in A, i \in 1 .. n : step[<<a, i>>] \in A

Folds(h, A, base, step, n) ==
  /\ h \in [SUBSET (1 .. n) -> A]
  /\ \A t \in SUBSET (1 .. n) :
       h[t] = IF t = {} THEN base ELSE step[<<h[t \ {Max(t)}], Max(t)>>]

LEMMA FoldExists ==
  ASSUME NEW A, NEW base \in A, NEW n \in Nat, NEW step, StepsIn(A, step, n)
  PROVE  \E h : Folds(h, A, base, step, n)
<1> DEFINE Places == SUBSET (1 .. n)
           Solves(h, m) == h \in [Places -> A] /\ FoldsPlaces(h, base, step, n, m)
           bad == {m \in Nat : ~ \E h : Solves(h, m)}
<1>1. \A t \in Places :
        /\ IsFiniteSet(t) /\ Cardinality(t) \in 0 .. n
        /\ t # {} => /\ Max(t) \in t /\ Max(t) \in 1 .. n
                     /\ t \ {Max(t)} \in Places
                     /\ Cardinality(t \ {Max(t)}) = Cardinality(t) - 1
        /\ Cardinality(t) = 0 => t = {}
  <2> TAKE t \in Places
  <2>1. IsFiniteSet(1 .. n) /\ Cardinality(1 .. n) = n
    BY FS_Interval
  <2>2. IsFiniteSet(t) /\ Cardinality(t) \in Nat /\ Cardinality(t) <= n
    BY <2>1, FS_Subset, FS_CardinalityType
  <2>3. Cardinality(t) = 0 => t = {}
    BY <2>2, FS_EmptySet
  <2>4. ASSUME t # {}
        PROVE  /\ Max(t) \in t /\ Max(t) \in 1 .. n /\ t \ {Max(t)} \in Places
               /\ Cardinality(t \ {Max(t)}) = Cardinality(t) - 1
    <3>1. t \subseteq 0 .. n
      OBVIOUS
    <3>2. Max(t) \in t
      BY <2>4, <3>1, MaxIsGreatest
    <3>3. Cardinality(t \ {Max(t)}) = Cardinality(t) - 1
      BY <2>2, <3>2, FS_RemoveElement
    <3> QED BY <3>2, <3>3
  <2> QED BY <2>2, <2>3, <2>4
<1>2. \A m \in Nat : \E h : Solves(h, m)
  <2>1. SUFFICES ASSUME bad # {} PROVE FALSE
    OBVIOUS
  <2>2. PICK m \in bad : \A j \in bad : m <= j
    BY <2>1, LeastElement
  <2>3. m \in Nat /\ ~ \E h : Solves(h, m)
    BY <2>2
  <2>4. m # 0
    <3> DEFINE h == [t \in Places |-> base]
    <3>1. h \in [Places -> A]
      OBVIOUS
    <3>2. ASSUME NEW t \in Places, Cardinality(t) <= 0
          PROVE  h[t] = IF t = {} THEN base ELSE step[<<h[t \ {Max(t)}], Max(t)>>]
      <4>1. Cardinality(t) \in 0 .. n /\ (Cardinality(t) = 0 => t = {})
        BY <1>1, Zenon
      <4>2. Cardinality(t) = 0
        BY <4>1, <3>2
      <4> QED BY <4>1, <4>2
    <3> HIDE DEF h
    <3>3. Solves(h, 0)
      BY <3>1, <3>2 DEF FoldsPlaces
    <3> QED BY <2>3, <3>3
  <2>5. m - 1 \in Nat /\ m - 1 \notin bad
    <3>1. m - 1 \in Nat /\ ~(m <= m - 1)
      BY <2>3, <2>4
    <3> HIDE DEF bad
    <3> QED BY <2>2, <3>1
  <2>6. PICK g : Solves(g, m - 1)
    BY <2>5
  <2> DEFINE h == [t \in Places |->
                     IF t = {} THEN base ELSE step[<<g[t \ {Max(t)}], Max(t)>>]]
  <2>7. h \in [Places -> A]
    <3> SUFFICES ASSUME NEW t \in Places, t # {}
                 PROVE  step[<<g[t \ {Max(t)}], Max(t)>>] \in A
      OBVIOUS
    <3>1. t \ {Max(t)} \in Places /\ Max(t) \in 1 .. n
      BY <1>1
    <3>2. g[t \ {Max(t)}] \in A
      BY <2>6, <3>1
    <3> QED BY <3>1, <3>2 DEF StepsIn
  <2>8. ASSUME NEW t \in Places, Cardinality(t) <= m
        PROVE  h[t] = IF t = {} THEN base ELSE step[<<h[t \ {Max(t)}], Max(t)>>]
    <3>1. CASE t = {}
      BY <3>1
    <3>2. CASE t # {}
      <4> DEFINE r == t \ {Max(t)}
      <4>1. r \in Places /\ Cardinality(r) <= m - 1
        BY <1>1, <2>3, <2>8, <3>2
      <4>2. g[r] = IF r = {} THEN base ELSE step[<<g[r \ {Max(r)}], Max(r)>>]
        BY <2>6, <4>1 DEF FoldsPlaces
      <4>3. h[r] = g[r]
        BY <4>1, <4>2
      <4>4. h[t] = step[<<g[r], Max(t)>>]
        BY <3>2
      <4> QED BY <3>2, <4>3, <4>4
    <3> QED BY <3>1, <3>2
  <2> HIDE DEF h
  <2>9. Solves(h, m)
    BY <2>7, <2>8 DEF FoldsPlaces
  <2> QED BY <2>3, <2>9
<1>3. PICK h : Solves(h, n)
  BY <1>2
<1>4. \A t \in Places : h[t] = IF t = {} THEN base ELSE step[<<h[t \ {Max(t)}], Max(t)>>]
  <2> TAKE t \in Places
  <2>1. Cardinality(t) \in 0 .. n
    BY <1>1, Zenon
  <2>2. Cardinality(t) <= n
    BY <2>1
  <2> QED BY <1>3, <2>2 DEF FoldsPlaces
<1> QED BY <1>3, <1>4 DEF Folds

(* The places before k, with the last of them. *)
LEMMA PlacesUpTo ==
  ASSUME NEW n \in Nat, NEW k \in 1 .. n
  PROVE  /\ 1 .. k \in SUBSET (1 .. n) /\ 1 .. k # {}
         /\ Max(1 .. k) = k /\ (1 .. k) \ {k} = 1 .. k - 1
<1>1. 1 .. k \subseteq 0 .. k /\ 1 .. k # {} /\ k \in 1 .. k
  OBVIOUS
<1>2. Max(1 .. k) \in 1 .. k /\ \A y \in 1 .. k : y <= Max(1 .. k)
  <2> DEFINE S == 1 .. k
  <2>1. S \subseteq 0 .. k /\ S # {} /\ k \in Nat
    BY <1>1
  <2> HIDE DEF S
  <2>2. Max(S) \in S /\ \A y \in S : y <= Max(S)
    BY <2>1, MaxIsGreatest
  <2> QED BY <2>2 DEF S
<1>3. Max(1 .. k) = k
  BY <1>1, <1>2
<1> QED BY <1>1, <1>3

(* A fold is known by what it has read so far.                              *)
LEMMA FoldPrefixes ==
  ASSUME NEW A, NEW base, NEW n \in Nat, NEW step, NEW h, Folds(h, A, base, step, n)
  PROVE  /\ h[1 .. 0] = base
         /\ \A k \in 1 .. n : h[1 .. k] = step[<<h[1 .. k - 1], k>>] /\ h[1 .. k - 1] \in A
         /\ h[1 .. n] \in A
<1>1. /\ h \in [SUBSET (1 .. n) -> A]
      /\ \A t \in SUBSET (1 .. n) :
           h[t] = IF t = {} THEN base ELSE step[<<h[t \ {Max(t)}], Max(t)>>]
  BY DEF Folds
<1>2. h[1 .. 0] = base
  <2>1. 1 .. 0 = {} /\ {} \in SUBSET (1 .. n)
    OBVIOUS
  <2>2. h[{}] = base
    BY <1>1, <2>1
  <2> QED BY <2>1, <2>2
<1>3. ASSUME NEW k \in 1 .. n
      PROVE  h[1 .. k] = step[<<h[1 .. k - 1], k>>]
  <2> DEFINE t == 1 .. k
  <2>1. t \in SUBSET (1 .. n) /\ t # {} /\ Max(t) = k /\ t \ {k} = 1 .. k - 1
    BY PlacesUpTo
  <2> HIDE DEF t
  <2>2. h[t] = step[<<h[t \ {Max(t)}], Max(t)>>]
    BY <1>1, <2>1
  <2>3. h[t] = step[<<h[1 .. k - 1], k>>]
    BY <2>1, <2>2
  <2> QED BY <2>3 DEF t
<1>4. ASSUME NEW k \in 1 .. n
      PROVE  h[1 .. k - 1] \in A
  <2>1. 1 .. k - 1 \in SUBSET (1 .. n)
    OBVIOUS
  <2> QED BY <1>1, <2>1
<1>5. h[1 .. n] \in A
  <2>1. 1 .. n \in SUBSET (1 .. n)
    OBVIOUS
  <2> QED BY <1>1, <2>1
<1> QED BY <1>2, <1>3, <1>4, <1>5

(* Whatever repeats the steps of a fold comes to what the fold comes to.    *)
Repeats(g, A, base, step, n) ==
  /\ g[{}] = base
  /\ \A k \in 1 .. n : g[1 .. k - 1] \in A => g[1 .. k] = step[<<g[1 .. k - 1], k>>]

LEMMA FoldUnique ==
  ASSUME NEW A, NEW base, NEW n \in Nat, NEW step, NEW h, Folds(h, A, base, step, n),
         NEW g, Repeats(g, A, base, step, n)
  PROVE  g[1 .. n] = h[1 .. n]
<1>0. /\ h[1 .. 0] = base
      /\ \A k \in 1 .. n : h[1 .. k] = step[<<h[1 .. k - 1], k>>] /\ h[1 .. k - 1] \in A
      /\ h[1 .. n] \in A
  BY FoldPrefixes
<1> DEFINE good == {k \in 1 .. n + 1 : g[1 .. k - 1] = h[1 .. k - 1]}
<1>1. 1 \in good
  <2>1. 1 .. 1 - 1 = {} /\ 1 .. 0 = {} /\ 1 \in 1 .. n + 1
    OBVIOUS
  <2>2. h[1 .. 0] = base
    BY <1>0
  <2>3. g[1 .. 1 - 1] = h[1 .. 1 - 1]
    BY <2>1, <2>2 DEF Repeats
  <2> QED BY <2>1, <2>3
<1>2. ASSUME NEW k \in 1 .. n, k \in good
      PROVE  k + 1 \in good
  <2>1. g[1 .. k - 1] = h[1 .. k - 1]
    BY <1>2
  <2>2. h[1 .. k] = step[<<h[1 .. k - 1], k>>] /\ h[1 .. k - 1] \in A
    BY <1>0
  <2>3. g[1 .. k] = h[1 .. k]
    BY <2>1, <2>2 DEF Repeats
  <2>4. (k + 1) - 1 = k /\ k + 1 \in 1 .. n + 1
    OBVIOUS
  <2> QED BY <2>3, <2>4
<1>3. n + 1 \in good
  <2>1. n + 1 \in 1 .. n + 1
    OBVIOUS
  <2> HIDE DEF good
  <2> QED BY <1>1, <1>2, <2>1, Stepwise
<1>4. (n + 1) - 1 = n
  OBVIOUS
<1> QED BY <1>3, <1>4

(* The states a fold g goes through, one after each place.                  *)
RunsThrough(s, A, base, step, n, g) ==
  /\ s \in [0 .. n -> A] /\ s[0] = base /\ s[n] = g[1 .. n]
  /\ \A k \in 1 .. n : s[k] = step[<<s[k - 1], k>>]

LEMMA FoldStates ==
  ASSUME NEW A, NEW base \in A, NEW n \in Nat, NEW step, StepsIn(A, step, n),
         NEW g, Repeats(g, A, base, step, n)
  PROVE  \E s : RunsThrough(s, A, base, step, n, g)
<1>1. PICK h : Folds(h, A, base, step, n)
  BY FoldExists
<1>2. /\ h[1 .. 0] = base
      /\ \A k \in 1 .. n : h[1 .. k] = step[<<h[1 .. k - 1], k>>] /\ h[1 .. k - 1] \in A
      /\ h[1 .. n] \in A
  BY <1>1, FoldPrefixes
<1>3. g[1 .. n] = h[1 .. n]
  BY <1>1, FoldUnique
<1> DEFINE s == [k \in 0 .. n |-> h[1 .. k]]
<1>4. ASSUME NEW k \in 0 .. n
      PROVE  h[1 .. k] \in A
  <2>1. CASE k = n
    BY <1>2, <2>1
  <2>2. CASE k # n
    <3>1. k + 1 \in 1 .. n /\ (k + 1) - 1 = k
      BY <2>2
    <3>2. h[1 .. (k + 1) - 1] \in A
      BY <1>2, <3>1
    <3> QED BY <3>1, <3>2
  <2> QED BY <2>1, <2>2
<1>5. s \in [0 .. n -> A] /\ \A k \in 0 .. n : s[k] = h[1 .. k]
  BY <1>4
<1>6. 0 \in 0 .. n /\ n \in 0 .. n /\ \A k \in 1 .. n : k \in 0 .. n /\ k - 1 \in 0 .. n
  OBVIOUS
<1> HIDE DEF s
<1>7. s[0] = base /\ s[n] = g[1 .. n]
  BY <1>2, <1>3, <1>5, <1>6
<1>8. \A k \in 1 .. n : s[k] = step[<<s[k - 1], k>>]
  BY <1>2, <1>5, <1>6
<1> QED BY <1>5, <1>7, <1>8 DEF RunsThrough
-----------------------------------------------------------------------------
(***************************************************************************)
(* Sorting                                                                 *)
(***************************************************************************)

(* Among finitely many places, what never maps two to the same reaches all. *)
OneToOne(f, n) ==
  f \in [1 .. n -> 1 .. n] /\ \A i, j \in 1 .. n : f[i] = f[j] => i = j

LEMMA OneToOneIsOnto ==
  ASSUME NEW n \in Nat, NEW f, OneToOne(f, n)
  PROVE  \A k \in 1 .. n : \E i \in 1 .. n : f[i] = k
<1> DEFINE S == 1 .. n
<1>1. f \in Injection(S, S)
  BY DEF OneToOne, Injection, IsInjective
<1>2. IsFiniteSet(S)
  BY FS_Interval
<1> HIDE DEF S
<1>3. f \in Surjection(S, S)
  BY <1>1, <1>2, FS_Injection
<1> QED BY <1>3 DEF Surjection, S

(* It keeps the number of places of any kind. *)
LEMMA OneToOneCounts ==
  ASSUME NEW n \in Nat, NEW f, OneToOne(f, n), NEW A \in SUBSET (1 .. n), NEW B \in SUBSET (1 .. n),
         \A i \in 1 .. n : i \in A <=> f[i] \in B
  PROVE  Cardinality(A) = Cardinality(B)
<1> DEFINE g == [i \in A |-> f[i]]
<1>1. \A k \in B : \E i \in A : g[i] = k
  <2> TAKE k \in B
  <2>1. PICK i \in 1 .. n : f[i] = k
    BY OneToOneIsOnto
  <2> QED BY <2>1
<1>2. g \in [A -> B] /\ \A i, j \in A : g[i] = g[j] => i = j
  BY DEF OneToOne
<1> HIDE DEF g
<1>3. g \in Bijection(A, B)
  BY <1>1, <1>2 DEF Bijection, Injection, Surjection, IsInjective
<1>4. IsFiniteSet(1 .. n)
  BY FS_Interval
<1>5. IsFiniteSet(A)
  BY <1>4, FS_Subset
<1>6. ExistsBijection(A, B)
  BY <1>3 DEF ExistsBijection
<1> QED BY <1>5, <1>6, FS_Bijection

(* The rank of a place is how many are before it.  In a strict total order  *)
(* every rank is some place's, and what ranks lower is before.              *)
Ranked(before, n, i) == Cardinality({j \in 1 .. n : <<j, i>> \in before})

TotalOrder(before, n) ==
  /\ \A i \in 1 .. n : <<i, i>> \notin before
  /\ \A i, j, k \in 1 .. n : <<i, j>> \in before /\ <<j, k>> \in before => <<i, k>> \in before
  /\ \A i, j \in 1 .. n : i = j \/ <<i, j>> \in before \/ <<j, i>> \in before

LEMMA RanksSort ==
  ASSUME NEW n \in Nat, NEW before, TotalOrder(before, n)
  PROVE  /\ \A k \in 1 .. n : \E i \in 1 .. n : Ranked(before, n, i) = k - 1
         /\ \A i, j \in 1 .. n : Ranked(before, n, i) < Ranked(before, n, j) => <<i, j>> \in before
<1> DEFINE S == 1 .. n
           Of(i) == {j \in S : <<j, i>> \in before}
<1>1. IsFiniteSet(S) /\ Cardinality(S) = n
  BY FS_Interval
<1>2. ASSUME NEW i \in S
      PROVE  IsFiniteSet(Of(i)) /\ Cardinality(Of(i)) \in 0 .. n - 1
  <2> DEFINE T == S \ {i}
  <2>1. IsFiniteSet(T) /\ Cardinality(T) = n - 1
    <3> HIDE DEF S
    <3> QED BY <1>1, FS_RemoveElement
  <2>2. Of(i) \in SUBSET T
    BY DEF TotalOrder
  <2> HIDE DEF T, Of
  <2>3. IsFiniteSet(Of(i)) /\ Cardinality(Of(i)) <= Cardinality(T)
    BY <2>1, <2>2, FS_Subset
  <2>4. Cardinality(Of(i)) \in Nat
    BY <2>3, FS_CardinalityType
  <2> QED BY <2>1, <2>3, <2>4
<1>3. ASSUME NEW i \in S, NEW j \in S, <<i, j>> \in before
      PROVE  Cardinality(Of(i)) < Cardinality(Of(j))
  <2> DEFINE T == Of(i) \union {i}
  <2>1. T \in SUBSET Of(j) /\ i \notin Of(i)
    BY <1>3 DEF TotalOrder
  <2>2. IsFiniteSet(Of(j)) /\ IsFiniteSet(Of(i)) /\ Cardinality(Of(i)) \in Nat
        /\ Cardinality(Of(j)) \in Nat
    BY <1>2
  <2> HIDE DEF Of
  <2>3. Cardinality(T) = Cardinality(Of(i)) + 1
    BY <2>1, <2>2, FS_AddElement
  <2> HIDE DEF T
  <2>4. Cardinality(T) <= Cardinality(Of(j))
    BY <2>1, <2>2, FS_Subset
  <2> QED BY <2>2, <2>3, <2>4
<1>4. \A i \in S : Ranked(before, n, i) = Cardinality(Of(i))
  BY DEF Ranked
<1> DEFINE f == [i \in S |-> Cardinality(Of(i)) + 1]
<1> HIDE DEF Of
<1>5. OneToOne(f, n)
  <2>1. f \in [1 .. n -> 1 .. n]
    BY <1>2
  <2>2. ASSUME NEW i \in S, NEW j \in S, f[i] = f[j]
        PROVE  i = j
    <3>1. Cardinality(Of(i)) = Cardinality(Of(j))
      <4>1. Cardinality(Of(i)) \in 0 .. n - 1 /\ Cardinality(Of(j)) \in 0 .. n - 1
        BY <1>2
      <4> QED BY <2>2, <4>1
    <3>2. ~(Cardinality(Of(i)) < Cardinality(Of(j))) /\ ~(Cardinality(Of(j)) < Cardinality(Of(i)))
      BY <3>1, <1>2
    <3> QED BY <3>2, <1>3 DEF TotalOrder
  <2> HIDE DEF f
  <2> QED BY <2>1, <2>2 DEF OneToOne
<1>6. ASSUME NEW k \in 1 .. n
      PROVE  \E i \in 1 .. n : Ranked(before, n, i) = k - 1
  <2>1. PICK i \in 1 .. n : f[i] = k
    <3> HIDE DEF f
    <3> QED BY <1>5, OneToOneIsOnto
  <2>2. Cardinality(Of(i)) = k - 1
    <3>1. Cardinality(Of(i)) \in 0 .. n - 1
      BY <1>2
    <3> QED BY <2>1, <3>1
  <2> QED BY <2>2, <1>4
<1>7. ASSUME NEW i \in 1 .. n, NEW j \in 1 .. n, Ranked(before, n, i) < Ranked(before, n, j)
      PROVE  <<i, j>> \in before
  <2>1. Cardinality(Of(i)) < Cardinality(Of(j))
    BY <1>4, <1>7
  <2>2. Cardinality(Of(i)) \in Nat /\ Cardinality(Of(j)) \in Nat
    BY <1>2
  <2>3. ASSUME <<j, i>> \in before PROVE FALSE
    <3>1. Cardinality(Of(j)) < Cardinality(Of(i))
      BY <1>3, <2>3
    <3> QED BY <2>1, <2>2, <3>1
  <2>4. i # j
    BY <2>1, <2>2
  <2> QED BY <2>3, <2>4 DEF TotalOrder
<1> QED BY <1>6, <1>7
-----------------------------------------------------------------------------
(***************************************************************************)
(* Sequences in one, row by row                                            *)
(***************************************************************************)

(* Two sequences, one after the other.                                       *)
LEMMA Concatenated ==
  ASSUME NEW S, NEW s \in Seq(S), NEW t \in Seq(S), NEW n, NEW m, n = Len(s), m = Len(t)
  PROVE  /\ s \o t \in Seq(S) /\ Len(s \o t) = n + m /\ n \in Nat /\ m \in Nat
         /\ \A k \in 1 .. n + m : (s \o t)[k] = IF k <= n THEN s[k] ELSE t[k - n]
BY ConcatProperties

(* The first k rows in one, which is what a loop that appends a row at each  *)
(* turn holds after k turns.                                                 *)
Joined(rows, k) == FlattenSeq(SubSeq(rows, 1, k))

JoinsTo(h, rows, n) ==
  h = [i \in 1 .. n |-> IF i = 1 THEN rows[i] ELSE h[i - 1] \o rows[i]]

LEMMA JoinsToOne ==
  ASSUME NEW rows, NEW n \in Nat, NEW m \in Nat, n <= m, NEW g, NEW h,
         JoinsTo(g, rows, n), JoinsTo(h, rows, m)
  PROVE  \A i \in 1 .. n : g[i] = h[i]
<1>1. CASE n = 0
  BY <1>1
<1>2. CASE n # 0
  <2> DEFINE good == {i \in 1 .. n : g[i] = h[i]}
  <2>0. /\ \A i \in 1 .. n : g[i] = IF i = 1 THEN rows[i] ELSE g[i - 1] \o rows[i]
        /\ \A i \in 1 .. n : h[i] = IF i = 1 THEN rows[i] ELSE h[i - 1] \o rows[i]
    <3>1. \A i \in 1 .. n : i \in 1 .. m
      OBVIOUS
    <3> QED BY <3>1 DEF JoinsTo
  <2>1. 1 \in good
    <3>1. 1 \in 1 .. n
      BY <1>2
    <3> QED BY <2>0, <3>1
  <2>2. ASSUME NEW k \in 1 .. n - 1, k \in good
        PROVE  k + 1 \in good
    <3>1. k + 1 \in 1 .. n /\ (k + 1) - 1 = k /\ k + 1 # 1 /\ g[k] = h[k]
      BY <2>2
    <3> QED BY <2>0, <3>1
  <2>3. \A k \in 1 .. (n - 1) + 1 : k \in good
    <3>1. n - 1 \in Nat
      BY <1>2
    <3> HIDE DEF good
    <3> QED BY <2>1, <2>2, <3>1, Stepwise
  <2> QED BY <2>3
<1> QED BY <1>1, <1>2

LEMMA JoinedFacts ==
  ASSUME NEW S, NEW rows \in Seq(Seq(S))
  PROVE  /\ Joined(rows, 0) = <<>>
         /\ \A k \in 1 .. Len(rows) : Joined(rows, k) = Joined(rows, k - 1) \o rows[k]
         /\ Joined(rows, Len(rows)) = FlattenSeq(rows)
         /\ \A k \in 0 .. Len(rows) : Joined(rows, k) \in Seq(S)
<1> DEFINE N == Len(rows)
           first(k) == SubSeq(rows, 1, k)
<1>1. N \in Nat /\ \A k \in 1 .. N : rows[k] \in Seq(S)
  OBVIOUS
<1>2. ASSUME NEW k \in 0 .. N
      PROVE  /\ first(k) \in Seq(Seq(S)) /\ Len(first(k)) = k
             /\ \A i \in 1 .. k : first(k)[i] = rows[i]
  OBVIOUS
<1>3. Joined(rows, 0) = <<>>
  BY DEF Joined, FlattenSeq
<1>4. PICK h : JoinsTo(h, rows, N)
  BY <1>1, FlattenExists DEF JoinsTo
<1>5. ASSUME NEW k \in 1 .. N
      PROVE  Joined(rows, k) = h[k]
  <2> DEFINE some == first(k)
             g == CHOOSE f : f = [i \in 1 .. Len(some) |->
                                    IF i = 1 THEN some[i] ELSE f[i - 1] \o some[i]]
  <2>1. Len(some) = k /\ k # 0 /\ k \in 0 .. N /\ k \in Nat /\ \A i \in 1 .. k : some[i] = rows[i]
    BY <1>2, <1>5
  <2> HIDE DEF some
  <2>2. g = [i \in 1 .. Len(some) |-> IF i = 1 THEN some[i] ELSE g[i - 1] \o some[i]]
    <3>1. Len(some) \in Nat
      BY <2>1
    <3>2. \E f : f = [i \in 1 .. Len(some) |->
                        IF i = 1 THEN some[i] ELSE f[i - 1] \o some[i]]
      BY <3>1, FlattenExists
    <3> QED BY <3>2, Zenon
  <2>3. FlattenSeq(some) = g[k]
    BY <2>1, Zenon DEF FlattenSeq
  <2> HIDE DEF g
  <2>4. JoinsTo(g, rows, k)
    <3>1. g = [i \in 1 .. k |-> IF i = 1 THEN some[i] ELSE g[i - 1] \o some[i]]
      BY <2>1, <2>2
    <3> QED BY <2>1, <3>1 DEF JoinsTo
  <2>5. k <= N /\ k \in 1 .. k
    BY <1>1
  <2>6. g[k] = h[k]
    <3>1. \A i \in 1 .. k : g[i] = h[i]
      <4>1. k \in Nat /\ N \in Nat /\ k <= N
        BY <1>1, <2>1, <2>5
      <4> HIDE DEF N, first
      <4> QED BY ONLY <1>4, <2>4, <4>1, JoinsToOne
    <3> QED BY <2>5, <3>1
  <2> QED BY <2>3, <2>6 DEF Joined, some
<1>6. ASSUME NEW k \in 1 .. N
      PROVE  Joined(rows, k) = Joined(rows, k - 1) \o rows[k]
  <2>1. h[k] = IF k = 1 THEN rows[k] ELSE h[k - 1] \o rows[k]
    BY <1>4 DEF JoinsTo
  <2>2. CASE k = 1
    <3>1. Joined(rows, k - 1) = <<>> /\ rows[k] \in Seq(S)
      BY <1>1, <1>3, <2>2
    <3>2. <<>> \o rows[k] = rows[k]
      BY <3>1, ConcatEmptySeq
    <3> QED BY <1>5, <2>1, <2>2, <3>1, <3>2
  <2>3. CASE k # 1
    <3>1. k - 1 \in 1 .. N
      BY <2>3, <1>1
    <3> QED BY <1>5, <2>1, <2>3, <3>1
  <2> QED BY <2>2, <2>3
<1>7. first(N) = rows
  BY <1>1, SubSeqFull
<1>8. \A k \in 0 .. N : Joined(rows, k) \in Seq(S)
  <2> TAKE k \in 0 .. N
  <2>1. first(k) \in Seq(Seq(S))
    BY <1>2
  <2> HIDE DEF first
  <2>2. FlattenSeq(first(k)) \in Seq(S)
    BY <2>1, FlattenFacts
  <2> QED BY <2>2 DEF first, Joined
<1> QED BY <1>3, <1>6, <1>7, <1>8 DEF Joined

LEMMA JoinedGrows ==
  ASSUME NEW S, NEW rows \in Seq(Seq(S)), NEW k \in 0 .. Len(rows)
  PROVE  Len(Joined(rows, k)) <= Len(FlattenSeq(rows))
<1> DEFINE N == Len(rows)
           len(j) == Len(Joined(rows, j))
           good == {i \in 1 .. N + 1 : i - 1 < k \/ len(k) <= len(i - 1)}
<1>0. N \in Nat /\ k \in 0 .. N
  OBVIOUS
<1>1. \A j \in 0 .. N : len(j) \in Nat
  BY JoinedFacts
<1>2. \A j \in 1 .. N : len(j - 1) <= len(j)
  <2> TAKE j \in 1 .. N
  <2>1. /\ Joined(rows, j - 1) \in Seq(S) /\ rows[j] \in Seq(S)
        /\ Joined(rows, j) = Joined(rows, j - 1) \o rows[j]
    <3>1. j - 1 \in 0 .. Len(rows) /\ rows[j] \in Seq(S)
      BY <1>0
    <3> QED BY <3>1, JoinedFacts
  <2> DEFINE old == Joined(rows, j - 1)
             new == rows[j]
  <2>2. old \in Seq(S) /\ new \in Seq(S) /\ len(j) = Len(old \o new)
    BY <2>1
  <2>3. len(j - 1) = Len(old)
    OBVIOUS
  <2> HIDE DEF old, new, len
  <2>4. Len(old \o new) = Len(old) + Len(new) /\ Len(old) \in Nat /\ Len(new) \in Nat
    BY <2>2, ConcatProperties
  <2> QED BY <2>2, <2>3, <2>4
<1> HIDE DEF N, len
<1>3. 1 \in good
  BY <1>0, <1>1
<1>4. ASSUME NEW j \in 1 .. N, j \in good
      PROVE  j + 1 \in good
  <2>1. /\ j \in 0 .. N /\ j - 1 \in 0 .. N /\ j + 1 \in 1 .. N + 1 /\ (j + 1) - 1 = j
        /\ len(j - 1) <= len(j) /\ len(j) \in Nat /\ len(j - 1) \in Nat /\ len(k) \in Nat
    BY <1>0, <1>1, <1>2
  <2>2. CASE j < k
    BY <2>1, <2>2
  <2>3. CASE j = k
    BY <2>1, <2>3
  <2>4. CASE k < j
    <3>1. ~(j - 1 < k)
      BY <1>0, <2>4
    <3>2. len(k) <= len(j - 1)
      BY <1>4, <3>1
    <3> QED BY <2>1, <3>2
  <2> QED BY <1>0, <2>2, <2>3, <2>4
<1>5. N + 1 \in good
  <2>1. \A j \in 1 .. N + 1 : j \in good
    <3> HIDE DEF good
    <3> QED BY <1>0, <1>3, <1>4, Stepwise
  <2> HIDE DEF good
  <2> QED BY <1>0, <2>1
<1>6. len(k) <= len(N)
  BY <1>0, <1>5
<1> QED BY <1>6, JoinedFacts DEF N, len
=============================================================================
