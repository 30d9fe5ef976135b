--------------------------- MODULE ShardingProofs ----------------------------
(***************************************************************************)
(* What the other proofs rest on: sums over finite sets, taken in whatever *)
(* order, and what ShardWallets returns, for every keystore, index and     *)
(* count.  A loop is a recursive function; what it computes is shown by    *)
(* the smallest argument for which it would compute something else.        *)
(***************************************************************************)
EXTENDS Sharding, FiniteSetsExt, WellFoundedInduction, FiniteSetTheorems, TLAPS

(* Every set of naturals that is not empty has a smallest element. *)
LEMMA SmallestNat ==
    ASSUME NEW T, T \subseteq Nat, T # {}
    PROVE  \E n \in T : \A m \in T : n <= m
<1>1. PICK n \in T : \A m \in T : ~(<<m, n>> \in OpToRel(<, Nat))
  <2> DEFINE R == OpToRel(<, Nat)
  <2>1. IsWellFoundedOn(R, Nat)
    BY NatLessThanWellFounded, Zenon
  <2> HIDE DEF R
  <2>2. \E n \in T : \A m \in T : ~(<<m, n>> \in R)
    BY <2>1, WFMin, Zenon
  <2>3. QED
    BY <2>2 DEF R
<1>2. ASSUME NEW m \in T PROVE n <= m
  <2>1. m \in Nat /\ n \in Nat
    OBVIOUS
  <2>2. ~(m < n)
    <3>1. SUFFICES ASSUME m < n PROVE <<m, n>> \in OpToRel(<, Nat)
      BY <1>1, Zenon
    <3>2. QED
      BY <2>1, <3>1, Zenon DEF OpToRel
  <2>3. QED
    BY <2>1, <2>2, SMT
<1>3. QED
  BY <1>2

(* What holds of the empty set, and of a set with one more element when it *)
(* holds of the set, holds of every finite set; H is the sets it holds of. *)
LEMMA FiniteInduction ==
    ASSUME NEW S, IsFiniteSet(S), NEW H, {} \in H,
           \A T \in SUBSET S : \A x \in S \ T : T \in H => T \cup {x} \in H
    PROVE  S \in H
<1> DEFINE bad == {T \in SUBSET S : T \notin H}
           sizes == {Cardinality(T) : T \in bad}
<1>1. \A T \in SUBSET S : IsFiniteSet(T) /\ Cardinality(T) \in Nat
  BY FS_Subset, FS_CardinalityType
<1>2. SUFFICES ASSUME bad # {} PROVE FALSE
  OBVIOUS
<1>3. sizes \subseteq Nat /\ sizes # {}
  BY <1>1, <1>2
<1> HIDE DEF sizes
<1>4. PICK m \in sizes : \A k \in sizes : m <= k
  BY <1>3, SmallestNat
<1> USE DEF sizes
<1>5. PICK T \in bad : m = Cardinality(T)
  BY <1>4
<1>6. PICK x : x \in T
  BY <1>5
<1>7. T \ {x} \in SUBSET S /\ x \in S \ (T \ {x}) /\ (T \ {x}) \cup {x} = T
  BY <1>5, <1>6
<1>8. T \ {x} \in bad
  BY <1>5, <1>7
<1>9. m \in Nat /\ Cardinality(T \ {x}) = m - 1
  BY <1>1, <1>5, <1>6, FS_RemoveElement
<1>10. m <= m - 1
  BY <1>4, <1>8, <1>9
<1>11. QED
  BY <1>9, <1>10

(* The sum of f over S, and the recursion by which MapThenSumSet adds up,  *)
(* one CHOOSEn element after the other.                                    *)
Sum(f, S) == MapThenSumSet(LAMBDA x : f[x], S)

AddsUp(t, f, S) ==
    t = [s \in SUBSET S |->
            IF s = {} THEN 0
            ELSE f[CHOOSE x \in s : TRUE] + t[s \ {CHOOSE x \in s : TRUE}]]

LEMMA OneSum ==
    ASSUME NEW S, IsFiniteSet(S), NEW f, NEW t, NEW u, AddsUp(t, f, S), AddsUp(u, f, S)
    PROVE  t = u
<1> DEFINE differ == {s \in SUBSET S : t[s] # u[s]}
           sizes == {Cardinality(s) : s \in differ}
           pick(s) == CHOOSE x \in s : TRUE
<1>1. \A s \in SUBSET S : IsFiniteSet(s) /\ Cardinality(s) \in Nat
  BY FS_Subset, FS_CardinalityType
<1>2. differ = {}
  <2> SUFFICES ASSUME differ # {} PROVE FALSE
    OBVIOUS
  <2>1. sizes \subseteq Nat /\ sizes # {}
    BY <1>1
  <2> HIDE DEF sizes
  <2>2. PICK m \in sizes : \A k \in sizes : m <= k
    BY <2>1, SmallestNat
  <2> USE DEF sizes
  <2>3. PICK s \in differ : m = Cardinality(s)
    BY <2>2
  <2>4. s # {}
    BY <2>3 DEF AddsUp
  <2>5. pick(s) \in s
    BY <2>4
  <2>6. Cardinality(s \ {pick(s)}) = Cardinality(s) - 1
    BY <1>1, <2>3, <2>5, FS_RemoveElement
  <2>7. s \ {pick(s)} \notin differ
    <3>1. Cardinality(s) \in Nat
      BY <1>1, <2>3
    <3>2. ~(m <= Cardinality(s \ {pick(s)}))
      BY <2>3, <2>6, <3>1
    <3>3. QED
      BY <2>2, <3>2
  <2>8. t[s \ {pick(s)}] = u[s \ {pick(s)}]
    BY <2>3, <2>7
  <2>9. /\ t[s] = f[pick(s)] + t[s \ {pick(s)}]
        /\ u[s] = f[pick(s)] + u[s \ {pick(s)}]
    BY <2>3, <2>4, Zenon DEF AddsUp
  <2>10. QED
    BY <2>3, <2>8, <2>9
<1>3. /\ t = [s \in SUBSET S |-> t[s]]
      /\ u = [s \in SUBSET S |-> u[s]]
  BY Zenon DEF AddsUp
<1>4. QED
  BY <1>2, <1>3

LEMMA SumIsRecursion ==
    ASSUME NEW S, IsFiniteSet(S), NEW f, NEW t, AddsUp(t, f, S)
    PROVE  Sum(f, S) = t[S]
<1>1. (CHOOSE u : AddsUp(u, f, S)) = t
  BY OneSum
<1>2. Sum(f, S) = (CHOOSE u : AddsUp(u, f, S))[S]
  BY Zenon DEF Sum, AddsUp, MapThenSumSet, MapThenFoldSet
<1>3. QED
  BY <1>1, <1>2

(* f[x] units for each x of S: their number is the sum, whatever the order *)
(* in which it is taken.                                                   *)
Units(f, S) == {u \in S \X Nat : u[2] < f[u[1]]}

LEMMA UnitsStep ==
    ASSUME NEW f, NEW S, NEW x \in S, f[x] \in Nat, IsFiniteSet(Units(f, S \ {x}))
    PROVE  /\ IsFiniteSet(Units(f, S))
           /\ Cardinality(Units(f, S)) = f[x] + Cardinality(Units(f, S \ {x}))
<1> DEFINE I == 0 .. f[x] - 1
           own == {x} \X I
           rest == Units(f, S \ {x})
<1>1. Units(f, S) = own \cup rest /\ own \cap rest = {}
  BY DEF Units
<1>2. IsFiniteSet(I) /\ Cardinality(I) = f[x]
  <2>1. PICK n \in Nat : n = f[x]
    OBVIOUS
  <2>2. 0 \in Int /\ n - 1 \in Int /\ I = 0 .. n - 1
    BY <2>1
  <2> HIDE DEF I
  <2>3. IsFiniteSet(I) /\ Cardinality(I) = IF 0 > n - 1 THEN 0 ELSE (n - 1) - 0 + 1
    BY <2>2, FS_Interval, Zenon
  <2> QED
    BY <2>1, <2>3
<1>3. IsFiniteSet({x}) /\ Cardinality({x}) = 1
  BY FS_Singleton
<1> HIDE DEF I
<1>4. IsFiniteSet(own) /\ Cardinality(own) = f[x]
  <2>1. IsFiniteSet(own) /\ Cardinality(own) = Cardinality({x}) * Cardinality(I)
    BY <1>2, <1>3, FS_Product
  <2>2. QED
    BY <1>2, <1>3, <2>1
<1>5. IsFiniteSet(rest) /\ Cardinality(rest) \in Nat
  BY FS_CardinalityType
<1> HIDE DEF own, rest
<1>6. /\ IsFiniteSet(own \cup rest)
      /\ Cardinality(own \cup rest) = Cardinality(own) + Cardinality(rest) - Cardinality({})
  BY <1>1, <1>4, <1>5, FS_Union
<1>7. Cardinality(own \cup rest) = f[x] + Cardinality(rest)
  BY <1>4, <1>5, <1>6, FS_EmptySet
<1>8. QED
  BY <1>1, <1>6, <1>7 DEF rest

LEMMA UnitsFinite ==
    ASSUME NEW f, NEW S, IsFiniteSet(S), \A x \in S : f[x] \in Nat
    PROVE  IsFiniteSet(Units(f, S))
<1> DEFINE H == {T \in SUBSET S : IsFiniteSet(Units(f, T))}
<1>1. {} \in H
  <2>1. Units(f, {}) = {}
    BY DEF Units
  <2>2. QED
    BY <2>1, FS_EmptySet
<1>2. \A T \in SUBSET S : \A x \in S \ T : T \in H => T \cup {x} \in H
  <2>1. SUFFICES ASSUME NEW T \in SUBSET S, NEW x \in S \ T, IsFiniteSet(Units(f, T))
                 PROVE  IsFiniteSet(Units(f, T \cup {x}))
    OBVIOUS
  <2>2. (T \cup {x}) \ {x} = T /\ x \in T \cup {x} /\ f[x] \in Nat
    OBVIOUS
  <2>3. QED
    BY <2>1, <2>2, UnitsStep
<1> HIDE DEF H
<1>3. S \in H
  BY <1>1, <1>2, FiniteInduction
<1>4. QED
  BY <1>3 DEF H

LEMMA SumIsCount ==
    ASSUME NEW f, NEW S, IsFiniteSet(S), \A x \in S : f[x] \in Nat
    PROVE  Sum(f, S) = Cardinality(Units(f, S)) /\ IsFiniteSet(Units(f, S))
<1> DEFINE t == [s \in SUBSET S |-> Cardinality(Units(f, s))]
           pick(s) == CHOOSE x \in s : TRUE
<1>1. ASSUME NEW s \in SUBSET S
      PROVE  t[s] = IF s = {} THEN 0 ELSE f[pick(s)] + t[s \ {pick(s)}]
  <2>1. CASE s = {}
    <3>1. Units(f, s) = {}
      BY <2>1 DEF Units
    <3>2. QED
      BY <2>1, <3>1, FS_EmptySet
  <2>2. CASE s # {}
    <3>1. pick(s) \in s
      BY <2>2
    <3>2. s \ {pick(s)} \in SUBSET S /\ f[pick(s)] \in Nat
      BY <3>1
    <3> HIDE DEF pick
    <3>3. IsFiniteSet(Units(f, s \ {pick(s)}))
      <4>1. IsFiniteSet(s \ {pick(s)})
        BY <3>2, FS_Subset
      <4>2. QED
        BY <4>1, UnitsFinite
    <3>4. Cardinality(Units(f, s)) = f[pick(s)] + Cardinality(Units(f, s \ {pick(s)}))
      BY <3>1, <3>2, <3>3, UnitsStep
    <3>5. QED
      BY <2>2, <3>2, <3>4
  <2>3. QED
    BY <2>1, <2>2
<1>2. AddsUp(t, f, S)
  BY <1>1 DEF AddsUp
<1>3. t[S] = Cardinality(Units(f, S))
  OBVIOUS
<1> HIDE DEF t
<1>4. QED
  BY <1>2, <1>3, SumIsRecursion, UnitsFinite

LEMMA SumType ==
    ASSUME NEW f, NEW S, IsFiniteSet(S), \A x \in S : f[x] \in Nat
    PROVE  Sum(f, S) \in Nat
BY SumIsCount, FS_CardinalityType

LEMMA SumOfNone == ASSUME NEW f PROVE Sum(f, {}) = 0
<1>1. Units(f, {}) = {}
  BY DEF Units
<1>2. Sum(f, {}) = Cardinality(Units(f, {}))
  BY SumIsCount, FS_EmptySet
<1>3. QED
  BY <1>1, <1>2, FS_EmptySet

LEMMA SumStep ==
    ASSUME NEW f, NEW S, IsFiniteSet(S), \A x \in S : f[x] \in Nat, NEW x \in S
    PROVE  Sum(f, S) = f[x] + Sum(f, S \ {x})
<1>1. IsFiniteSet(S \ {x})
  BY FS_Subset
<1>2. QED
  BY <1>1, SumIsCount, UnitsStep

LEMMA SumSame ==
    ASSUME NEW f, NEW g, NEW S, IsFiniteSet(S), \A x \in S : f[x] \in Nat /\ g[x] = f[x]
    PROVE  Sum(g, S) = Sum(f, S)
<1>1. Units(g, S) = Units(f, S)
  BY DEF Units
<1>2. QED
  BY <1>1, SumIsCount

(* Elements that count for nothing may be left out. *)
LEMMA SumWithoutZeros ==
    ASSUME NEW f, NEW S, IsFiniteSet(S), NEW T \in SUBSET S,
           \A x \in S : f[x] \in Nat, \A x \in S \ T : f[x] = 0
    PROVE  Sum(f, T) = Sum(f, S)
<1>1. Units(f, S) = Units(f, T)
  BY DEF Units
<1>2. IsFiniteSet(T)
  BY FS_Subset
<1>3. QED
  BY <1>1, <1>2, SumIsCount

LEMMA SumMonotone ==
    ASSUME NEW f, NEW g, NEW S, IsFiniteSet(S),
           \A x \in S : f[x] \in Nat /\ g[x] \in Nat /\ f[x] <= g[x]
    PROVE  Sum(f, S) <= Sum(g, S)
<1>1. Units(f, S) \in SUBSET Units(g, S)
  BY DEF Units
<1>2. QED
  BY <1>1, SumIsCount, FS_Subset

LEMMA SumOfMore ==
    ASSUME NEW f, NEW S, IsFiniteSet(S), NEW T \in SUBSET S, \A x \in S : f[x] \in Nat
    PROVE  Sum(f, T) <= Sum(f, S)
<1>1. Units(f, T) \in SUBSET Units(f, S)
  BY DEF Units
<1>2. IsFiniteSet(T)
  BY FS_Subset
<1>3. QED
  BY <1>1, <1>2, SumIsCount, FS_Subset

LEMMA SumStrict ==
    ASSUME NEW f, NEW g, NEW S, IsFiniteSet(S),
           \A x \in S : f[x] \in Nat /\ g[x] \in Nat /\ f[x] <= g[x],
           NEW y \in S, f[y] < g[y]
    PROVE  Sum(f, S) < Sum(g, S)
<1>1. IsFiniteSet(S \ {y})
  BY FS_Subset
<1>2. Sum(f, S \ {y}) <= Sum(g, S \ {y})
  BY <1>1, SumMonotone
<1>3. Sum(f, S) = f[y] + Sum(f, S \ {y}) /\ Sum(g, S) = g[y] + Sum(g, S \ {y})
  BY SumStep
<1>4. Sum(f, S \ {y}) \in Nat /\ Sum(g, S \ {y}) \in Nat
  BY <1>1, SumType
<1>5. QED
  BY <1>2, <1>3, <1>4

LEMMA SumOfSums ==
    ASSUME NEW f, NEW g, NEW h, NEW S, IsFiniteSet(S),
           \A x \in S : f[x] \in Nat /\ g[x] \in Nat /\ h[x] = f[x] + g[x]
    PROVE  Sum(h, S) = Sum(f, S) + Sum(g, S)
<1> DEFINE H == {T \in SUBSET S : Sum(h, T) = Sum(f, T) + Sum(g, T)}
<1>1. {} \in H
  BY SumOfNone
<1>2. ASSUME NEW T \in SUBSET S, NEW x \in S \ T, Sum(h, T) = Sum(f, T) + Sum(g, T)
      PROVE  Sum(h, T \cup {x}) = Sum(f, T \cup {x}) + Sum(g, T \cup {x})
  <2>1. /\ IsFiniteSet(T) /\ IsFiniteSet(T \cup {x}) /\ (T \cup {x}) \ {x} = T
        /\ x \in T \cup {x}
        /\ \A y \in T \cup {x} : f[y] \in Nat /\ g[y] \in Nat /\ h[y] \in Nat
    BY FS_Subset, FS_AddElement
  <2>2. /\ Sum(h, T \cup {x}) = h[x] + Sum(h, T)
        /\ Sum(f, T \cup {x}) = f[x] + Sum(f, T)
        /\ Sum(g, T \cup {x}) = g[x] + Sum(g, T)
    BY <2>1, SumStep
  <2>3. Sum(f, T) \in Nat /\ Sum(g, T) \in Nat /\ f[x] \in Nat /\ g[x] \in Nat /\ h[x] = f[x] + g[x]
    BY <2>1, SumType
  <2>4. QED
    BY <1>2, <2>2, <2>3
<1>3. \A T \in SUBSET S : \A x \in S \ T : T \in H => T \cup {x} \in H
  BY <1>2
<1> HIDE DEF H
<1>4. S \in H
  BY <1>1, <1>3, FiniteInduction
<1>5. QED
  BY <1>4 DEF H

LEMMA SumScaled ==
    ASSUME NEW c \in Nat, NEW f, NEW g, NEW S, IsFiniteSet(S),
           \A x \in S : f[x] \in Nat /\ g[x] = c * f[x]
    PROVE  Sum(g, S) = c * Sum(f, S)
<1> DEFINE H == {T \in SUBSET S : Sum(g, T) = c * Sum(f, T)}
<1>1. {} \in H
  BY SumOfNone
<1>2. ASSUME NEW T \in SUBSET S, NEW x \in S \ T, Sum(g, T) = c * Sum(f, T)
      PROVE  Sum(g, T \cup {x}) = c * Sum(f, T \cup {x})
  <2>1. /\ IsFiniteSet(T) /\ IsFiniteSet(T \cup {x}) /\ (T \cup {x}) \ {x} = T
        /\ x \in T \cup {x}
        /\ \A y \in T \cup {x} : f[y] \in Nat /\ g[y] \in Nat
    BY FS_Subset, FS_AddElement
  <2>2. /\ Sum(g, T \cup {x}) = g[x] + Sum(g, T)
        /\ Sum(f, T \cup {x}) = f[x] + Sum(f, T)
    BY <2>1, SumStep
  <2>3. PICK m \in Nat, n \in Nat : m = f[x] /\ n = Sum(f, T) /\ g[x] = c * m
    BY <2>1, SumType
  <2>4. c * (m + n) = c * m + c * n
    OBVIOUS
  <2>5. QED
    BY <1>2, <2>2, <2>3, <2>4
<1>3. \A T \in SUBSET S : \A x \in S \ T : T \in H => T \cup {x} \in H
  BY <1>2
<1> HIDE DEF H
<1>4. S \in H
  BY <1>1, <1>3, FiniteInduction
<1>5. QED
  BY <1>4 DEF H

(* The elements of S under other names, b[x] for x. *)
LEMMA SumRenamed ==
    ASSUME NEW f, NEW S, IsFiniteSet(S), NEW b, \A x, y \in S : b[x] = b[y] => x = y,
           NEW g, \A x \in S : f[x] \in Nat /\ g[b[x]] = f[x]
    PROVE  Sum(g, {b[x] : x \in S}) = Sum(f, S)
<1> DEFINE image(T) == {b[x] : x \in T}
           H == {T \in SUBSET S : IsFiniteSet(image(T)) /\ Sum(g, image(T)) = Sum(f, T)}
<1>1. {} \in H
  <2>1. image({}) = {}
    OBVIOUS
  <2>2. QED
    BY <2>1, SumOfNone, FS_EmptySet
<1>2. ASSUME NEW T \in SUBSET S, NEW x \in S \ T, IsFiniteSet(image(T)),
             Sum(g, image(T)) = Sum(f, T)
      PROVE  /\ IsFiniteSet(image(T \cup {x}))
             /\ Sum(g, image(T \cup {x})) = Sum(f, T \cup {x})
  <2>1. /\ image(T \cup {x}) = image(T) \cup {b[x]} /\ b[x] \in image(T \cup {x})
        /\ image(T \cup {x}) \ {b[x]} = image(T)
        /\ \A z \in image(T \cup {x}) : g[z] \in Nat
    OBVIOUS
  <2>2. /\ IsFiniteSet(T \cup {x}) /\ x \in T \cup {x} /\ (T \cup {x}) \ {x} = T
        /\ \A y \in T \cup {x} : f[y] \in Nat
    BY FS_Subset, FS_AddElement
  <2>3. PICK A, B : A = image(T) /\ B = image(T \cup {x})
    OBVIOUS
  <2> HIDE DEF image
  <2>4. IsFiniteSet(B) /\ Sum(g, B) = g[b[x]] + Sum(g, A)
    <3>1. IsFiniteSet(B)
      <4>1. IsFiniteSet(A) /\ B = A \cup {b[x]}
        BY <1>2, <2>1, <2>3
      <4>2. QED
        BY <4>1, FS_AddElement
    <3>2. b[x] \in B /\ B \ {b[x]} = A /\ \A z \in B : g[z] \in Nat
      BY <2>1, <2>3
    <3>3. QED
      BY <3>1, <3>2, SumStep
  <2>5. Sum(f, T \cup {x}) = f[x] + Sum(f, T)
    BY <2>2, SumStep
  <2>6. QED
    BY <1>2, <2>3, <2>4, <2>5
<1>3. \A T \in SUBSET S : \A x \in S \ T : T \in H => T \cup {x} \in H
  BY <1>2, Zenon
<1> HIDE DEF H
<1>4. S \in H
  BY <1>1, <1>3, FiniteInduction
<1>5. QED
  BY <1>4, Zenon DEF H

(* The same matrix by its rows and by its columns. *)
Transposed(row, column, V, S) ==
    \A v \in V, x \in S : row[v][x] \in Nat /\ column[x][v] = row[v][x]

RowSums(rows, row, V, S) == \A v \in V : rows[v] = Sum(row[v], S)

(* A sum of sums may be taken in either order. *)
LEMMA SumSwap ==
    ASSUME NEW V, IsFiniteSet(V), NEW S, IsFiniteSet(S),
           NEW row, NEW column, Transposed(row, column, V, S),
           NEW rows, RowSums(rows, row, V, S), NEW columns, RowSums(columns, column, S, V)
    PROVE  Sum(columns, S) = Sum(rows, V)
<1> USE DEF Transposed, RowSums
<1> DEFINE partial(T) == [x \in S |-> Sum(column[x], T)]
           H == {T \in SUBSET V : Sum(partial(T), S) = Sum(rows, T)}
<1>1. {} \in H
  <2>1. \A x \in S : partial({})[x] = 0
    BY SumOfNone
  <2> HIDE DEF partial
  <2>2. Sum(partial({}), {}) = Sum(partial({}), S)
    BY <2>1, SumWithoutZeros
  <2>3. QED
    BY <2>2, SumOfNone
<1>2. ASSUME NEW T \in SUBSET V, NEW w \in V \ T, Sum(partial(T), S) = Sum(rows, T)
      PROVE  Sum(partial(T \cup {w}), S) = Sum(rows, T \cup {w})
  <2>1. /\ IsFiniteSet(T) /\ IsFiniteSet(T \cup {w}) /\ (T \cup {w}) \ {w} = T
        /\ w \in T \cup {w} /\ T \cup {w} \in SUBSET V
    BY FS_Subset, FS_AddElement
  <2>2. \A v \in V : rows[v] \in Nat
    BY SumType
  <2>3. Sum(rows, T \cup {w}) = rows[w] + Sum(rows, T)
    BY <2>1, <2>2, SumStep
  <2>4. ASSUME NEW x \in S
        PROVE  /\ partial(T)[x] \in Nat /\ row[w][x] \in Nat
               /\ partial(T \cup {w})[x] = row[w][x] + partial(T)[x]
    <3>1. \A v \in V : column[x][v] \in Nat /\ column[x][v] = row[v][x]
      OBVIOUS
    <3>2. Sum(column[x], T \cup {w}) = column[x][w] + Sum(column[x], T)
      BY <2>1, <3>1, SumStep
    <3>3. Sum(column[x], T) \in Nat
      BY <2>1, <3>1, SumType
    <3>4. QED
      BY <3>1, <3>2, <3>3
  <2>5. Sum(partial(T \cup {w}), S) = Sum(row[w], S) + Sum(partial(T), S)
    <3> DEFINE h == partial(T \cup {w})
               f == row[w]
               g == partial(T)
    <3>1. \A x \in S : f[x] \in Nat /\ g[x] \in Nat /\ h[x] = f[x] + g[x]
      BY <2>4
    <3> HIDE DEF f, g, h
    <3>2. Sum(h, S) = Sum(f, S) + Sum(g, S)
      BY <3>1, SumOfSums
    <3>3. QED
      BY <3>2 DEF f, g, h
  <2> HIDE DEF partial
  <2>6. QED
    BY <1>2, <2>3, <2>5
<1>3. \A T \in SUBSET V : \A w \in V \ T : T \in H => T \cup {w} \in H
  BY <1>2
<1>4. \A x \in S : columns[x] = partial(V)[x]
  OBVIOUS
<1>5. \A x \in S : partial(V)[x] \in Nat
  <2>1. ASSUME NEW x \in S PROVE Sum(column[x], V) \in Nat
    <3>1. \A v \in V : column[x][v] \in Nat
      OBVIOUS
    <3>2. QED
      BY <3>1, SumType
  <2>2. QED
    BY <2>1
<1> HIDE DEF H
<1>6. V \in H
  BY <1>1, <1>3, FiniteInduction
<1>7. Sum(partial(V), S) = Sum(rows, V)
  BY <1>6 DEF H
<1> HIDE DEF partial
<1>8. Sum(columns, S) = Sum(partial(V), S)
  BY <1>4, <1>5, SumSame
<1>9. QED
  BY <1>7, <1>8
-----------------------------------------------------------------------------
(* The sum of the first i chunks, of which the first total % count are     *)
(* one wallet longer than the others.                                      *)
ClosedStart(total, i, count) == i * (total \div count) + Smaller(i, total % count)

LEMMA ChunkTypes ==
    ASSUME NEW total \in Nat, NEW count \in Nat \ {0}
    PROVE  /\ total \div count \in Nat /\ total % count \in Nat
           /\ \A i \in Int : ChunkSize(total, i, count) \in Nat
<1>1. total \div count \in Nat /\ total % count \in Nat
  OBVIOUS
<1>2. QED
  BY <1>1 DEF ChunkSize

LEMMA ClosedStep ==
    ASSUME NEW total \in Nat, NEW count \in Nat \ {0}, NEW i \in Nat
    PROVE  /\ ClosedStart(total, i, count) \in Nat
           /\ ClosedStart(total, 0, count) = 0
           /\ ClosedStart(total, i + 1, count)
                = ClosedStart(total, i, count) + ChunkSize(total, i, count)
<1>1. PICK base \in Nat, rem \in Nat : base = total \div count /\ rem = total % count
  BY ChunkTypes
<1>2. (i + 1) * base = i * base + base /\ i * base \in Nat /\ 0 * base = 0
  OBVIOUS
<1>3. QED
  BY <1>1, <1>2 DEF ClosedStart, ChunkSize, Smaller

LoopOf(s, total, index, count) ==
    s = [i \in 0 .. index |-> IF i = 0 THEN 0 ELSE s[i - 1] + ChunkSize(total, i - 1, count)]

LEMMA LoopIsClosed ==
    ASSUME NEW total \in Nat, NEW count \in Nat \ {0}, NEW index \in Nat,
           NEW s, LoopOf(s, total, index, count)
    PROVE  s[index] = ClosedStart(total, index, count)
<1> DEFINE T == {i \in 0 .. index : s[i] # ClosedStart(total, i, count)}
<1>1. SUFFICES ASSUME T # {} PROVE FALSE
  BY <1>1
<1>2. PICK n \in T : \A m \in T : n <= m
  <2>1. T \subseteq Nat
    OBVIOUS
  <2> HIDE DEF T
  <2>2. QED
    BY <1>1, <2>1, SmallestNat
<1>3. n \in 0 .. index /\ s[n] # ClosedStart(total, n, count)
  BY <1>2
<1>4. s[n] = IF n = 0 THEN 0 ELSE s[n - 1] + ChunkSize(total, n - 1, count)
  BY <1>3 DEF LoopOf
<1>5. CASE n = 0
  BY <1>3, <1>4, <1>5, ClosedStep
<1>6. CASE n # 0
  <2>1. PICK k \in Nat : n = k + 1 /\ n - 1 = k /\ k \in 0 .. index /\ ~(n <= k)
    BY <1>3, <1>6
  <2>2. s[k] = ClosedStart(total, k, count)
    BY <1>2, <2>1
  <2>3. s[n] = s[k] + ChunkSize(total, k, count)
    BY <1>4, <1>6, <2>1
  <2>4. ClosedStart(total, n, count) = ClosedStart(total, k, count) + ChunkSize(total, k, count)
    BY <2>1, ClosedStep
  <2>5. QED
    BY <1>3, <2>2, <2>3, <2>4
<1>7. QED
  BY <1>5, <1>6

LEMMA LoopExists ==
    ASSUME NEW total \in Nat, NEW count \in Nat \ {0}, NEW index \in Nat
    PROVE  \E s : LoopOf(s, total, index, count)
<1> DEFINE s == [i \in 0 .. index |-> ClosedStart(total, i, count)]
<1>1. ASSUME NEW i \in 0 .. index
      PROVE  s[i] = IF i = 0 THEN 0 ELSE s[i - 1] + ChunkSize(total, i - 1, count)
  <2>1. CASE i = 0
    BY <2>1, ClosedStep
  <2>2. CASE i # 0
    <3>1. PICK k \in Nat : i = k + 1 /\ i - 1 = k /\ k \in 0 .. index
      BY <2>2
    <3>2. s[i] = ClosedStart(total, k + 1, count) /\ s[k] = ClosedStart(total, k, count)
      BY <3>1
    <3>3. QED
      BY <2>2, <3>1, <3>2, ClosedStep
  <2>3. QED
    BY <2>1, <2>2
<1>2. LoopOf(s, total, index, count)
  BY <1>1 DEF LoopOf
<1>3. QED
  BY <1>2

LEMMA StartIsClosed ==
    ASSUME NEW total \in Nat, NEW count \in Nat \ {0}, NEW index \in Nat
    PROVE  ShardStart(total, index, count) = ClosedStart(total, index, count)
<1> DEFINE s == CHOOSE s : LoopOf(s, total, index, count)
<1>1. LoopOf(s, total, index, count)
  BY LoopExists
<1>2. ShardStart(total, index, count) = s[index]
  BY DEF ShardStart, LoopOf
<1>3. QED
  BY <1>1, <1>2, LoopIsClosed

LEMMA StartsApart ==
    ASSUME NEW total \in Nat, NEW count \in Nat \ {0}, NEW i \in Nat, NEW j \in Nat, i < j
    PROVE  ShardStart(total, i, count) + ChunkSize(total, i, count)
             <= ShardStart(total, j, count)
<1>1. PICK base \in Nat, rem \in Nat : base = total \div count /\ rem = total % count
  BY ChunkTypes
<1>2. PICK d \in Nat : j = i + 1 + d
  <2>1. j - i - 1 \in Nat /\ j = i + 1 + (j - i - 1)
    OBVIOUS
  <2>2. QED
    BY <2>1
<1>3. j * base = i * base + base + d * base /\ d * base \in Nat /\ i * base \in Nat
  BY <1>2
<1>4. /\ ShardStart(total, i, count) = i * base + Smaller(i, rem)
      /\ ShardStart(total, j, count) = j * base + Smaller(j, rem)
      /\ ChunkSize(total, i, count) = base + (IF i < rem THEN 1 ELSE 0)
  BY <1>1, StartIsClosed DEF ClosedStart, ChunkSize
<1>5. Smaller(i, rem) + (IF i < rem THEN 1 ELSE 0) <= Smaller(j, rem)
  BY DEF Smaller
<1>6. /\ Smaller(i, rem) \in Nat /\ Smaller(j, rem) \in Nat
      /\ (IF i < rem THEN 1 ELSE 0) \in Nat
  BY DEF Smaller
<1>7. QED
  BY <1>3, <1>4, <1>5, <1>6

LEMMA ShardsDisjoint ==
    ASSUME NEW total \in Nat, NEW count \in Nat, count > 1, NEW i \in Nat, NEW j \in Nat, i # j
    PROVE  ShardWallets(total, i, count) \cap ShardWallets(total, j, count) = {}
<1>1. ASSUME NEW a \in Nat, NEW b \in Nat, a < b
      PROVE  ShardWallets(total, a, count) \cap ShardWallets(total, b, count) = {}
  <2>1. PICK sa \in Nat, sb \in Nat, ca \in Nat, cb \in Nat :
          /\ sa = ShardStart(total, a, count) /\ sb = ShardStart(total, b, count)
          /\ ca = ChunkSize(total, a, count) /\ cb = ChunkSize(total, b, count)
          /\ sa + ca <= sb
    <3>1. count \in Nat \ {0}
      OBVIOUS
    <3>2. ShardStart(total, a, count) + ChunkSize(total, a, count) <= ShardStart(total, b, count)
      BY <1>1, <3>1, StartsApart
    <3>3. \A c \in Nat : ShardStart(total, c, count) \in Nat /\ ChunkSize(total, c, count) \in Nat
      <4>1. SUFFICES ASSUME NEW c \in Nat
                     PROVE  ShardStart(total, c, count) \in Nat /\ ChunkSize(total, c, count) \in Nat
        OBVIOUS
      <4>2. ShardStart(total, c, count) \in Nat
        BY <3>1, StartIsClosed, ClosedStep
      <4>3. QED
        BY <3>1, <4>2, ChunkTypes
    <3>4. QED
      BY <1>1, <3>2, <3>3
  <2>2. /\ ShardWallets(total, a, count)
             = Smaller(sa, total) .. Smaller(Smaller(sa, total) + ca, total) - 1
        /\ ShardWallets(total, b, count)
             = Smaller(sb, total) .. Smaller(Smaller(sb, total) + cb, total) - 1
    BY <2>1 DEF ShardWallets, SliceFrom
  <2>3. Smaller(Smaller(sa, total) + ca, total) <= Smaller(sb, total)
    BY <2>1 DEF Smaller
  <2>4. /\ Smaller(sa, total) \in Int /\ Smaller(sb, total) \in Int
        /\ Smaller(Smaller(sa, total) + ca, total) \in Int
        /\ Smaller(Smaller(sb, total) + cb, total) \in Int
    BY <2>1 DEF Smaller
  <2>5. \A w : w \in ShardWallets(total, a, count) =>
               w \in Int /\ w < Smaller(sb, total)
    BY ONLY <2>2, <2>3, <2>4, SMTT(30)
  <2>6. \A w : w \in ShardWallets(total, b, count) =>
               w \in Int /\ Smaller(sb, total) <= w
    BY ONLY <2>2, <2>4, SMT
  <2>7. QED
    BY ONLY <2>4, <2>5, <2>6, SMT
<1>2. QED
  BY <1>1

(* The shards of a cohort lie within the keystore, one after the other.    *)
LEMMA StartsWithin ==
    ASSUME NEW total \in Nat, NEW count \in Nat \ {0}, NEW i \in 0 .. count
    PROVE  /\ ShardStart(total, i, count) \in 0 .. total
           /\ ShardStart(total, 0, count) = 0
           /\ ShardStart(total, count, count) = total
           /\ i < count => ShardStart(total, i + 1, count)
                             = ShardStart(total, i, count) + ChunkSize(total, i, count)
<1>1. /\ \A k \in Nat : ShardStart(total, k, count) = ClosedStart(total, k, count)
      /\ \A k \in Nat : ClosedStart(total, k, count) \in Nat
  BY StartIsClosed, ClosedStep
<1>2. PICK base \in Nat, rem \in Nat : base = total \div count /\ rem = total % count
  BY ChunkTypes
<1>3. rem < count /\ total = count * base + rem
  BY <1>2
<1>4. ClosedStart(total, count, count) = total
  BY <1>2, <1>3 DEF ClosedStart, Smaller
<1>5. ClosedStart(total, i, count) <= total
  <2>1. PICK d \in Nat : count = i + d
    <3>1. count - i \in Nat /\ count = i + (count - i)
      OBVIOUS
    <3>2. QED
      BY <3>1
  <2>2. count * base = i * base + d * base /\ d * base \in Nat /\ i * base \in Nat
    BY <2>1
  <2>3. Smaller(i, rem) \in Nat /\ Smaller(i, rem) <= rem
    BY DEF Smaller
  <2>4. ClosedStart(total, i, count) = i * base + Smaller(i, rem)
    BY <1>2 DEF ClosedStart
  <2>5. QED
    BY <1>3, <2>2, <2>3, <2>4
<1>6. ClosedStart(total, 0, count) = 0
  BY ClosedStep
<1>7. i < count => ClosedStart(total, i + 1, count)
                     = ClosedStart(total, i, count) + ChunkSize(total, i, count)
  BY ClosedStep
<1>8. i \in Nat /\ i + 1 \in Nat /\ 0 \in Nat /\ count \in Nat
  OBVIOUS
<1>9. QED
  BY <1>1, <1>4, <1>5, <1>6, <1>7, <1>8

LEMMA ShardIsSlice ==
    ASSUME NEW total \in Nat, NEW count \in Nat \ {0}, count > 1, NEW i \in 0 .. count - 1
    PROVE  /\ ShardWallets(total, i, count)
                = ShardStart(total, i, count) .. ShardStart(total, i + 1, count) - 1
           /\ Cardinality(ShardWallets(total, i, count)) = ChunkSize(total, i, count)
<1>1. PICK a \in 0 .. total, b \in 0 .. total, c \in Nat :
        /\ a = ShardStart(total, i, count) /\ b = ShardStart(total, i + 1, count)
        /\ c = ChunkSize(total, i, count)
        /\ b = a + c
  <2>1. i \in 0 .. count /\ i + 1 \in 0 .. count /\ i < count /\ i \in Int
    OBVIOUS
  <2>2. ShardStart(total, i, count) \in 0 .. total /\ ShardStart(total, i + 1, count) \in 0 .. total
    BY <2>1, StartsWithin
  <2>3. ShardStart(total, i + 1, count) = ShardStart(total, i, count) + ChunkSize(total, i, count)
    BY <2>1, StartsWithin
  <2>4. ChunkSize(total, i, count) \in Nat
    BY <2>1, ChunkTypes
  <2>5. QED
    BY <2>2, <2>3, <2>4
<1>2. ShardWallets(total, i, count) = a .. b - 1
  BY <1>1, SMTT(30) DEF ShardWallets, SliceFrom, Smaller
<1>3. Cardinality(a .. b - 1) = c
  <2>1. Cardinality(a .. b - 1) = IF a > b - 1 THEN 0 ELSE b - 1 - a + 1
    BY FS_Interval
  <2>2. QED
    BY <1>1, <2>1, SMTT(30)
<1>4. QED
  BY <1>1, <1>2, <1>3

(* A wallet is in the shard that ends after it and starts not after it. *)
LEMMA ShardsCover ==
    ASSUME NEW total \in Nat, NEW count \in Nat \ {0}
    PROVE  UNION {ShardWallets(total, k, count) : k \in 0 .. count - 1} = 0 .. total - 1
<1>1. CASE count = 1
  <2>1. \A k : ShardWallets(total, k, count) = 0 .. total - 1
    BY <1>1 DEF ShardWallets
  <2>2. 0 \in 0 .. count - 1
    OBVIOUS
  <2>3. QED
    BY <2>1, <2>2
<1>2. CASE count > 1
  <2> DEFINE S(k) == ShardStart(total, k, count)
  <2>1. \A k \in 0 .. count - 1 : ShardWallets(total, k, count) = S(k) .. S(k + 1) - 1
    BY <1>2, ShardIsSlice
  <2>2. \A k \in 0 .. count : S(k) \in 0 .. total
    BY StartsWithin
  <2>3. S(0) = 0 /\ S(count) = total
    <3>1. 0 \in 0 .. count
      OBVIOUS
    <3>2. QED
      BY <3>1, StartsWithin
  <2> HIDE DEF S
  <2>4. ASSUME NEW k \in 0 .. count - 1 PROVE ShardWallets(total, k, count) \subseteq 0 .. total - 1
    <3>1. k \in 0 .. count /\ k + 1 \in 0 .. count
      OBVIOUS
    <3>2. S(k) \in 0 .. total /\ S(k + 1) \in 0 .. total
      BY <2>2, <3>1
    <3>3. QED
      BY <2>1, <3>2
  <2>5. ASSUME NEW w \in 0 .. total - 1
        PROVE  \E k \in 0 .. count - 1 : w \in ShardWallets(total, k, count)
    <3> DEFINE T == {k \in 0 .. count : w < S(k)}
    <3>1. count \in T /\ T \subseteq Nat
      BY <2>3
    <3> HIDE DEF T
    <3>2. PICK n \in T : \A m \in T : n <= m
      BY <3>1, SmallestNat
    <3>3. n \in 0 .. count /\ w < S(n) /\ n # 0
      BY <2>3, <3>2 DEF T
    <3>4. n - 1 \in 0 .. count - 1 /\ n - 1 \in 0 .. count /\ (n - 1) + 1 = n /\ ~(n <= n - 1)
      BY <3>3
    <3>5. ~(w < S(n - 1))
      BY <3>2, <3>4 DEF T
    <3>6. S(n - 1) \in Int /\ S(n) \in Int
      BY <2>2, <3>3, <3>4
    <3>7. ShardWallets(total, n - 1, count) = S(n - 1) .. S(n) - 1
      BY <2>1, <3>4
    <3>8. w \in ShardWallets(total, n - 1, count)
      BY <3>3, <3>5, <3>6, <3>7
    <3>9. QED
      BY <3>4, <3>8
  <2>6. QED
    BY <2>4, <2>5
<1>3. QED
  BY <1>1, <1>2
=============================================================================
