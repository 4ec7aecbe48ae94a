--------------------------- MODULE Retention_proofs ---------------------------
(***************************************************************************)
(* What retention deletes, for any number of rows and any policy; and that    *)
(* catalog and storages agree, for any number of tasks, storages and sweeps.  *)
(***************************************************************************)
EXTENDS Retention, FiniteSetTheorems, FunctionTheorems, SequenceTheorems, WellFoundedInduction,
        TLAPS

-----------------------------------------------------------------------------
(***************************************************************************)
(* Numbers and finite sets.                                                *)
(***************************************************************************)

\* A set of numbers that has zero, and with each number the next, has them all.
LEMMA AllNumbers ==
  ASSUME NEW S, 0 \in S, \A n \in Nat : n \in S => n + 1 \in S
  PROVE  \A n \in Nat : n \in S
<1>1. PICK R : R = OpToRel(<, Nat) /\ IsWellFoundedOn(R, Nat)
  BY NatLessThanWellFounded
<1>2. \A x, y \in Nat : x < y => <<x, y>> \in R
  <2>1. \A x, y \in Nat : x < y => <<x, y>> \in OpToRel(<, Nat)
    BY DEF OpToRel
  <2> QED
    BY <1>1, <2>1
<1> SUFFICES ASSUME Nat \ S # {} PROVE FALSE
  OBVIOUS
<1>3. PICK n \in Nat \ S : \A m \in Nat \ S : ~(<<m, n>> \in R)
  BY <1>1, WFMin
<1>4. n # 0 /\ n - 1 \in Nat /\ n - 1 < n /\ (n - 1) + 1 = n
  BY <1>3
<1>5. n - 1 \in S
  BY <1>2, <1>3, <1>4
<1> QED
  BY <1>3, <1>4, <1>5

\* A nonempty finite set of numbers has a largest one.
LEMMA Largest ==
  ASSUME NEW T, T \subseteq Nat, IsFiniteSet(T), T # {}
  PROVE  \E m \in T : \A x \in T : m >= x
<1> DEFINE S == {n \in Nat : \A U \in SUBSET Nat :
                   IsFiniteSet(U) /\ Cardinality(U) = n /\ U # {} => \E m \in U : \A x \in U : m >= x}
<1>1. 0 \in S
  BY FS_EmptySet
<1>2. ASSUME NEW n \in Nat, n \in S
      PROVE  n + 1 \in S
  <2> SUFFICES ASSUME NEW U \in SUBSET Nat, IsFiniteSet(U), Cardinality(U) = n + 1, U # {}
               PROVE  \E m \in U : \A x \in U : m >= x
    OBVIOUS
  <2>1. PICK u \in U : TRUE
    OBVIOUS
  <2>2. IsFiniteSet(U \ {u}) /\ Cardinality(U \ {u}) = n
    <3>1. IsFiniteSet(U \ {u}) /\ Cardinality(U \ {u}) = (n + 1) - 1
      BY FS_RemoveElement, <2>1
    <3>2. (n + 1) - 1 = n
      OBVIOUS
    <3> QED
      BY <3>1, <3>2
  <2>3. CASE U \ {u} = {}
    <3>1. \A x \in U : x = u
      BY <2>3
    <3> QED
      BY <2>1, <3>1
  <2>4. CASE U \ {u} # {}
    <3>1. PICK m \in U \ {u} : \A x \in U \ {u} : m >= x
      BY <1>2, <2>2, <2>4
    <3>2. CASE m >= u
      BY <3>1, <3>2
    <3>3. CASE ~(m >= u)
      <4>1. m \in Nat /\ u \in Nat /\ u >= m
        BY <3>3
      <4>2. \A x \in U : u >= x
        BY <3>1, <4>1
      <4> QED
        BY <2>1, <4>2
    <3> QED
      BY <3>2, <3>3
  <2> QED
    BY <2>3, <2>4
<1>3. Cardinality(T) \in S
  <2> HIDE DEF S
  <2>1. Cardinality(T) \in Nat
    BY FS_CardinalityType
  <2> QED
    BY <1>1, <1>2, <2>1, AllNumbers
<1> QED
  BY <1>3

\* The function f of values in V is given by its value at zero and by a step.
Recurs(f, V, n, base, step) ==
  /\ f \in [0 .. n -> V]
  /\ f[0] = base
  /\ \A i \in 1 .. n : f[i] = step[i][f[i - 1]]

\* There is such a function, whatever the step.
LEMMA StepByStep ==
  ASSUME NEW V, NEW n \in Nat, NEW base \in V, NEW step \in [1 .. n -> [V -> V]]
  PROVE  \E f : Recurs(f, V, n, base, step)
<1> SUFFICES \E f \in [0 .. n -> V] : f[0] = base /\ \A i \in 1 .. n : f[i] = step[i][f[i - 1]]
  BY DEF Recurs
<1> DEFINE Till(k, f) == f[0] = base /\ \A i \in 1 .. k : f[i] = step[i][f[i - 1]]
           S == {k \in Nat : k <= n => \E f \in [0 .. n -> V] : Till(k, f)}
<1>1. 0 \in S
  <2>1. PICK f : f = [i \in 0 .. n |-> base]
    OBVIOUS
  <2>2. f \in [0 .. n -> V] /\ f[0] = base /\ 1 .. 0 = {}
    BY <2>1
  <2>3. Till(0, f)
    BY <2>2
  <2> QED
    BY <2>2, <2>3
<1>2. ASSUME NEW k \in Nat, k \in S
      PROVE  k + 1 \in S
  <2> SUFFICES ASSUME k + 1 <= n
               PROVE  \E f \in [0 .. n -> V] : Till(k + 1, f)
    OBVIOUS
  <2>1. PICK f \in [0 .. n -> V] : Till(k, f)
    BY <1>2
  <2>2. PICK g : g = [i \in 0 .. n |-> IF i = k + 1 THEN step[k + 1][f[k]] ELSE f[i]]
    OBVIOUS
  <2>3. step[k + 1][f[k]] \in V
    <3>1. f[k] \in V /\ k + 1 \in 1 .. n
      OBVIOUS
    <3> QED
      BY <3>1
  <2>4. g \in [0 .. n -> V]
    BY <2>1, <2>2, <2>3
  <2>5. g[0] = base
    BY <2>1, <2>2
  <2>6. ASSUME NEW i \in 1 .. k + 1
        PROVE  g[i] = step[i][g[i - 1]]
    <3>1. g[i - 1] = f[i - 1]
      BY <2>2
    <3>2. CASE i = k + 1
      <4>1. g[i] = step[k + 1][f[k]] /\ i - 1 = k
        BY <2>2, <3>2
      <4> QED
        BY <3>1, <3>2, <4>1
    <3>3. CASE i # k + 1
      <4>1. g[i] = f[i] /\ i \in 1 .. k
        BY <2>2, <3>3
      <4> QED
        BY <2>1, <3>1, <4>1
    <3> QED
      BY <3>2, <3>3
  <2> QED
    BY <2>4, <2>5, <2>6
<1>3. n \in S
  <2> HIDE DEF S
  <2> QED
    BY <1>1, <1>2, AllNumbers
<1> QED
  BY <1>3

-----------------------------------------------------------------------------
(***************************************************************************)
(* The sort.                                                               *)
(***************************************************************************)

\* Rows as a table has them: finitely many, each with an id of its own.
Table(rows) ==
  /\ rows \subseteq Artifact
  /\ IsFiniteSet(rows)
  /\ \A a, b \in rows : a.id = b.id => a = b

NewerThan(rows, a) == {b \in rows : Newer(b, a)}

\* The rows of a table are in one order.
LEMMA OneOrder ==
  ASSUME NEW rows, Table(rows)
  PROVE  /\ \A a \in rows : ~Newer(a, a)
         /\ \A a, b, c \in rows : Newer(a, b) /\ Newer(b, c) => Newer(a, c)
         /\ \A a, b \in rows : a # b => Newer(a, b) \/ Newer(b, a)
<1>1. \A a \in rows : a.id \in Nat /\ a.at \in Nat
  BY DEF Table, Artifact
<1>2. \A a \in rows : ~Newer(a, a)
  BY <1>1 DEF Newer
<1>3. \A a, b, c \in rows : Newer(a, b) /\ Newer(b, c) => Newer(a, c)
  BY <1>1 DEF Newer
<1>4. ASSUME NEW a \in rows, NEW b \in rows, a # b
      PROVE  Newer(a, b) \/ Newer(b, a)
  <2>1. a.id # b.id
    BY <1>4 DEF Table
  <2> QED
    BY <1>1, <2>1 DEF Newer
<1> QED
  BY <1>2, <1>3, <1>4

\* A part of a table is one.
LEMMA PartOfTable ==
  ASSUME NEW rows, Table(rows), NEW part \in SUBSET rows
  PROVE  Table(part) /\ Cardinality(part) <= Cardinality(rows)
BY FS_Subset DEF Table

\* How many rows are newer tells the rows apart, in their order.
LEMMA Ranks ==
  ASSUME NEW rows, Table(rows), NEW a \in rows
  PROVE  /\ Cardinality(NewerThan(rows, a)) + 1 \in 1 .. Cardinality(rows)
         /\ \A b \in rows : Newer(a, b) =>
              Cardinality(NewerThan(rows, a)) < Cardinality(NewerThan(rows, b))
<1>1. \A b \in rows : /\ IsFiniteSet(NewerThan(rows, b))
                      /\ Cardinality(NewerThan(rows, b)) \in Nat
  <2> SUFFICES ASSUME NEW b \in rows
               PROVE  IsFiniteSet(NewerThan(rows, b)) /\ Cardinality(NewerThan(rows, b)) \in Nat
    OBVIOUS
  <2>1. NewerThan(rows, b) \in SUBSET rows
    BY DEF NewerThan
  <2> QED
    BY <2>1, FS_Subset, FS_CardinalityType DEF Table
<1>2. IsFiniteSet(rows) /\ Cardinality(rows) \in Nat
  BY FS_CardinalityType DEF Table
<1>3. NewerThan(rows, a) \in SUBSET rows /\ NewerThan(rows, a) # rows
  <2>1. a \notin NewerThan(rows, a)
    BY OneOrder DEF NewerThan
  <2> QED
    BY <2>1 DEF NewerThan
<1>4. Cardinality(NewerThan(rows, a)) < Cardinality(rows)
  <2>1. /\ Cardinality(NewerThan(rows, a)) <= Cardinality(rows)
        /\ Cardinality(rows) # Cardinality(NewerThan(rows, a))
    BY <1>2, <1>3, FS_Subset
  <2> QED
    BY <1>1, <1>2, <2>1
<1>5. ASSUME NEW b \in rows, Newer(a, b)
      PROVE  Cardinality(NewerThan(rows, a)) < Cardinality(NewerThan(rows, b))
  <2>1. NewerThan(rows, a) \in SUBSET NewerThan(rows, b)
    BY <1>5, OneOrder DEF NewerThan
  <2>2. a \in NewerThan(rows, b) /\ a \notin NewerThan(rows, a)
    BY <1>5, OneOrder DEF NewerThan
  <2>3. NewerThan(rows, a) # NewerThan(rows, b)
    BY <2>2
  <2>4. /\ Cardinality(NewerThan(rows, a)) <= Cardinality(NewerThan(rows, b))
        /\ Cardinality(NewerThan(rows, b)) # Cardinality(NewerThan(rows, a))
    BY <1>1, <2>1, <2>3, FS_Subset
  <2> QED
    BY <1>1, <2>4
<1> QED
  BY <1>1, <1>2, <1>4, <1>5

\* In what order a sequence has the rows of a table.
Orders(q, rows) ==
  /\ q \in [1 .. Cardinality(rows) -> rows]
  /\ \A i, j \in 1 .. Cardinality(rows) : i < j => Newer(q[i], q[j])

\* There is a sorted sequence, so Sorted is one.
LEMMA SortedOrders ==
  ASSUME NEW rows, Table(rows)
  PROVE  Orders(Sorted(rows), rows)
<1>1. PICK n \in Nat : n = Cardinality(rows)
  BY FS_CardinalityType DEF Table
<1>2. PICK f : f = [a \in rows |-> Cardinality(NewerThan(rows, a)) + 1]
  OBVIOUS
<1>3. f \in [rows -> 1 .. n]
  BY <1>1, <1>2, Ranks
<1>4. ASSUME NEW a \in rows, NEW b \in rows, Newer(a, b)
      PROVE  f[a] < f[b]
  <2>1. Cardinality(NewerThan(rows, a)) < Cardinality(NewerThan(rows, b))
    BY <1>4, Ranks
  <2>2. f[a] = Cardinality(NewerThan(rows, a)) + 1 /\ f[b] = Cardinality(NewerThan(rows, b)) + 1
    BY <1>2
  <2>3. Cardinality(NewerThan(rows, a)) \in Nat /\ Cardinality(NewerThan(rows, b)) \in Nat
    <3>1. ASSUME NEW c \in rows
          PROVE  Cardinality(NewerThan(rows, c)) \in Nat
      <4>1. NewerThan(rows, c) \in SUBSET rows
        BY DEF NewerThan
      <4> QED
        BY <4>1, FS_Subset, FS_CardinalityType DEF Table
    <3> QED
      BY <3>1
  <2> QED
    BY <2>1, <2>2, <2>3
<1>5. f \in Injection(rows, 1 .. n)
  <2>1. ASSUME NEW a \in rows, NEW b \in rows, f[a] = f[b]
        PROVE  a = b
    <3>1. ~Newer(a, b) /\ ~Newer(b, a)
      <4>1. f[a] \in 1 .. n /\ f[b] \in 1 .. n
        BY <1>3
      <4> QED
        BY <1>4, <2>1, <4>1
    <3> QED
      BY <3>1, OneOrder
  <2> QED
    BY <1>3, <2>1, Fun_IsInj
<1>6. f \in Surjection(rows, 1 .. n)
  <2>1. IsFiniteSet(1 .. n) /\ Cardinality(1 .. n) = n
    BY FS_Interval
  <2> QED
    BY <1>1, <1>5, <2>1, FS_Injection
<1>7. \A i \in 1 .. n : \E a \in rows : f[a] = i
  BY <1>6, Fun_SurjectionProperties
<1>8. PICK q : q = [i \in 1 .. n |-> CHOOSE a \in rows : f[a] = i]
  OBVIOUS
<1>9. q \in [1 .. n -> rows] /\ \A i \in 1 .. n : f[q[i]] = i
  BY <1>7, <1>8
<1>10. ASSUME NEW i \in 1 .. n, NEW j \in 1 .. n, i < j
       PROVE  Newer(q[i], q[j])
  <2>1. q[i] \in rows /\ q[j] \in rows /\ f[q[i]] = i /\ f[q[j]] = j
    BY <1>9
  <2>2. ~Newer(q[j], q[i])
    <3>1. ~(f[q[j]] < f[q[i]])
      BY <1>10, <2>1
    <3> QED
      BY <1>4, <2>1, <3>1
  <2>3. q[i] # q[j]
    BY <1>10, <2>1
  <2> QED
    BY <2>1, <2>2, <2>3, OneOrder
<1>11. Orders(q, rows)
  BY <1>1, <1>9, <1>10 DEF Orders
<1> QED
  BY <1>11 DEF Orders, Sorted

\* A sorted sequence has every row once, behind those that are newer.
LEMMA SortedPositions ==
  ASSUME NEW rows, Table(rows), NEW q, Orders(q, rows)
  PROVE  /\ \A a \in rows : \E i \in 1 .. Cardinality(rows) : q[i] = a
         /\ \A i \in 1 .. Cardinality(rows) :
              /\ NewerThan(rows, q[i]) = {q[j] : j \in 1 .. i - 1}
              /\ Cardinality(NewerThan(rows, q[i])) = i - 1
<1>1. PICK n \in Nat : n = Cardinality(rows)
  BY FS_CardinalityType DEF Table
<1>2. /\ q \in [1 .. n -> rows]
      /\ \A i, j \in 1 .. n : i < j => Newer(q[i], q[j])
  BY <1>1 DEF Orders
<1>3. \A i, j \in 1 .. n : q[i] = q[j] => i = j
  <2>1. ASSUME NEW i \in 1 .. n, NEW j \in 1 .. n, i < j
        PROVE  q[i] # q[j]
    <3>1. q[i] \in rows /\ Newer(q[i], q[j])
      BY <1>2, <2>1
    <3> QED
      BY <3>1, OneOrder
  <2>2. \A i, j \in 1 .. n : i = j \/ i < j \/ j < i
    OBVIOUS
  <2> QED
    BY <2>1, <2>2
<1>4. q \in Injection(1 .. n, rows)
  BY <1>2, <1>3, Fun_IsInj
<1>5. q \in Surjection(1 .. n, rows)
  <2>1. IsFiniteSet(1 .. n) /\ Cardinality(1 .. n) = n
    BY FS_Interval
  <2>2. IsFiniteSet(rows)
    BY DEF Table
  <2> QED
    BY <1>1, <1>4, <2>1, <2>2, FS_Injection
<1>6. \A a \in rows : \E i \in 1 .. n : q[i] = a
  BY <1>5, Fun_SurjectionProperties
<1>7. ASSUME NEW i \in 1 .. n
      PROVE  /\ NewerThan(rows, q[i]) = {q[j] : j \in 1 .. i - 1}
             /\ Cardinality(NewerThan(rows, q[i])) = i - 1
  <2>1. PICK m \in Nat : m = i - 1 /\ m < n
    <3>1. i - 1 \in Nat /\ i - 1 < n
      OBVIOUS
    <3> QED
      BY <3>1
  <2>2. ASSUME NEW j \in 1 .. m
        PROVE  q[j] \in NewerThan(rows, q[i])
    <3>1. j \in 1 .. n /\ j < i
      BY <2>1
    <3> QED
      BY <1>2, <3>1 DEF NewerThan
  <2>3. ASSUME NEW b \in NewerThan(rows, q[i])
        PROVE  \E j \in 1 .. m : q[j] = b
    <3>1. b \in rows /\ Newer(b, q[i]) /\ q[i] \in rows
      BY <1>2 DEF NewerThan
    <3>2. PICK j \in 1 .. n : q[j] = b
      BY <1>6, <3>1
    <3>3. ~(i < j)
      <4>1. ~Newer(q[i], b)
        BY <3>1, OneOrder
      <4> QED
        BY <1>2, <3>2, <4>1
    <3>4. i # j
      BY <3>1, <3>2, OneOrder
    <3>5. j \in 1 .. m
      BY <2>1, <3>3, <3>4
    <3> QED
      BY <3>2, <3>5
  <2>4. NewerThan(rows, q[i]) = {q[j] : j \in 1 .. m}
    BY <2>2, <2>3
  <2>5. PICK p : p = [j \in 1 .. m |-> q[j]]
    OBVIOUS
  <2>6. p \in [1 .. m -> NewerThan(rows, q[i])]
    BY <2>2, <2>5
  <2>7. \A j, k \in 1 .. m : p[j] = p[k] => j = k
    <3>1. \A j \in 1 .. m : j \in 1 .. n
      BY <2>1
    <3> QED
      BY <1>3, <2>5, <3>1
  <2>8. p \in Injection(1 .. m, NewerThan(rows, q[i]))
    BY <2>6, <2>7, Fun_IsInj
  <2>9. p \in Surjection(1 .. m, NewerThan(rows, q[i]))
    BY <2>3, <2>5, <2>6, Fun_IsSurj
  <2>10. ExistsBijection(1 .. m, NewerThan(rows, q[i]))
    BY <2>8, <2>9, Fun_ExistsBij DEF Bijection
  <2>11. Cardinality(NewerThan(rows, q[i])) = m
    BY <2>10, FS_CountingElements
  <2> QED
    BY <2>1, <2>4, <2>11
<1> QED
  BY <1>1, <1>6, <1>7

-----------------------------------------------------------------------------
(***************************************************************************)
(* The scan by periods.                                                    *)
(***************************************************************************)

\* Finitely many rows have finitely many periods.
LEMMA FewPeriods ==
  ASSUME NEW rows, IsFiniteSet(rows), NEW len
  PROVE  IsFiniteSet(PeriodsOf(rows, len)) /\ Cardinality(PeriodsOf(rows, len)) \in Nat
<1>1. PICK f : f = [a \in rows |-> a.at \div len]
  OBVIOUS
<1>2. f \in [rows -> PeriodsOf(rows, len)]
  BY <1>1 DEF PeriodsOf
<1>3. \A k \in PeriodsOf(rows, len) : \E a \in rows : f[a] = k
  BY <1>1 DEF PeriodsOf
<1>4. f \in Surjection(rows, PeriodsOf(rows, len))
  BY <1>2, <1>3, Fun_IsSurj
<1> QED
  BY <1>4, FS_Surjection, FS_CardinalityType

\* What the policy says: a row is the newest of its period, and there are fewer than
\* count periods after it.
Latest(rows, a, len, count) ==
  /\ \A b \in NewerThan(rows, a) : b.at \div len # a.at \div len
  /\ Cardinality(PeriodsOf(NewerThan(rows, a), len)) < count

\* The scan after i rows: it kept those of them the policy keeps, and saw all their periods
\* or enough of them.
Scanned(rows, q, count, len, i, kept) ==
  /\ kept = {q[j] : j \in {j \in 1 .. i : Latest(rows, q[j], len, count)}}
  /\ \/ PeriodsOf(kept, len) = PeriodsOf({q[j] : j \in 1 .. i}, len)
     \/ Cardinality(PeriodsOf(kept, len)) >= count

\* One step of the scan.
Scan(q, count, len, kept, i) ==
  IF \/ q[i].at \div len \in PeriodsOf(kept, len)
     \/ Cardinality(PeriodsOf(kept, len)) >= count
  THEN kept
  ELSE kept \cup {q[i]}

\* A step of the scan goes on to the next row.
LEMMA ScanStep ==
  ASSUME NEW rows, Table(rows), NEW q, Orders(q, rows), NEW count \in Nat, NEW len \in Nat \ {0},
         NEW i \in 1 .. Cardinality(rows), NEW kept, Scanned(rows, q, count, len, i - 1, kept)
  PROVE  Scanned(rows, q, count, len, i, Scan(q, count, len, kept, i))
<1>1. PICK n \in Nat : n = Cardinality(rows)
  BY FS_CardinalityType DEF Table
<1>2. PICK m \in Nat : m = i - 1 /\ m < n /\ i = m + 1 /\ i \in 1 .. n
  <2>1. i - 1 \in Nat /\ i - 1 < n /\ i = (i - 1) + 1
    BY <1>1
  <2> QED
    BY <1>1, <2>1
<1>3. PICK past : past = {q[j] : j \in 1 .. m}
  OBVIOUS
<1>4. /\ NewerThan(rows, q[i]) = past
      /\ q \in [1 .. n -> rows]
  <2>1. NewerThan(rows, q[i]) = {q[j] : j \in 1 .. i - 1}
    BY SortedPositions
  <2>2. q \in [1 .. n -> rows]
    BY <1>1 DEF Orders
  <2> QED
    BY <1>2, <1>3, <2>1, <2>2
<1>5. past \in SUBSET rows
  BY <1>4 DEF NewerThan
<1>6. /\ kept = {q[j] : j \in {j \in 1 .. m : Latest(rows, q[j], len, count)}}
      /\ \/ PeriodsOf(kept, len) = PeriodsOf(past, len)
         \/ Cardinality(PeriodsOf(kept, len)) >= count
  BY <1>2, <1>3 DEF Scanned
<1>7. kept \subseteq past
  BY <1>3, <1>6
<1>8. /\ IsFiniteSet(PeriodsOf(past, len)) /\ IsFiniteSet(PeriodsOf(kept, len))
      /\ Cardinality(PeriodsOf(past, len)) \in Nat /\ Cardinality(PeriodsOf(kept, len)) \in Nat
  <2>1. IsFiniteSet(past) /\ IsFiniteSet(kept)
    <3>1. kept \in SUBSET rows /\ IsFiniteSet(rows)
      BY <1>5, <1>7 DEF Table
    <3> QED
      BY <1>5, <3>1, FS_Subset
  <2> QED
    BY <2>1, FewPeriods
<1>9. /\ PeriodsOf(kept, len) \in SUBSET PeriodsOf(past, len)
      /\ Cardinality(PeriodsOf(kept, len)) <= Cardinality(PeriodsOf(past, len))
  <2>1. PeriodsOf(kept, len) \in SUBSET PeriodsOf(past, len)
    BY <1>7 DEF PeriodsOf
  <2> QED
    BY <1>8, <2>1, FS_Subset
<1>10. Latest(rows, q[i], len, count) <=>
         /\ q[i].at \div len \notin PeriodsOf(past, len)
         /\ Cardinality(PeriodsOf(past, len)) < count
  BY <1>4 DEF Latest, PeriodsOf
<1>11. {q[j] : j \in 1 .. i} = past \cup {q[i]}
  <2>1. 1 .. i = (1 .. m) \cup {i}
    BY <1>2
  <2> QED
    BY <1>3, <2>1
<1>12. {q[j] : j \in {j \in 1 .. i : Latest(rows, q[j], len, count)}} =
         IF Latest(rows, q[i], len, count) THEN kept \cup {q[i]} ELSE kept
  <2>1. 1 .. i = (1 .. m) \cup {i}
    BY <1>2
  <2> QED
    BY <1>6, <2>1
<1>13. Scan(q, count, len, kept, i) =
         IF Latest(rows, q[i], len, count) THEN kept \cup {q[i]} ELSE kept
  <2>1. CASE PeriodsOf(kept, len) = PeriodsOf(past, len)
    <3>1. Cardinality(PeriodsOf(past, len)) < count <=> ~(Cardinality(PeriodsOf(past, len)) >= count)
      BY <1>8
    <3> QED
      BY <1>10, <2>1, <3>1 DEF Scan
  <2>2. CASE Cardinality(PeriodsOf(kept, len)) >= count
    <3>1. ~(Cardinality(PeriodsOf(past, len)) < count)
      BY <1>8, <1>9, <2>2
    <3> QED
      BY <1>10, <2>2, <3>1 DEF Scan
  <2> QED
    BY <1>6, <2>1, <2>2
<1>14. PICK next : next = Scan(q, count, len, kept, i)
  OBVIOUS
<1>15. \/ PeriodsOf(next, len) = PeriodsOf(past \cup {q[i]}, len)
       \/ Cardinality(PeriodsOf(next, len)) >= count
  <2>1. \A S : PeriodsOf(S \cup {q[i]}, len) = PeriodsOf(S, len) \cup {q[i].at \div len}
    BY DEF PeriodsOf
  <2>2. CASE Cardinality(PeriodsOf(kept, len)) >= count
    BY <1>14, <2>2 DEF Scan
  <2>3. CASE /\ ~(Cardinality(PeriodsOf(kept, len)) >= count)
             /\ PeriodsOf(kept, len) = PeriodsOf(past, len)
    <3>1. CASE q[i].at \div len \in PeriodsOf(kept, len)
      <4>1. next = kept
        BY <1>14, <3>1 DEF Scan
      <4>2. PeriodsOf(past, len) \cup {q[i].at \div len} = PeriodsOf(past, len)
        BY <2>3, <3>1
      <4> QED
        BY <2>1, <2>3, <4>1, <4>2
    <3>2. CASE q[i].at \div len \notin PeriodsOf(kept, len)
      <4>1. next = kept \cup {q[i]}
        BY <1>14, <2>3, <3>2 DEF Scan
      <4> QED
        BY <2>1, <2>3, <4>1
    <3> QED
      BY <3>1, <3>2
  <2> QED
    BY <1>6, <2>2, <2>3
<1> QED
  BY <1>11, <1>12, <1>13, <1>14, <1>15 DEF Scanned

\* The loop's result after each row, as a function.
Loop(q, count, len, f) ==
  [i \in 0 .. Len(q) |-> IF i = 0 THEN {} ELSE Scan(q, count, len, f[i - 1], i)]

\* A sorted sequence is one.
LEMMA SortedIsSequence ==
  ASSUME NEW rows, Table(rows), NEW q, Orders(q, rows)
  PROVE  q \in Seq(rows) /\ Len(q) = Cardinality(rows) /\ DOMAIN q = 1 .. Cardinality(rows)
<1>1. PICK n \in Nat : n = Cardinality(rows)
  BY FS_CardinalityType DEF Table
<1>2. q \in [1 .. n -> rows]
  BY <1>1 DEF Orders
<1>3. q \in Seq(rows) /\ Len(q) = n /\ DOMAIN q = 1 .. n
  BY <1>2
<1> QED
  BY <1>1, <1>3

\* The loop of keepByPeriod has a result for every sequence.
LEMMA LoopRuns ==
  ASSUME NEW rows, Table(rows), NEW q, Orders(q, rows), NEW count \in Nat, NEW len \in Nat \ {0}
  PROVE  \E f : f = Loop(q, count, len, f) /\ NewestOfPeriods(q, count, len) = f[Len(q)]
<1>1. PICK n \in Nat : n = Len(q) /\ q \in [1 .. n -> rows]
  BY SortedIsSequence, FS_CardinalityType DEF Table, Orders
<1>2. PICK V : V = SUBSET rows
  OBVIOUS
<1>3. PICK step : step = [i \in 1 .. n |-> [kept \in V |-> Scan(q, count, len, kept, i)]]
  OBVIOUS
<1>4. step \in [1 .. n -> [V -> V]] /\ {} \in V
  <2>1. ASSUME NEW kept \in V, NEW i \in 1 .. n
        PROVE  Scan(q, count, len, kept, i) \in V
    <3>1. q[i] \in rows
      BY <1>1
    <3> QED
      BY <1>2, <3>1 DEF Scan
  <2> QED
    BY <1>2, <1>3, <2>1
<1>5. PICK f \in [0 .. n -> V] :
         f[0] = {} /\ \A i \in 1 .. n : f[i] = step[i][f[i - 1]]
  <2>1. \E f : Recurs(f, V, n, {}, step)
    BY <1>4, StepByStep
  <2> QED
    BY <2>1 DEF Recurs
<1>6. ASSUME NEW i \in 1 .. n
      PROVE  f[i] = Scan(q, count, len, f[i - 1], i)
  <2>1. i - 1 \in 0 .. n
    OBVIOUS
  <2>2. f[i - 1] \in V
    BY <1>5, <2>1
  <2>3. step[i][f[i - 1]] = Scan(q, count, len, f[i - 1], i)
    BY <1>3, <2>2
  <2> QED
    BY <1>5, <2>3
<1>7. f = Loop(q, count, len, f)
  <2>1. \A i \in 0 .. n : f[i] = IF i = 0 THEN {} ELSE Scan(q, count, len, f[i - 1], i)
    <3>1. \A i \in 0 .. n : i = 0 \/ i \in 1 .. n
      OBVIOUS
    <3> QED
      BY <1>5, <1>6, <3>1
  <2>2. f = [i \in 0 .. n |-> f[i]]
    BY <1>5
  <2>3. [i \in 0 .. n |-> f[i]] =
          [i \in 0 .. n |-> IF i = 0 THEN {} ELSE Scan(q, count, len, f[i - 1], i)]
    BY <2>1
  <2> QED
    BY <1>1, <2>2, <2>3 DEF Loop
<1> QED
  BY <1>7, Zenon DEF NewestOfPeriods, Loop, Scan

\* keepByPeriod returns the rows the policy keeps, and no others.
LEMMA KeepByPeriodIsLatest ==
  ASSUME NEW rows, Table(rows), NEW q, Orders(q, rows), NEW count \in Nat, NEW len \in Nat \ {0}
  PROVE  KeepByPeriod(q, count, len) = {a \in rows : Latest(rows, a, len, count)}
<1>1. PICK n \in Nat : n = Cardinality(rows) /\ n = Len(q) /\ q \in [1 .. n -> rows]
  BY SortedIsSequence, FS_CardinalityType DEF Table, Orders
<1>2. PICK f : f = Loop(q, count, len, f) /\ NewestOfPeriods(q, count, len) = f[Len(q)]
  BY LoopRuns
<1>3. /\ f[0] = {}
      /\ \A i \in 1 .. n : f[i] = Scan(q, count, len, f[i - 1], i)
  <2>1. f = [i \in 0 .. n |-> IF i = 0 THEN {} ELSE Scan(q, count, len, f[i - 1], i)]
    BY <1>1, <1>2 DEF Loop
  <2>2. \A i \in 0 .. n : f[i] = IF i = 0 THEN {} ELSE Scan(q, count, len, f[i - 1], i)
    BY <2>1
  <2>3. 0 \in 0 .. n /\ \A i \in 1 .. n : i \in 0 .. n /\ i # 0
    OBVIOUS
  <2> QED
    BY <2>2, <2>3
<1> DEFINE S == {i \in Nat : i <= n => Scanned(rows, q, count, len, i, f[i])}
<1>4. 0 \in S
  <2>1. 1 .. 0 = {}
    OBVIOUS
  <2>2. Scanned(rows, q, count, len, 0, f[0])
    BY <1>3, <2>1 DEF Scanned, PeriodsOf
  <2> QED
    BY <2>2
<1>5. ASSUME NEW i \in Nat, i \in S
      PROVE  i + 1 \in S
  <2> SUFFICES ASSUME i + 1 <= n
               PROVE  Scanned(rows, q, count, len, i + 1, f[i + 1])
    OBVIOUS
  <2>1. PICK k \in 1 .. n : k = i + 1 /\ k - 1 = i
    <3>1. i + 1 \in 1 .. n /\ (i + 1) - 1 = i
      OBVIOUS
    <3> QED
      BY <3>1
  <2>2. Scanned(rows, q, count, len, k - 1, f[k - 1])
    <3>1. i <= n
      OBVIOUS
    <3> QED
      BY <1>5, <2>1, <3>1
  <2>3. k \in 1 .. Cardinality(rows)
    BY <1>1
  <2>4. Scanned(rows, q, count, len, k, Scan(q, count, len, f[k - 1], k))
    BY <2>2, <2>3, ScanStep
  <2>5. f[k] = Scan(q, count, len, f[k - 1], k)
    BY <1>3
  <2> QED
    BY <2>1, <2>4, <2>5
<1>6. Scanned(rows, q, count, len, n, f[n])
  <2>1. n \in S
    <3> HIDE DEF S
    <3> QED
      BY <1>4, <1>5, AllNumbers
  <2> QED
    BY <2>1
<1>7. f[n] = {q[j] : j \in {j \in 1 .. n : Latest(rows, q[j], len, count)}}
  BY <1>6 DEF Scanned
<1>8. \A a \in rows : \E j \in 1 .. n : q[j] = a
  <2>1. \A a \in rows : \E j \in 1 .. Cardinality(rows) : q[j] = a
    BY SortedPositions
  <2> QED
    BY <1>1, <2>1
<1>9. f[n] = {a \in rows : Latest(rows, a, len, count)}
  BY <1>1, <1>7, <1>8
<1> QED
  BY <1>1, <1>2, <1>9 DEF KeepByPeriod

-----------------------------------------------------------------------------
(***************************************************************************)
(* The policy.                                                             *)
(***************************************************************************)

\* What Forget returns: the rows the policy does not keep, sorted.
LEMMA ForgetByPolicy ==
  ASSUME NEW rows, Table(rows),
         NEW p \in [last : Nat, daily : Nat, weekly : Nat, monthly : Nat]
  PROVE  /\ Forget(p, rows) = Sorted({a \in rows : ~Kept(p, rows, a)})
         /\ ToSet(Forget(p, rows)) = {a \in rows : ~Kept(p, rows, a)}
<1>1. PICK n \in Nat : n = Cardinality(rows)
  BY FS_CardinalityType DEF Table
<1>2. PICK q : q = Sorted(rows) /\ Orders(q, rows)
  BY SortedOrders
<1>3. q \in [1 .. n -> rows] /\ DOMAIN q = 1 .. n
  BY <1>1, <1>2 DEF Orders
<1>4. PICK last : last = {q[i] : i \in {i \in DOMAIN q : i <= p.last}}
  OBVIOUS
<1>5. last = {a \in rows : Cardinality(NewerThan(rows, a)) < p.last}
  <2>1. \A i \in 1 .. n : Cardinality(NewerThan(rows, q[i])) = i - 1
    BY <1>1, <1>2, SortedPositions
  <2>2. \A i \in 1 .. n : Cardinality(NewerThan(rows, q[i])) < p.last <=> i <= p.last
    BY <2>1
  <2>3. \A a \in rows : \E i \in 1 .. n : q[i] = a
    BY <1>1, <1>2, SortedPositions
  <2> QED
    BY <1>3, <1>4, <2>2, <2>3
<1>6. \A len \in Nat \ {0}, count \in Nat :
         KeepByPeriod(q, count, len) = {a \in rows : Latest(rows, a, len, count)}
  BY <1>2, KeepByPeriodIsLatest
<1>7. /\ KeepByPeriod(q, p.daily, DayLen) = {a \in rows : Latest(rows, a, DayLen, p.daily)}
      /\ KeepByPeriod(q, p.weekly, WeekLen) = {a \in rows : Latest(rows, a, WeekLen, p.weekly)}
      /\ KeepByPeriod(q, p.monthly, MonthLen) = {a \in rows : Latest(rows, a, MonthLen, p.monthly)}
  BY <1>6, CalendarAssumption
<1>8. \A a \in rows : Kept(p, rows, a) <=>
         \/ Cardinality(NewerThan(rows, a)) < p.last
         \/ Latest(rows, a, DayLen, p.daily)
         \/ Latest(rows, a, WeekLen, p.weekly)
         \/ Latest(rows, a, MonthLen, p.monthly)
  BY DEF Kept, NewerThan, Latest, PeriodsOf
<1>9. PICK keep : keep = last \cup KeepByPeriod(q, p.daily, DayLen)
                           \cup KeepByPeriod(q, p.weekly, WeekLen)
                           \cup KeepByPeriod(q, p.monthly, MonthLen)
  OBVIOUS
<1>10. PICK gone : gone = {a \in rows : ~Kept(p, rows, a)}
  OBVIOUS
<1>11. rows \ keep = gone
  BY <1>5, <1>7, <1>8, <1>9, <1>10
<1>12. Forget(p, rows) = Sorted(rows \ keep)
  BY <1>2, <1>4, <1>9, Zenon DEF Forget
<1>13. Table(gone)
  BY <1>10, PartOfTable
<1>14. Orders(Sorted(gone), gone)
  BY <1>13, SortedOrders
<1>15. ToSet(Sorted(gone)) = gone
  <2>1. PICK g : g = Sorted(gone)
    OBVIOUS
  <2>2. Orders(g, gone)
    BY <1>14, <2>1
  <2>3. \A a \in gone : \E i \in 1 .. Cardinality(gone) : g[i] = a
    BY <1>13, <2>2, SortedPositions
  <2>4. DOMAIN g = 1 .. Cardinality(gone)
    BY <1>13, <2>2, SortedIsSequence
  <2>5. g \in [1 .. Cardinality(gone) -> gone]
    BY <2>2 DEF Orders
  <2>6. ToSet(g) = gone
    BY <2>3, <2>4, <2>5 DEF ToSet
  <2> QED
    BY <2>1, <2>6
<1> QED
  BY <1>10, <1>11, <1>12, <1>15

\* A list has no element twice.
Distinct(del) == \A i, j \in 1 .. Len(del) : i < j => del[i] # del[j]

\* A policy that keeps anything keeps the newest row, and what Forget returns is a list of
\* other rows, each of them once.
LEMMA ForgetKeepsNewest ==
  ASSUME NEW rows, Table(rows),
         NEW p \in [last : Nat, daily : Nat, weekly : Nat, monthly : Nat], Enabled(p)
  PROVE  /\ Forget(p, rows) \in Seq(rows)
         /\ Distinct(Forget(p, rows))
         /\ Forget(p, rows) # <<>> =>
              \E b \in rows \ ToSet(Forget(p, rows)) :
                 \A a \in ToSet(Forget(p, rows)) : Newer(b, a)
<1>1. PICK gone : gone = {a \in rows : ~Kept(p, rows, a)}
  OBVIOUS
<1>2. PICK del : del = Forget(p, rows) /\ del = Sorted(gone) /\ ToSet(del) = gone
  BY <1>1, ForgetByPolicy
<1>3. Table(gone)
  BY <1>1, PartOfTable
<1>4. Orders(del, gone)
  BY <1>2, <1>3, SortedOrders
<1>5. del \in Seq(rows)
  <2>1. del \in Seq(gone)
    BY <1>3, <1>4, SortedIsSequence
  <2> QED
    BY <1>1, <2>1
<1>6. Distinct(del)
  <2>1. /\ del \in [1 .. Cardinality(gone) -> gone] /\ Len(del) = Cardinality(gone)
        /\ \A i, j \in 1 .. Cardinality(gone) : i < j => Newer(del[i], del[j])
    BY <1>3, <1>4, SortedIsSequence DEF Orders
  <2>2. ASSUME NEW i \in 1 .. Len(del), NEW j \in 1 .. Len(del), i < j
        PROVE  del[i] # del[j]
    <3>1. del[i] \in gone /\ Newer(del[i], del[j])
      BY <2>1, <2>2
    <3> QED
      BY <1>3, <3>1, OneOrder
  <2> QED
    BY <2>2 DEF Distinct
<1>7. ASSUME del # <<>>
      PROVE  \E b \in rows \ gone : \A a \in gone : Newer(b, a)
  <2>1. PICK n \in Nat : n = Cardinality(rows)
    BY FS_CardinalityType DEF Table
  <2>2. PICK q : Orders(q, rows)
    BY SortedOrders
  <2>3. \A a \in rows : \E i \in 1 .. n : q[i] = a
    <3>1. \A a \in rows : \E i \in 1 .. Cardinality(rows) : q[i] = a
      BY <2>2, SortedPositions
    <3> QED
      BY <2>1, <3>1
  <2>4. n # 0
    <3>1. gone # {}
      <4>1. Len(del) \in Nat /\ Len(del) # 0 /\ DOMAIN del = 1 .. Len(del)
        BY <1>5, <1>7
      <4>2. del[1] \in ToSet(del)
        BY <4>1 DEF ToSet
      <4> QED
        BY <1>2, <4>2
    <3>2. PICK a \in rows : TRUE
      BY <1>1, <3>1
    <3> QED
      BY <2>3, <3>2
  <2>5. q \in [1 .. n -> rows] /\ \A i, j \in 1 .. n : i < j => Newer(q[i], q[j])
    BY <2>1, <2>2 DEF Orders
  <2>6. 1 \in 1 .. n /\ 1 .. 1 - 1 = {}
    BY <2>4
  <2>7. NewerThan(rows, q[1]) = {}
    <3>1. 1 \in 1 .. Cardinality(rows)
      BY <2>1, <2>6
    <3>2. NewerThan(rows, q[1]) = {q[j] : j \in 1 .. 1 - 1}
      BY <2>2, <3>1, SortedPositions
    <3> QED
      BY <2>6, <3>2
  <2>8. Cardinality({}) = 0
    BY FS_EmptySet
  <2>9. Kept(p, rows, q[1])
    <3>1. {b \in rows : Newer(b, q[1])} = {}
      BY <2>7 DEF NewerThan
    <3>2. \A len : {b.at \div len : b \in {}} = {}
      OBVIOUS
    <3>3. 0 < p.last \/ 0 < p.daily \/ 0 < p.weekly \/ 0 < p.monthly
      BY DEF Enabled
    <3> QED
      BY <2>8, <3>1, <3>2, <3>3 DEF Kept
  <2>10. q[1] \in rows \ gone
    BY <1>1, <2>5, <2>6, <2>9
  <2>11. ASSUME NEW a \in gone
         PROVE  Newer(q[1], a)
    <3>1. PICK i \in 1 .. n : q[i] = a
      BY <1>1, <2>3
    <3>2. i # 1
      BY <2>10, <3>1
    <3>3. 1 < i
      BY <3>2
    <3> QED
      BY <2>5, <2>6, <3>1, <3>3
  <2> QED
    BY <2>10, <2>11
<1> QED
  BY <1>2, <1>5, <1>6, <1>7

\* What is left of a list of rows after its first.
LEMMA Shorter ==
  ASSUME NEW S, NEW del \in Seq(S), Distinct(del), del # <<>>
  PROVE  /\ Head(del) \in ToSet(del) /\ Head(del) \in S
         /\ Tail(del) \in Seq(S)
         /\ Distinct(Tail(del))
         /\ ToSet(Tail(del)) = ToSet(del) \ {Head(del)}
<1>1. PICK n \in Nat : n = Len(del) /\ n # 0
  <2>1. Len(del) \in Nat /\ Len(del) # 0
    BY EmptySeq, LenProperties
  <2> QED
    BY <2>1
<1>2. DOMAIN del = 1 .. n /\ \A i \in 1 .. n : del[i] \in S
  BY <1>1, ElementOfSeq, LenProperties
<1>3. PICK rest : rest = Tail(del)
  OBVIOUS
<1>4. /\ Head(del) = del[1] /\ rest \in Seq(S) /\ Len(rest) = n - 1
      /\ \A i \in 1 .. n - 1 : rest[i] = del[i + 1]
  BY <1>1, <1>3, HeadTailProperties
<1>5. PICK m \in Nat : m = n - 1 /\ n = m + 1
  <2>1. n - 1 \in Nat /\ n = (n - 1) + 1
    BY <1>1
  <2> QED
    BY <2>1
<1>6. DOMAIN rest = 1 .. m /\ Len(rest) = m /\ \A i \in 1 .. m : rest[i] = del[i + 1] /\ i + 1 \in 1 .. n
  BY <1>4, <1>5, LenProperties
<1>7. \A i, j \in 1 .. n : i < j => del[i] # del[j]
  BY <1>1 DEF Distinct
<1>8. Distinct(rest)
  <2>1. \A i, j \in 1 .. m : i < j => i + 1 < j + 1
    OBVIOUS
  <2> QED
    BY <1>6, <1>7, <2>1 DEF Distinct
<1>9. ToSet(rest) = ToSet(del) \ {del[1]}
  <2>1. ASSUME NEW x \in ToSet(rest)
        PROVE  x \in ToSet(del) \ {del[1]}
    <3>1. PICK i \in 1 .. m : x = rest[i]
      BY <1>6, <2>1 DEF ToSet
    <3>2. i + 1 \in 1 .. n /\ 1 \in 1 .. n /\ 1 < i + 1 /\ x = del[i + 1]
      BY <1>6, <3>1
    <3>3. del[1] # del[i + 1]
      BY <1>7, <3>2
    <3> QED
      BY <1>2, <3>2, <3>3 DEF ToSet
  <2>2. ASSUME NEW x \in ToSet(del) \ {del[1]}
        PROVE  x \in ToSet(rest)
    <3>1. PICK i \in 1 .. n : x = del[i]
      BY <1>2, <2>2 DEF ToSet
    <3>2. i # 1
      BY <2>2, <3>1
    <3>3. PICK k \in 1 .. m : i = k + 1
      <4>1. i - 1 \in 1 .. m /\ i = (i - 1) + 1
        BY <1>5, <3>2
      <4> QED
        BY <4>1
    <3>4. rest[k] = x
      BY <1>6, <3>1, <3>3
    <3> QED
      BY <1>6, <3>4 DEF ToSet
  <2> QED
    BY <2>1, <2>2
<1>10. del[1] \in ToSet(del) /\ del[1] \in S
  <2>1. 1 \in 1 .. n
    BY <1>1
  <2> QED
    BY <1>2, <2>1 DEF ToSet
<1> QED
  BY <1>3, <1>4, <1>8, <1>9, <1>10

-----------------------------------------------------------------------------
(***************************************************************************)
(* The invariant.                                                          *)
(***************************************************************************)

TaskCopy == [name : Tasks, storage : Storages, policy : Policies]
TaskRow == [exists : BOOLEAN, storage : Storages, policy : Policies, started : Nat]
Upload == [pc : {"idle", "writing", "written"}, storage : Storages, key : Nat, run : Nat]
Pass == [pc : {"idle", "next", "prune", "row", "orphans", "listing", "listed"},
         todo : SUBSET TaskCopy, task : TaskCopy \cup {NoTask}, del : Seq(Artifact),
         deleted : Nat, removed : Nat, known : SUBSET (Storages \X Nat), scopes : SUBSET Storages,
         catalogued : SUBSET Nat, lost : SUBSET Nat, orphans : SUBSET Nat]

Typed ==
  /\ now \in 0 .. MaxTime
  /\ task \in [Tasks -> TaskRow]
  /\ Table(catalog)
  /\ objects \subseteq Object
  /\ upload \in [Tasks -> Upload]
  /\ strays \subseteq 1 .. runs
  /\ lock \in Sweepers \cup {"none"}
  /\ sweep \in [Sweepers -> Pass]
  /\ \A s \in Sweepers : sweep[s].pc # "idle" => lock = s
  /\ runs \in 0 .. MaxRuns /\ edits \in 0 .. MaxEdits /\ faults \in 0 .. MaxFaults

Active(t) == upload[t].pc # "idle"

\* Where the bytes of a run are, will be or were, as the row, the run under way and the
\* object itself have it.
Place(a) == [storage |-> a.storage, task |-> a.task, key |-> a.key, run |-> a.run]
Aim(t) == [storage |-> upload[t].storage, task |-> t, key |-> upload[t].key, run |-> upload[t].run]
Places == {Place(a) : a \in catalog} \cup {Aim(t) : t \in {u \in Tasks : Active(u)}} \cup objects

\* A key is one run's, and a run has one key.
Apart ==
  /\ \A x \in Places : x.run \in 1 .. runs /\ x.key <= task[x.task].started
  /\ \A x, y \in Places :
       x.run = y.run \/ (x.task = y.task /\ x.key = y.key) => x = y

\* Which run is where: its row comes after its upload, its object with it.
Books ==
  /\ \A t \in Tasks : task[t].started <= now
  /\ \A a \in catalog : a.at <= now /\ a.run \notin strays
  /\ \A a, b \in catalog : a.run = b.run => a = b
  /\ \A t \in Tasks : Active(t) =>
       /\ upload[t].run \notin strays
       /\ \A a \in catalog : a.run # upload[t].run
       /\ Aim(t) \in objects <=> upload[t].pc = "written"

\* What is stored has a row, a run that is about to insert one, or lost it.
Accounted ==
  \A o \in objects :
    \/ o.run \in {a.run : a \in catalog}
    \/ o.run \in {upload[t].run : t \in {u \in Tasks : Active(u)}}
    \/ o.run \in strays

\* A row has its object, or had it and there is a newer row.
Backed(a) ==
  \/ Place(a) \in objects
  \/ \E s \in Sweepers : sweep[s].pc = "row" /\ a = Head(sweep[s].del)
  \/ faults > 0 /\ ~Newest(a)

\* What a pass is about to do is still right when it does it.
Sweeping(w) ==
  /\ w.deleted = w.removed
  /\ w.pc \notin {"idle", "next"} => w.task \in TaskCopy
  /\ w.pc \in {"prune", "row"} =>
       /\ Distinct(w.del)
       /\ ToSet(w.del) \subseteq RowsOf(w.task.name)
       /\ w.del # <<>> =>
            \E b \in RowsOf(w.task.name) \ ToSet(w.del) : \A a \in ToSet(w.del) : Newer(b, a)
  /\ w.pc = "row" => w.del # <<>> /\ Place(Head(w.del)) \notin objects
  /\ w.pc \in {"listing", "listed"} => w.lost \subseteq strays
  /\ w.pc = "listing" =>
       /\ w.catalogued \subseteq {a.run : a \in catalog}
       /\ w.task.storage \in w.scopes
       /\ \A a \in RowsOf(w.task.name) :
            a.run \in w.catalogued => <<a.storage, a.key>> \in w.known
       /\ \A k \in w.known : \E a \in RowsOf(w.task.name) : k = <<a.storage, a.key>>
  /\ w.pc = "listed" =>
       /\ w.orphans \cap w.catalogued = {}
       /\ \A o \in objects :
            o.task = w.task.name /\ o.storage = w.task.storage /\ o.run \in w.lost
              => o.run \in w.orphans

Inv ==
  /\ Typed /\ Apart /\ Books /\ Accounted
  /\ \A a \in catalog : Backed(a)
  /\ \A s \in Sweepers : Sweeping(sweep[s])

-----------------------------------------------------------------------------
(***************************************************************************)
(* What a step leaves as it is.                                            *)
(***************************************************************************)

\* Fewer places are apart, and a clock that goes on has passed them.
LEMMA FewerPlaces ==
  ASSUME Typed, Apart, Places' \subseteq Places, runs' = runs,
         \A t \in Tasks : task'[t].started = task[t].started
  PROVE  Apart'
<1>1. \A x \in Places : x.task \in Tasks
  BY DEF Places, Place, Aim, Typed, Table, Artifact, Object
<1> QED
  BY <1>1 DEF Apart

\* The places are those of rows, runs and objects.
LEMMA SamePlaces ==
  ASSUME UNCHANGED <<catalog, objects, upload>>
  PROVE  Places' = Places
BY DEF Places, Place, Aim, Active

\* A step that touches neither row nor object nor run leaves the books as they are.
LEMMA BooksStay ==
  ASSUME Typed, Apart, Books, Accounted,
         UNCHANGED <<catalog, objects, upload, strays, runs>>,
         now' \in Nat, now' >= now,
         \A t \in Tasks : task'[t].started = task[t].started
  PROVE  Apart' /\ Books' /\ Accounted'
<1>1. Apart'
  BY SamePlaces, FewerPlaces
<1>2. Books'
  <2>1. now \in Nat /\ \A t \in Tasks : task[t].started \in Nat
    BY BoundsAssumption DEF Typed, TaskRow
  <2>2. \A a \in catalog : a.at \in Nat
    BY DEF Typed, Table, Artifact
  <2>3. \A t \in Tasks : task'[t].started <= now'
    BY <2>1 DEF Books
  <2>4. \A a \in catalog : a.at <= now'
    BY <2>1, <2>2 DEF Books
  <2> QED
    BY <2>3, <2>4 DEF Books, Active, Aim
<1>3. Accounted'
  BY DEF Accounted, Active
<1> QED
  BY <1>1, <1>2, <1>3

\* A pass is right as long as no row goes, and only what a run writes and catalogs comes.
LEMMA SweepingStays ==
  ASSUME Typed, Books, NEW w \in Pass, Sweeping(w),
         catalog \subseteq catalog', strays \subseteq strays',
         \A a \in catalog' \ catalog : \E t \in Tasks : Active(t) /\ a.run = upload[t].run,
         \A o \in objects' \ objects : \E t \in Tasks : Active(t) /\ o.run = upload[t].run
  PROVE  Sweeping(w)'
<1>1. \A t : RowsOf(t) \subseteq RowsOf(t)'
  BY DEF RowsOf
<1>2. ASSUME w.pc = "row"
      PROVE  Place(Head(w.del)) \notin objects'
  <2>1. w.del # <<>> /\ Place(Head(w.del)) \notin objects /\ Distinct(w.del)
        /\ ToSet(w.del) \subseteq catalog
    BY <1>2 DEF Sweeping, RowsOf
  <2>2. Head(w.del) \in catalog
    <3>1. w.del \in Seq(Artifact)
      BY DEF Pass
    <3> QED
      BY <2>1, <3>1, Shorter
  <2>3. Place(Head(w.del)).run = Head(w.del).run
    BY DEF Place
  <2> QED
    BY <2>1, <2>2, <2>3 DEF Books
<1>3. ASSUME w.pc = "listing"
      PROVE  /\ w.catalogued \subseteq {a.run : a \in catalog'}
             /\ \A a \in RowsOf(w.task.name)' :
                  a.run \in w.catalogued => <<a.storage, a.key>> \in w.known
             /\ \A k \in w.known : \E a \in RowsOf(w.task.name)' : k = <<a.storage, a.key>>
  <2>1. ASSUME NEW a \in RowsOf(w.task.name)', a.run \in w.catalogued
        PROVE  <<a.storage, a.key>> \in w.known
    <3>1. PICK b \in catalog : b.run = a.run
      BY <1>3, <2>1 DEF Sweeping
    <3>2. a \in catalog
      BY <2>1, <3>1 DEF Books, RowsOf
    <3> QED
      BY <1>3, <2>1, <3>2 DEF Sweeping, RowsOf
  <2> QED
    BY <1>1, <1>3, <2>1 DEF Sweeping
<1>4. ASSUME w.pc = "listed", NEW o \in objects',
             o.task = w.task.name, o.storage = w.task.storage, o.run \in w.lost
      PROVE  o.run \in w.orphans
  <2>1. o.run \in strays
    BY <1>4 DEF Sweeping
  <2>2. o \in objects
    BY <2>1 DEF Books
  <2> QED
    BY <1>4, <2>2 DEF Sweeping
<1>5. w.pc \in {"prune", "row"} =>
        /\ ToSet(w.del) \subseteq RowsOf(w.task.name)'
        /\ w.del # <<>> =>
             \E b \in RowsOf(w.task.name)' \ ToSet(w.del) : \A a \in ToSet(w.del) : Newer(b, a)
  BY <1>1 DEF Sweeping
<1> QED
  BY <1>2, <1>3, <1>4, <1>5 DEF Sweeping

\* A pass between two tasks has nothing to be wrong about.
LEMMA IdleSweeping ==
  ASSUME NEW w, w.pc \in {"idle", "next"}, w.deleted = w.removed
  PROVE  Sweeping(w) /\ Sweeping(w)'
BY DEF Sweeping

\* The records at rest.
LEMMA AtRest ==
  /\ NoSweep \in Pass /\ NoSweep.pc = "idle" /\ Sweeping(NoSweep) /\ Sweeping(NoSweep)'
  /\ Storages # {} => NoUpload \in Upload /\ NoUpload.pc = "idle"
<1>1. /\ NoSweep.pc = "idle" /\ NoSweep.deleted = 0 /\ NoSweep.removed = 0
  BY DEF NoSweep
<1>2. PICK nothing : nothing = <<>> /\ nothing \in Seq(Artifact)
  BY EmptySeq
<1>3. NoSweep \in Pass
  BY <1>2 DEF NoSweep, Pass
<1>4. Storages # {} => NoUpload \in Upload /\ NoUpload.pc = "idle"
  BY DEF NoUpload, Upload
<1> QED
  BY <1>1, <1>3, <1>4, IdleSweeping

\* The invariant holds at the start.
LEMMA InitInv == Init => Inv
<1> SUFFICES ASSUME Init PROVE Inv
  OBVIOUS
<1>1. Storages # {}
  BY DEF Init
<1>2. task \in [Tasks -> TaskRow] /\ \A t \in Tasks : task[t].started = 0
  <2>1. \A s \in Storages, p \in Policies :
          [exists |-> TRUE, storage |-> s, policy |-> p, started |-> 0] \in TaskRow
    BY DEF TaskRow
  <2> QED
    BY <2>1 DEF Init
<1>3. Table(catalog)
  BY FS_EmptySet DEF Init, Table
<1>4. upload = [t \in Tasks |-> NoUpload] /\ NoUpload \in Upload /\ NoUpload.pc = "idle"
  BY <1>1, AtRest DEF Init
<1>5. sweep = [s \in Sweepers |-> NoSweep] /\ NoSweep \in Pass /\ NoSweep.pc = "idle"
  BY AtRest DEF Init
<1>6. Typed
  <2>1. MaxTime \in Nat \ {0} /\ MaxRuns \in Nat /\ MaxEdits \in Nat /\ MaxFaults \in Nat
    BY BoundsAssumption
  <2>2. /\ now \in 0 .. MaxTime /\ runs \in 0 .. MaxRuns
        /\ edits \in 0 .. MaxEdits /\ faults \in 0 .. MaxFaults
    BY <2>1 DEF Init
  <2>3. objects \subseteq Object /\ strays \subseteq 1 .. runs /\ lock \in Sweepers \cup {"none"}
    BY DEF Init
  <2>4. upload \in [Tasks -> Upload] /\ sweep \in [Sweepers -> Pass]
    BY <1>4, <1>5
  <2>5. \A s \in Sweepers : sweep[s].pc # "idle" => lock = s
    BY <1>5
  <2> QED
    BY <1>2, <1>3, <2>2, <2>3, <2>4, <2>5 DEF Typed
<1>7. Places = {}
  BY <1>4 DEF Places, Init, Active
<1>8. Apart
  BY <1>7 DEF Apart
<1>9. Books
  BY <1>2, <1>4 DEF Books, Active, Init
<1>10. Accounted /\ \A a \in catalog : Backed(a)
  BY DEF Init, Accounted
<1>11. \A s \in Sweepers : Sweeping(sweep[s])
  BY <1>5, AtRest
<1> QED
  BY <1>6, <1>8, <1>9, <1>10, <1>11 DEF Inv

-----------------------------------------------------------------------------
(***************************************************************************)
(* The clock, the operator and the executor.                               *)
(***************************************************************************)

\* A row stays backed when rows and passes stay and its object does.
LEMMA BackedStays ==
  ASSUME Typed, NEW a \in catalog, Backed(a), catalog \subseteq catalog',
         Place(a) \in objects => Place(a) \in objects',
         sweep' = sweep, faults' \in Nat, faults' >= faults
  PROVE  Backed(a)'
<1>1. ~Newest(a) => ~Newest(a)'
  BY DEF Newest, RowsOf
<1>2. faults \in Nat
  BY BoundsAssumption DEF Typed
<1>3. faults > 0 => faults' > 0
  BY <1>2
<1> QED
  BY <1>1, <1>3 DEF Backed

\* Nothing but the clock changes.
LEMMA TickStep ==
  ASSUME Inv, Tick
  PROVE  Inv'
<1> USE DEF Inv
<1>1. /\ now' = now + 1 /\ now < MaxTime
      /\ UNCHANGED <<task, catalog, objects, upload, strays, lock, sweep, runs, edits, faults>>
  BY DEF Tick
<1>2. now \in Nat /\ MaxTime \in Nat /\ now' \in 0 .. MaxTime /\ now' \in Nat /\ now' >= now
  <2>1. MaxTime \in Nat
    BY BoundsAssumption
  <2> QED
    BY <1>1, <2>1 DEF Typed
<1>3. Typed'
  BY <1>1, <1>2 DEF Typed, Table
<1>4. Apart' /\ Books' /\ Accounted'
  BY <1>1, <1>2, BooksStay
<1>5. faults \in Nat
  BY BoundsAssumption DEF Typed
<1>6. \A a \in catalog' : Backed(a)'
  BY <1>1, <1>5, BackedStays
<1>7. \A s \in Sweepers : Sweeping(sweep[s])'
  <2> SUFFICES ASSUME NEW s \in Sweepers PROVE Sweeping(sweep[s])'
    OBVIOUS
  <2>1. PICK w \in Pass : w = sweep[s] /\ Sweeping(w)
    BY DEF Typed
  <2>2. Sweeping(w)'
    BY <1>1, <2>1, SweepingStays
  <2>3. sweep'[s] = w
    BY <1>1, <2>1
  <2> QED
    BY <2>2, <2>3
<1> QED
  BY <1>1, <1>3, <1>4, <1>6, <1>7

\* A new storage or policy is for the next copy of the task.
LEMMA EditTaskStep ==
  ASSUME Inv, NEW t \in Tasks, EditTask(t)
  PROVE  Inv'
<1> USE DEF Inv
<1>1. /\ edits < MaxEdits /\ edits' = edits + 1
      /\ UNCHANGED <<now, catalog, objects, upload, strays, lock, sweep, runs, faults>>
  BY DEF EditTask
<1>2. PICK s \in Storages, p \in Policies :
        task' = [task EXCEPT ![t].storage = s, ![t].policy = p]
  BY DEF EditTask
<1>3. task' \in [Tasks -> TaskRow] /\ \A u \in Tasks : task'[u].started = task[u].started
  BY <1>2 DEF Typed, TaskRow
<1>4. edits' \in 0 .. MaxEdits
  <2>1. MaxEdits \in Nat
    BY BoundsAssumption
  <2> QED
    BY <1>1, <2>1 DEF Typed
<1>5. Typed'
  BY <1>1, <1>3, <1>4 DEF Typed, Table
<1>6. now' \in Nat /\ now' >= now
  <2>1. MaxTime \in Nat
    BY BoundsAssumption
  <2> QED
    BY <1>1, <2>1 DEF Typed
<1>7. Apart' /\ Books' /\ Accounted'
  BY <1>1, <1>3, <1>6, BooksStay
<1>8. faults \in Nat
  BY BoundsAssumption DEF Typed
<1>9. \A a \in catalog' : Backed(a)'
  BY <1>1, <1>8, BackedStays
<1>10. \A q \in Sweepers : Sweeping(sweep[q])'
  <2> SUFFICES ASSUME NEW q \in Sweepers PROVE Sweeping(sweep[q])'
    OBVIOUS
  <2>1. PICK w \in Pass : w = sweep[q] /\ Sweeping(w)
    BY DEF Typed
  <2>2. Sweeping(w)'
    BY <1>1, <2>1, SweepingStays
  <2>3. sweep'[q] = w
    BY <1>1, <2>1
  <2> QED
    BY <2>2, <2>3
<1> QED
  BY <1>1, <1>5, <1>7, <1>9, <1>10

\* The rows of a deleted task go when no pass has them in its hands.
LEMMA DeleteTaskStep ==
  ASSUME Inv, ~DeleteMidSweep, NEW t \in Tasks, DeleteTask(t)
  PROVE  Inv'
<1> USE DEF Inv
<1>1. /\ upload[t].pc = "idle" /\ lock = "none" /\ edits < MaxEdits
      /\ task' = [task EXCEPT ![t].exists = FALSE]
      /\ catalog' = catalog \ RowsOf(t)
      /\ strays' = strays \cup {a.run : a \in RowsOf(t)}
      /\ edits' = edits + 1
      /\ UNCHANGED <<now, objects, upload, lock, sweep, runs, faults>>
  BY DEF DeleteTask
<1>2. \A s \in Sweepers : sweep[s].pc = "idle"
  BY <1>1, BoundsAssumption DEF Typed
<1>3. task' \in [Tasks -> TaskRow] /\ \A u \in Tasks : task'[u].started = task[u].started
  BY <1>1 DEF Typed, TaskRow
<1>4. edits' \in 0 .. MaxEdits
  <2>1. MaxEdits \in Nat
    BY BoundsAssumption
  <2> QED
    BY <1>1, <2>1 DEF Typed
<1>5. catalog' \in SUBSET catalog /\ Table(catalog')
  <2>1. catalog' \in SUBSET catalog
    BY <1>1
  <2> QED
    BY <2>1, PartOfTable DEF Typed
<1>6. \A a \in catalog : Place(a) \in Places /\ Place(a).run = a.run
  BY DEF Places, Place
<1>7. strays' \subseteq 1 .. runs
  <2>1. \A a \in RowsOf(t) : a.run \in 1 .. runs
    BY <1>6 DEF Apart, RowsOf
  <2> QED
    BY <1>1, <2>1 DEF Typed
<1>8. Typed'
  BY <1>1, <1>3, <1>4, <1>5, <1>7 DEF Typed, Table
<1>9. Apart'
  <2>1. Places' \subseteq Places
    BY <1>1, <1>5 DEF Places, Place, Aim, Active
  <2> QED
    BY <1>1, <1>3, <2>1, FewerPlaces
<1>10. Books'
  <2>1. \A u \in Tasks : task'[u].started <= now'
    BY <1>1, <1>3 DEF Books
  <2>2. \A a \in catalog' : a.at <= now' /\ a.run \notin strays'
    <3>1. \A a \in catalog', b \in RowsOf(t) : a.run # b.run
      BY <1>1 DEF Books, RowsOf
    <3> QED
      BY <1>1, <1>5, <3>1 DEF Books
  <2>3. \A u \in Tasks : Active(u) => upload[u].run \notin strays'
    BY <1>1 DEF Books, RowsOf
  <2> QED
    BY <1>1, <1>5, <2>1, <2>2, <2>3 DEF Books, Active, Aim
<1>11. Accounted'
  <2>1. ASSUME NEW o \in objects, o.run \in {a.run : a \in catalog}
        PROVE  o.run \in {a.run : a \in catalog'} \/ o.run \in strays'
    <3>1. PICK a \in catalog : a.run = o.run
      BY <2>1
    <3> QED
      BY <1>1, <3>1
  <2> QED
    BY <1>1, <2>1 DEF Accounted, Active
<1>12. ASSUME NEW a \in catalog'
       PROVE  Backed(a)'
  <2>1. a \in catalog /\ a.task # t
    BY <1>1 DEF RowsOf
  <2>2. ~Newest(a) => ~Newest(a)'
    BY <1>1, <2>1 DEF Newest, RowsOf
  <2> QED
    BY <1>1, <2>1, <2>2 DEF Backed
<1>13. \A s \in Sweepers : Sweeping(sweep[s])'
  <2> SUFFICES ASSUME NEW s \in Sweepers PROVE Sweeping(sweep[s])'
    OBVIOUS
  <2>1. PICK w : w = sweep[s] /\ w.pc = "idle" /\ w.deleted = w.removed
    BY <1>2 DEF Sweeping
  <2>2. sweep'[s] = w
    BY <1>1, <2>1
  <2> QED
    BY <2>1, <2>2, IdleSweeping
<1> QED
  BY <1>8, <1>9, <1>10, <1>11, <1>12, <1>13

\* What the invariant knows of the numbers.
LEMMA Numbers ==
  ASSUME Typed
  PROVE  /\ now \in Nat /\ runs \in Nat /\ faults \in Nat
         /\ \A t \in Tasks : /\ task[t].started \in Nat /\ task[t].storage \in Storages
                             /\ upload[t].key \in Nat /\ upload[t].run \in Nat
                             /\ upload[t].storage \in Storages
         /\ \A a \in catalog : /\ a.id \in Nat /\ a.at \in Nat /\ a.run \in Nat /\ a.key \in Nat
                               /\ a.task \in Tasks /\ a.storage \in Storages
         /\ \A x \in Places : x.run \in Nat /\ x.key \in Nat /\ x.task \in Tasks
<1>1. MaxTime \in Nat /\ MaxRuns \in Nat /\ MaxFaults \in Nat
  BY BoundsAssumption
<1>2. now \in Nat /\ runs \in Nat /\ faults \in Nat
  BY <1>1 DEF Typed
<1>3. \A t \in Tasks : /\ task[t].started \in Nat /\ task[t].storage \in Storages
                       /\ upload[t].key \in Nat /\ upload[t].run \in Nat
                       /\ upload[t].storage \in Storages
  BY DEF Typed, TaskRow, Upload
<1>4. \A a \in catalog : /\ a.id \in Nat /\ a.at \in Nat /\ a.run \in Nat /\ a.key \in Nat
                         /\ a.task \in Tasks /\ a.storage \in Storages
  BY DEF Typed, Table, Artifact
<1>5. \A o \in objects : o.run \in Nat /\ o.key \in Nat /\ o.task \in Tasks
  BY DEF Typed, Object
<1>6. \A x \in Places : x.run \in Nat /\ x.key \in Nat /\ x.task \in Tasks
  BY <1>3, <1>4, <1>5 DEF Places, Place, Aim
<1> QED
  BY <1>2, <1>3, <1>4, <1>6

\* A pass goes on while an upload makes its way.
LEMMA SweepsStay ==
  ASSUME Inv, sweep' = sweep,
         catalog \subseteq catalog', strays \subseteq strays',
         \A a \in catalog' \ catalog : \E t \in Tasks : Active(t) /\ a.run = upload[t].run,
         \A o \in objects' \ objects : \E t \in Tasks : Active(t) /\ o.run = upload[t].run
  PROVE  \A s \in Sweepers : Sweeping(sweep[s])'
<1> SUFFICES ASSUME NEW s \in Sweepers PROVE Sweeping(sweep[s])'
  OBVIOUS
<1>1. PICK w \in Pass : w = sweep[s] /\ Sweeping(w)
  BY DEF Inv, Typed
<1>2. Typed /\ Books
  BY DEF Inv
<1>3. Sweeping(w)'
  BY <1>1, <1>2, SweepingStays
<1>4. sweep'[s] = w
  BY <1>1
<1> QED
  BY <1>3, <1>4

\* Runs of a task start minutes apart, so the new run's key is new.
LEMMA StartUploadStep ==
  ASSUME Inv, MinGap # 0, NEW t \in Tasks, StartUpload(t)
  PROVE  Inv'
<1> USE DEF Inv
<1>1. /\ upload[t].pc = "idle" /\ runs < MaxRuns /\ now >= task[t].started + MinGap
      /\ upload' = [upload EXCEPT ![t] = [pc |-> "writing", storage |-> task[t].storage,
                                          key |-> now, run |-> runs + 1]]
      /\ task' = [task EXCEPT ![t].started = now]
      /\ runs' = runs + 1
      /\ UNCHANGED <<now, catalog, objects, strays, lock, sweep, edits, faults>>
  BY DEF StartUpload
<1>2. now > task[t].started
  <2>1. MinGap \in Nat /\ MinGap # 0
    BY BoundsAssumption
  <2> QED
    BY <1>1, <2>1, Numbers
<1>3. /\ task' \in [Tasks -> TaskRow] /\ task'[t].started = now
      /\ \A u \in Tasks : u # t => task'[u] = task[u]
  BY <1>1, Numbers DEF Typed, TaskRow
<1>19. PICK new : new = [pc |-> "writing", storage |-> task[t].storage,
                          key |-> now, run |-> runs + 1]
  OBVIOUS
<1>4. /\ new = [pc |-> "writing", storage |-> task[t].storage, key |-> now, run |-> runs + 1]
      /\ new \in Upload /\ new.pc = "writing" /\ new.storage = task[t].storage
      /\ new.key = now /\ new.run = runs + 1
  <2>1. now \in Nat /\ runs \in Nat /\ runs + 1 \in Nat /\ task[t].storage \in Storages
    BY Numbers
  <2> QED
    BY <1>19, <2>1 DEF Upload
<1>5. /\ upload' \in [Tasks -> Upload] /\ upload'[t] = new
      /\ \A u \in Tasks : u # t => upload'[u] = upload[u]
  BY <1>1, <1>4 DEF Typed
<1>6. runs' \in 0 .. MaxRuns /\ runs \in Nat /\ runs' = runs + 1
  <2>1. MaxRuns \in Nat
    BY BoundsAssumption
  <2> QED
    BY <1>1, <2>1, Numbers
<1>7. strays' \subseteq 1 .. runs'
  BY <1>1, <1>6 DEF Typed
<1>8. Typed'
  BY <1>1, <1>3, <1>5, <1>6, <1>7 DEF Typed, Table
<1>9. PICK aim : aim = [storage |-> new.storage, task |-> t, key |-> new.key, run |-> new.run]
  OBVIOUS
<1>10. Places' \subseteq Places \cup {aim}
  BY <1>1, <1>4, <1>5, <1>9 DEF Places, Place, Aim, Active
<1>11. Apart'
  <2>1. aim.run = runs + 1 /\ aim.key = now /\ aim.task = t
    BY <1>4, <1>9
  <2>2. \A x \in Places : /\ x.run \in 1 .. runs /\ x.key <= task[x.task].started
                          /\ x.run \in Nat /\ x.key \in Nat /\ x.task \in Tasks
    BY Numbers DEF Apart
  <2>3. \A x \in Places : x.run # aim.run /\ ~(x.task = aim.task /\ x.key = aim.key)
    <3> SUFFICES ASSUME NEW x \in Places
                 PROVE  x.run # aim.run /\ ~(x.task = aim.task /\ x.key = aim.key)
      OBVIOUS
    <3>1. x.run # runs + 1
      BY <1>6, <2>2
    <3>2. x.task = t => x.key <= task[t].started /\ x.key \in Nat
      BY <2>2
    <3>3. x.task = t => x.key # now
      BY <1>2, <3>2, Numbers
    <3> QED
      BY <2>1, <3>1, <3>3
  <2>4. \A x \in Places : x.run \in 1 .. runs' /\ x.key <= task'[x.task].started
    <3> SUFFICES ASSUME NEW x \in Places
                 PROVE  x.run \in 1 .. runs' /\ x.key <= task'[x.task].started
      OBVIOUS
    <3>1. x.run \in 1 .. runs'
      BY <1>6, <2>2
    <3>2. CASE x.task = t
      BY <1>2, <1>3, <2>2, <3>1, <3>2, Numbers
    <3>3. CASE x.task # t
      BY <1>3, <2>2, <3>1, <3>3
    <3> QED
      BY <3>2, <3>3
  <2>5. aim.run \in 1 .. runs' /\ aim.key <= task'[aim.task].started
    BY <1>3, <1>6, <2>1, Numbers
  <2>6. \A x, y \in Places : x.run = y.run \/ (x.task = y.task /\ x.key = y.key) => x = y
    BY DEF Apart
  <2> QED
    BY <1>10, <2>3, <2>4, <2>5, <2>6 DEF Apart
<1>12. \A a \in catalog : a.run # new.run
  <2>1. \A a \in catalog : Place(a) \in Places /\ Place(a).run = a.run
    BY DEF Places, Place
  <2>2. \A a \in catalog : a.run \in 1 .. runs
    BY <2>1 DEF Apart
  <2> QED
    BY <1>4, <1>6, <2>2
<1>13. new.run \notin strays
  BY <1>4, <1>6 DEF Typed
<1>14. aim \notin objects
  <2>1. aim.run = runs + 1 /\ objects \subseteq Places
    BY <1>4, <1>9 DEF Places
  <2> QED
    BY <1>6, <2>1 DEF Apart
<1>15. Books'
  <2>1. \A u \in Tasks : task'[u].started <= now'
    BY <1>1, <1>3, Numbers DEF Books
  <2>2. \A a \in catalog' : a.at <= now' /\ a.run \notin strays'
    BY <1>1 DEF Books
  <2>3. \A a, b \in catalog' : a.run = b.run => a = b
    BY <1>1 DEF Books
  <2>4. ASSUME NEW u \in Tasks, Active(u)'
        PROVE  /\ upload'[u].run \notin strays'
               /\ \A a \in catalog' : a.run # upload'[u].run
               /\ Aim(u)' \in objects' <=> upload'[u].pc = "written"
    <3>1. CASE u = t
      <4>1. Aim(u)' = aim
        BY <1>5, <1>9, <3>1 DEF Aim
      <4> QED
        BY <1>1, <1>4, <1>5, <1>12, <1>13, <1>14, <3>1, <4>1
    <3>2. CASE u # t
      <4>1. Active(u) /\ upload'[u] = upload[u] /\ Aim(u)' = Aim(u)
        BY <1>5, <2>4, <3>2 DEF Active, Aim
      <4> QED
        BY <1>1, <4>1 DEF Books
    <3> QED
      BY <3>1, <3>2
  <2> QED
    BY <2>1, <2>2, <2>3, <2>4 DEF Books
<1>16. Accounted'
  <2>1. \A u \in Tasks : Active(u) => Active(u)' /\ upload'[u] = upload[u]
    BY <1>1, <1>5 DEF Active
  <2> QED
    BY <1>1, <2>1 DEF Accounted
<1>17. \A a \in catalog' : Backed(a)'
  BY <1>1, Numbers, BackedStays
<1>18. \A s \in Sweepers : Sweeping(sweep[s])'
  BY <1>1, SweepsStay
<1> QED
  BY <1>8, <1>11, <1>15, <1>16, <1>17, <1>18

\* What is written goes where nothing is.
LEMMA WriteObjectStep ==
  ASSUME Inv, NEW t \in Tasks, WriteObject(t)
  PROVE  Inv'
<1> USE DEF Inv
<1>1. /\ upload[t].pc = "writing"
      /\ upload' = [upload EXCEPT ![t].pc = "written"]
      /\ UNCHANGED <<now, task, catalog, strays, lock, sweep, runs, edits, faults>>
  BY DEF WriteObject
<1>2. PICK aim : aim = Aim(t)
  OBVIOUS
<1>3. /\ aim.storage = upload[t].storage /\ aim.task = t
      /\ aim.key = upload[t].key /\ aim.run = upload[t].run
      /\ aim \in Places /\ aim \notin objects
  BY <1>1, <1>2 DEF Aim, Places, Active, Books
<1>4. objects' = objects \cup {aim}
  <2>1. objects' = {o \in objects : ~(o.storage = upload[t].storage /\ o.task = t
                                       /\ o.key = upload[t].key)} \cup {aim}
    BY <1>2 DEF WriteObject, Aim
  <2>2. \A o \in objects : ~(o.task = t /\ o.key = upload[t].key)
    BY <1>3 DEF Apart, Places
  <2> QED
    BY <2>1, <2>2
<1>5. /\ upload' \in [Tasks -> Upload] /\ upload'[t].pc = "written"
      /\ \A u \in Tasks : /\ upload'[u].storage = upload[u].storage
                          /\ upload'[u].key = upload[u].key /\ upload'[u].run = upload[u].run
                          /\ u # t => upload'[u] = upload[u]
  BY <1>1 DEF Typed, Upload
<1>6. \A u \in Tasks : /\ Active(u)' <=> Active(u)
                       /\ Aim(u)' = Aim(u)
                       /\ u # t => upload'[u].pc = upload[u].pc
  BY <1>1, <1>5 DEF Active, Aim
<1>7. objects' \subseteq Object
  <2>1. aim \in Object
    BY <1>2, Numbers DEF Aim, Object
  <2> QED
    BY <1>4, <2>1 DEF Typed
<1>8. Typed'
  BY <1>1, <1>5, <1>7 DEF Typed, Table
<1>9. Apart'
  <2>1. Places' \subseteq Places
    BY <1>1, <1>3, <1>4, <1>6 DEF Places, Place
  <2> QED
    BY <1>1, <2>1, FewerPlaces
<1>10. Books'
  <2>1. ASSUME NEW u \in Tasks, u # t, Active(u)
        PROVE  Aim(u)' \in objects' <=> upload'[u].pc = "written"
    <3>1. Aim(u) # aim
      BY <1>3, <2>1 DEF Aim
    <3> QED
      BY <1>4, <1>6, <2>1, <3>1 DEF Books
  <2>2. Aim(t)' \in objects'
    BY <1>2, <1>4, <1>6
  <2>3. ASSUME NEW u \in Tasks, Active(u)'
        PROVE  /\ upload'[u].run \notin strays'
               /\ \A a \in catalog' : a.run # upload'[u].run
               /\ Aim(u)' \in objects' <=> upload'[u].pc = "written"
    BY <1>1, <1>5, <1>6, <2>1, <2>2, <2>3 DEF Books
  <2> QED
    BY <1>1, <2>3 DEF Books
<1>11. Accounted'
  <2>1. \A u \in Tasks : Active(u) => Active(u)' /\ upload'[u].run = upload[u].run
    BY <1>5, <1>6
  <2>2. aim.run \in {upload'[u].run : u \in {v \in Tasks : Active(v)'}}
    BY <1>1, <1>3, <1>5, <1>6 DEF Active
  <2> QED
    BY <1>1, <1>4, <2>1, <2>2 DEF Accounted
<1>12. \A a \in catalog' : Backed(a)'
  BY <1>1, <1>4, Numbers, BackedStays
<1>13. \A s \in Sweepers : Sweeping(sweep[s])'
  <2>1. Active(t) /\ aim.run = upload[t].run
    BY <1>1, <1>3 DEF Active
  <2> QED
    BY <1>1, <1>4, <2>1, SweepsStay
<1> QED
  BY <1>8, <1>9, <1>10, <1>11, <1>12, <1>13

\* A run at rest, and what the others do not notice of it.
LEMMA RunEnds ==
  ASSUME Inv, NEW t \in Tasks, upload' = [upload EXCEPT ![t] = NoUpload]
  PROVE  /\ upload' \in [Tasks -> Upload] /\ ~Active(t)'
         /\ \A u \in Tasks \ {t} : /\ Active(u)' <=> Active(u)
                                   /\ Aim(u)' = Aim(u) /\ upload'[u] = upload[u]
<1>1. NoUpload \in Upload /\ NoUpload.pc = "idle"
  BY AtRest DEF Inv, Typed, TaskRow
<1>2. /\ upload' \in [Tasks -> Upload] /\ upload'[t] = NoUpload
      /\ \A u \in Tasks \ {t} : upload'[u] = upload[u]
  BY <1>1 DEF Inv, Typed
<1> QED
  BY <1>1, <1>2 DEF Active, Aim

\* A write that fails leaves nothing.
LEMMA WriteFailsStep ==
  ASSUME Inv, NEW t \in Tasks, WriteFails(t)
  PROVE  Inv'
<1> USE DEF Inv
<1>1. /\ upload[t].pc = "writing" /\ faults < MaxFaults /\ faults' = faults + 1
      /\ upload' = [upload EXCEPT ![t] = NoUpload]
      /\ UNCHANGED <<now, task, catalog, objects, strays, lock, sweep, runs, edits>>
  BY DEF WriteFails
<1>2. /\ upload' \in [Tasks -> Upload] /\ ~Active(t)'
      /\ \A u \in Tasks \ {t} : /\ Active(u)' <=> Active(u)
                                /\ Aim(u)' = Aim(u) /\ upload'[u] = upload[u]
  BY <1>1, RunEnds
<1>3. faults' \in 0 .. MaxFaults /\ faults' \in Nat /\ faults' >= faults
  <2>1. MaxFaults \in Nat
    BY BoundsAssumption
  <2> QED
    BY <1>1, <2>1, Numbers
<1>4. Typed'
  BY <1>1, <1>2, <1>3 DEF Typed, Table
<1>5. Apart'
  <2>1. Places' \subseteq Places
    BY <1>1, <1>2 DEF Places, Place
  <2> QED
    BY <1>1, <2>1, FewerPlaces
<1>6. Books'
  BY <1>1, <1>2 DEF Books
<1>7. Accounted'
  <2>1. \A o \in objects : o.run # upload[t].run
    <3>1. Aim(t) \in Places /\ Aim(t) \notin objects /\ Aim(t).run = upload[t].run
      BY <1>1 DEF Books, Places, Active, Aim
    <3> QED
      BY <3>1 DEF Apart, Places
  <2>2. \A u \in Tasks : u = t \/ (Active(u) => Active(u)' /\ upload'[u].run = upload[u].run)
    BY <1>2
  <2> QED
    BY <1>1, <2>1, <2>2 DEF Accounted
<1>8. \A a \in catalog' : Backed(a)'
  BY <1>1, <1>3, BackedStays
<1>9. \A s \in Sweepers : Sweeping(sweep[s])'
  BY <1>1, SweepsStay
<1> QED
  BY <1>4, <1>5, <1>6, <1>7, <1>8, <1>9

\* What an insert that fails leaves behind is listed among the strays.
LEMMA InsertArtifactFailsStep ==
  ASSUME Inv, NEW t \in Tasks, InsertArtifactFails(t)
  PROVE  Inv'
<1> USE DEF Inv
<1>1. /\ upload[t].pc = "written" /\ faults < MaxFaults /\ faults' = faults + 1
      /\ strays' = strays \cup {upload[t].run}
      /\ upload' = [upload EXCEPT ![t] = NoUpload]
      /\ UNCHANGED <<now, task, catalog, objects, lock, sweep, runs, edits>>
  BY DEF InsertArtifactFails
<1>2. /\ upload' \in [Tasks -> Upload] /\ ~Active(t)'
      /\ \A u \in Tasks \ {t} : /\ Active(u)' <=> Active(u)
                                /\ Aim(u)' = Aim(u) /\ upload'[u] = upload[u]
  BY <1>1, RunEnds
<1>3. faults' \in 0 .. MaxFaults /\ faults' \in Nat /\ faults' >= faults
  <2>1. MaxFaults \in Nat
    BY BoundsAssumption
  <2> QED
    BY <1>1, <2>1, Numbers
<1>4. Active(t) /\ Aim(t) \in Places /\ Aim(t).run = upload[t].run
  BY <1>1 DEF Places, Active, Aim
<1>5. strays' \subseteq 1 .. runs'
  <2>1. upload[t].run \in 1 .. runs
    BY <1>4 DEF Apart
  <2> QED
    BY <1>1, <2>1 DEF Typed
<1>6. Typed'
  BY <1>1, <1>2, <1>3, <1>5 DEF Typed, Table
<1>7. Apart'
  <2>1. Places' \subseteq Places
    BY <1>1, <1>2 DEF Places, Place
  <2> QED
    BY <1>1, <2>1, FewerPlaces
<1>8. Books'
  <2>1. \A a \in catalog : a.run # upload[t].run
    BY <1>4 DEF Books
  <2>2. ASSUME NEW u \in Tasks \ {t}, Active(u)
        PROVE  upload[u].run # upload[t].run
    <3>1. Aim(u) \in Places /\ Aim(u).run = upload[u].run /\ Aim(u) # Aim(t)
      BY <2>2 DEF Places, Aim
    <3> QED
      BY <1>4, <3>1 DEF Apart
  <2> QED
    BY <1>1, <1>2, <2>1, <2>2 DEF Books
<1>9. Accounted'
  <2>1. \A u \in Tasks : u = t \/ (Active(u) => Active(u)' /\ upload'[u].run = upload[u].run)
    BY <1>2
  <2> QED
    BY <1>1, <2>1 DEF Accounted
<1>10. \A a \in catalog' : Backed(a)'
  BY <1>1, <1>3, BackedStays
<1>11. \A s \in Sweepers : Sweeping(sweep[s])'
  BY <1>1, SweepsStay
<1> QED
  BY <1>6, <1>7, <1>8, <1>9, <1>10, <1>11

\* The next id is larger than every id there is.
LEMMA NextIdIsNew ==
  ASSUME Table(catalog)
  PROVE  NextId \in Nat /\ \A a \in catalog : a.id < NextId
<1>1. PICK ids : ids = {0} \cup {a.id : a \in catalog}
  OBVIOUS
<1>2. ids \subseteq Nat /\ 0 \in ids /\ \A a \in catalog : a.id \in ids
  BY <1>1 DEF Table, Artifact
<1>3. IsFiniteSet(ids)
  <2>1. IsFiniteSet({a.id : a \in catalog})
    <3>1. PICK T : T = {a.id : a \in catalog}
      OBVIOUS
    <3>2. PICK f : f = [a \in catalog |-> a.id]
      OBVIOUS
    <3>3. f \in Surjection(catalog, T)
      BY <3>1, <3>2 DEF Surjection, Range
    <3>4. IsFiniteSet(catalog)
      BY DEF Table
    <3> QED
      BY <3>1, <3>3, <3>4, FS_Surjection
  <2>2. IsFiniteSet({0})
    BY FS_Singleton
  <2> QED
    BY <1>1, <2>1, <2>2, FS_Union
<1>4. \E m \in ids : \A x \in ids : m >= x
  BY <1>2, <1>3, Largest
<1>5. PICK top : top = Max(ids)
  OBVIOUS
<1>6. top \in ids /\ \A x \in ids : top >= x
  BY <1>4, <1>5 DEF Max
<1>7. NextId = 1 + top
  BY <1>1, <1>5 DEF NextId
<1>8. top \in Nat /\ \A a \in catalog : a.id \in Nat /\ top >= a.id
  BY <1>2, <1>6
<1> QED
  BY <1>7, <1>8

\* A row goes in for an object that is there.
LEMMA InsertArtifactStep ==
  ASSUME Inv, NEW t \in Tasks, InsertArtifact(t)
  PROVE  Inv'
<1> USE DEF Inv
<1>1. /\ upload[t].pc = "written"
      /\ upload' = [upload EXCEPT ![t] = NoUpload]
      /\ UNCHANGED <<now, task, objects, strays, lock, sweep, runs, edits, faults>>
  BY DEF InsertArtifact, InsertArtifactAt
<1>2. PICK new : new = [id |-> NextId, task |-> t, storage |-> upload[t].storage,
                        key |-> upload[t].key, at |-> now, run |-> upload[t].run]
  OBVIOUS
<1>3. catalog' = catalog \cup {new}
  BY <1>2 DEF InsertArtifact, InsertArtifactAt
<1>4. /\ new.id = NextId /\ new.task = t /\ new.storage = upload[t].storage
      /\ new.key = upload[t].key /\ new.at = now /\ new.run = upload[t].run
  BY <1>2
<1>5. NextId \in Nat /\ \A a \in catalog : a.id < NextId
  BY NextIdIsNew DEF Typed
<1>6. new \in Artifact
  <2>1. /\ now \in Nat /\ upload[t].storage \in Storages
        /\ upload[t].key \in Nat /\ upload[t].run \in Nat
    BY Numbers
  <2> QED
    BY <1>2, <1>5, <2>1 DEF Artifact
<1>7. Table(catalog')
  <2>1. IsFiniteSet(catalog')
    BY <1>3, FS_AddElement DEF Typed, Table
  <2>2. \A a \in catalog : a.id # new.id
    BY <1>4, <1>5, Numbers
  <2>3. catalog' \subseteq Artifact
    BY <1>3, <1>6 DEF Typed, Table
  <2>4. \A a, b \in catalog' : a.id = b.id => a = b
    BY <1>3, <2>2 DEF Typed, Table
  <2> QED
    BY <2>1, <2>3, <2>4 DEF Table
<1>8. /\ upload' \in [Tasks -> Upload] /\ ~Active(t)'
      /\ \A u \in Tasks \ {t} : /\ Active(u)' <=> Active(u)
                                /\ Aim(u)' = Aim(u) /\ upload'[u] = upload[u]
  BY <1>1, RunEnds
<1>9. Typed'
  BY <1>1, <1>7, <1>8 DEF Typed, Table
<1>10. /\ Active(t) /\ Aim(t) \in Places /\ Aim(t).run = upload[t].run
       /\ Place(new) = Aim(t) /\ Aim(t) \in objects
  BY <1>1, <1>4 DEF Places, Place, Active, Aim, Books
<1>11. Apart'
  <2>1. \A a \in catalog' : Place(a) \in Places
    BY <1>3, <1>10 DEF Places
  <2>2. \A a : Place(a)' = Place(a)
    BY DEF Place
  <2>3. \A u \in Tasks : Active(u)' => Aim(u)' \in Places
    BY <1>8 DEF Places
  <2>4. objects' \subseteq Places
    BY <1>1 DEF Places
  <2>5. Places' \subseteq Places
    BY <2>1, <2>2, <2>3, <2>4 DEF Places
  <2> QED
    BY <1>1, <2>5, FewerPlaces
<1>12. Books'
  <2>1. \A a \in catalog : a.run # new.run
    BY <1>4, <1>10 DEF Books
  <2>2. \A a \in catalog' : a.at <= now' /\ a.run \notin strays'
    BY <1>1, <1>3, <1>4, <1>10, Numbers DEF Books
  <2>3. \A a, b \in catalog' : a.run = b.run => a = b
    BY <1>3, <2>1 DEF Books
  <2>4. ASSUME NEW u \in Tasks \ {t}, Active(u)
        PROVE  upload[u].run # new.run
    <3>1. Aim(u) \in Places /\ Aim(u).run = upload[u].run /\ Aim(u) # Aim(t)
      BY <2>4 DEF Places, Aim
    <3> QED
      BY <1>4, <1>10, <3>1 DEF Apart
  <2>5. ASSUME NEW u \in Tasks, Active(u)'
        PROVE  /\ upload'[u].run \notin strays'
               /\ \A a \in catalog' : a.run # upload'[u].run
               /\ Aim(u)' \in objects' <=> upload'[u].pc = "written"
    <3>1. u # t /\ Active(u) /\ upload'[u] = upload[u] /\ Aim(u)' = Aim(u)
      BY <1>8, <2>5
    <3> QED
      BY <1>1, <1>3, <2>4, <3>1 DEF Books
  <2>6. \A u \in Tasks : task'[u].started <= now'
    BY <1>1 DEF Books
  <2> QED
    BY <2>2, <2>3, <2>5, <2>6 DEF Books
<1>13. Accounted'
  <2>1. \A u \in Tasks : u = t \/ (Active(u) => Active(u)' /\ upload'[u].run = upload[u].run)
    BY <1>8
  <2>2. upload[t].run \in {a.run : a \in catalog'}
    BY <1>3, <1>4
  <2>3. {a.run : a \in catalog} \subseteq {a.run : a \in catalog'}
    BY <1>3
  <2> QED
    BY <1>1, <2>1, <2>2, <2>3 DEF Accounted
<1>14. ASSUME NEW a \in catalog'
       PROVE  Backed(a)'
  <2>1. CASE a \in catalog
    BY <1>1, <1>3, <2>1, Numbers, BackedStays
  <2>2. CASE a = new
    BY <1>1, <1>10, <2>2 DEF Backed, Place
  <2> QED
    BY <1>3, <2>1, <2>2
<1>15. \A s \in Sweepers : Sweeping(sweep[s])'
  <2>1. \A a \in catalog' \ catalog : Active(t) /\ a.run = upload[t].run
    BY <1>3, <1>4, <1>10
  <2> QED
    BY <1>1, <1>3, <2>1, SweepsStay
<1> QED
  BY <1>9, <1>11, <1>12, <1>13, <1>14, <1>15

\* A crash ends every run and every pass; what was between two steps is a stray, or a row
\* that lost its object and has a newer one.
LEMMA CrashStep ==
  ASSUME Inv, Crash
  PROVE  Inv'
<1> USE DEF Inv
<1>1. /\ faults < MaxFaults /\ faults' = faults + 1
      /\ strays' = strays \cup {upload[t].run : t \in {u \in Tasks : upload[u].pc = "written"}}
      /\ upload' = [t \in Tasks |-> NoUpload]
      /\ lock' = "none"
      /\ sweep' = [s \in Sweepers |-> NoSweep]
      /\ UNCHANGED <<now, task, catalog, objects, runs, edits>>
  BY DEF Crash
<1>2. upload' \in [Tasks -> Upload] /\ \A t \in Tasks : ~Active(t)'
  <2>1. ASSUME NEW t \in Tasks
        PROVE  NoUpload \in Upload /\ NoUpload.pc = "idle"
    BY Numbers, AtRest
  <2> QED
    BY <1>1, <2>1 DEF Active
<1>3. faults' \in 0 .. MaxFaults /\ faults \in Nat /\ faults' > 0
  <2>1. MaxFaults \in Nat
    BY BoundsAssumption
  <2> QED
    BY <1>1, <2>1, Numbers
<1>4. \A t \in Tasks : upload[t].pc = "written" =>
        Active(t) /\ Aim(t) \in Places /\ Aim(t).run = upload[t].run
  BY DEF Places, Active, Aim
<1>5. strays' \subseteq 1 .. runs'
  <2>1. \A t \in Tasks : upload[t].pc = "written" => upload[t].run \in 1 .. runs
    BY <1>4 DEF Apart
  <2> QED
    BY <1>1, <2>1 DEF Typed
<1>6. PICK rest : rest = NoSweep /\ rest \in Pass /\ rest.pc = "idle"
                  /\ Sweeping(rest) /\ Sweeping(rest)'
  BY AtRest
<1>7. sweep' \in [Sweepers -> Pass] /\ \A s \in Sweepers : sweep'[s] = rest
  BY <1>1, <1>6
<1>8. Typed'
  BY <1>1, <1>2, <1>3, <1>5, <1>6, <1>7 DEF Typed, Table
<1>9. Apart'
  <2>1. Places' \subseteq Places
    BY <1>1, <1>2 DEF Places, Place
  <2> QED
    BY <1>1, <2>1, FewerPlaces
<1>10. Books'
  <2>1. \A a \in catalog, t \in Tasks : upload[t].pc = "written" => a.run # upload[t].run
    BY <1>4 DEF Books
  <2>2. \A a \in catalog' : a.at <= now' /\ a.run \notin strays'
    BY <1>1, <2>1 DEF Books
  <2> QED
    BY <1>1, <1>2, <2>2 DEF Books
<1>11. Accounted'
  <2>1. ASSUME NEW o \in objects, NEW t \in Tasks, Active(t), o.run = upload[t].run
        PROVE  o.run \in strays'
    <3>1. Aim(t) \in Places /\ Aim(t).run = upload[t].run /\ o \in Places
      BY <2>1 DEF Places, Aim
    <3>2. Aim(t) = o
      BY <2>1, <3>1 DEF Apart
    <3>3. upload[t].pc = "written"
      BY <2>1, <3>2 DEF Books
    <3> QED
      BY <1>1, <2>1, <3>3
  <2> QED
    BY <1>1, <2>1 DEF Accounted
<1>12. ASSUME NEW a \in catalog'
       PROVE  Backed(a)'
  <2>1. CASE Place(a) \in objects
    BY <1>1, <2>1 DEF Backed, Place
  <2>2. CASE \E s \in Sweepers : sweep[s].pc = "row" /\ a = Head(sweep[s].del)
    <3>1. PICK s \in Sweepers : sweep[s].pc = "row" /\ a = Head(sweep[s].del)
      BY <2>2
    <3>2. PICK w \in Pass : w = sweep[s] /\ Sweeping(w)
      BY DEF Typed
    <3>3. w.pc = "row" /\ a = Head(w.del) /\ w.del \in Seq(Artifact)
      BY <3>1, <3>2 DEF Pass
    <3>4. /\ Distinct(w.del) /\ w.del # <<>> /\ ToSet(w.del) \subseteq RowsOf(w.task.name)
          /\ \E b \in RowsOf(w.task.name) \ ToSet(w.del) : \A c \in ToSet(w.del) : Newer(b, c)
      BY <3>2, <3>3 DEF Sweeping
    <3>5. a \in ToSet(w.del)
      BY <3>3, <3>4, Shorter
    <3>6. \E b \in RowsOf(a.task) : Newer(b, a)
      BY <3>4, <3>5 DEF RowsOf
    <3>7. ~Newest(a)'
      BY <1>1, <3>6 DEF Newest, RowsOf
    <3> QED
      BY <1>3, <3>7 DEF Backed
  <2>3. CASE faults > 0 /\ ~Newest(a)
    <3>1. ~Newest(a)'
      BY <1>1, <2>3 DEF Newest, RowsOf
    <3> QED
      BY <1>3, <3>1 DEF Backed
  <2> QED
    BY <1>1, <2>1, <2>2, <2>3 DEF Backed
<1>13. \A s \in Sweepers : Sweeping(sweep[s])'
  BY <1>6, <1>7
<1> QED
  BY <1>8, <1>9, <1>10, <1>11, <1>12, <1>13

-----------------------------------------------------------------------------
(***************************************************************************)
(* The sweeper.                                                            *)
(***************************************************************************)

\* The mutex: while one pass is under way, the others are not.
LEMMA OnePass ==
  ASSUME Typed, NEW s \in Sweepers, sweep[s].pc # "idle"
  PROVE  lock = s /\ \A q \in Sweepers \ {s} : sweep[q].pc = "idle"
BY DEF Typed

\* The artifact a pass is about to delete is not the newest of its task.
LEMMA NeverTheNewest ==
  ASSUME NEW w \in Pass, Sweeping(w), w.pc \in {"prune", "row"}, w.del # <<>>
  PROVE  /\ Head(w.del) \in RowsOf(w.task.name)
         /\ \E b \in RowsOf(w.task.name) : b # Head(w.del) /\ Newer(b, Head(w.del))
<1>1. /\ Distinct(w.del) /\ w.del \in Seq(Artifact) /\ ToSet(w.del) \subseteq RowsOf(w.task.name)
      /\ \E b \in RowsOf(w.task.name) \ ToSet(w.del) : \A c \in ToSet(w.del) : Newer(b, c)
  BY DEF Sweeping, Pass
<1>2. Head(w.del) \in ToSet(w.del)
  BY <1>1, Shorter
<1> QED
  BY <1>1, <1>2

\* A step of a pass that changes neither rows nor objects.
LEMMA SweepOnly ==
  ASSUME Inv, NEW s \in Sweepers, NEW w \in Pass, Sweeping(w),
         sweep' \in [Sweepers -> Pass], sweep'[s] = w,
         \A q \in Sweepers \ {s} : sweep[q].pc = "idle" /\ sweep'[q] = sweep[q],
         lock' \in {s, "none"}, w.pc # "idle" => lock' = s,
         faults' \in 0 .. MaxFaults, faults' >= faults, sweep[s].pc = "row" => faults' > 0,
         UNCHANGED <<now, task, catalog, objects, upload, strays, runs, edits>>
  PROVE  Inv'
<1> USE DEF Inv
<1>1. Typed'
  BY DEF Typed, Table
<1>2. Apart' /\ Books' /\ Accounted'
  BY Numbers, BooksStay
<1>3. faults \in Nat /\ faults' \in Nat
  <2>1. MaxFaults \in Nat
    BY BoundsAssumption
  <2> QED
    BY <2>1, Numbers
<1>4. ASSUME NEW a \in catalog'
      PROVE  Backed(a)'
  <2>1. CASE Place(a) \in objects
    BY <2>1 DEF Backed, Place
  <2>2. CASE \E q \in Sweepers : sweep[q].pc = "row" /\ a = Head(sweep[q].del)
    <3>1. sweep[s].pc = "row" /\ a = Head(sweep[s].del)
      BY <2>2
    <3>2. PICK v \in Pass : v = sweep[s] /\ Sweeping(v)
      BY DEF Typed
    <3>3. v.pc = "row" /\ a = Head(v.del) /\ v.del # <<>>
      BY <3>1, <3>2 DEF Sweeping
    <3>4. a \in RowsOf(v.task.name) /\ \E b \in RowsOf(v.task.name) : Newer(b, a)
      BY <3>2, <3>3, NeverTheNewest
    <3>5. ~Newest(a)'
      BY <3>4 DEF Newest, RowsOf
    <3> QED
      BY <3>1, <3>5 DEF Backed
  <2>3. CASE faults > 0 /\ ~Newest(a)
    <3>1. ~Newest(a)'
      BY <2>3 DEF Newest, RowsOf
    <3> QED
      BY <1>3, <2>3, <3>1 DEF Backed
  <2> QED
    BY <1>4, <2>1, <2>2, <2>3 DEF Backed
<1>5. Sweeping(w)'
  BY SweepingStays
<1>6. ASSUME NEW q \in Sweepers \ {s}
      PROVE  Sweeping(sweep[q])'
  <2>1. PICK v : v = sweep[q] /\ v.pc = "idle" /\ v.deleted = v.removed
    BY DEF Sweeping
  <2>2. sweep'[q] = v
    BY <2>1
  <2> QED
    BY <2>1, <2>2, IdleSweeping
<1>7. \A q \in Sweepers : Sweeping(sweep[q])'
  BY <1>5, <1>6
<1> QED
  BY <1>1, <1>2, <1>4, <1>7

\* The one that gets the mutex starts with copies of the tasks.
LEMMA BeginStep ==
  ASSUME Inv, NEW s \in Sweepers, Begin(s)
  PROVE  Inv'
<1> USE DEF Inv
<1>1. PICK copies : copies = {[name |-> t, storage |-> task[t].storage, policy |-> task[t].policy] :
                                t \in {u \in Tasks : task[u].exists}}
  OBVIOUS
<1>2. PICK w : w = [NoSweep EXCEPT !.pc = "next", !.todo = copies]
  OBVIOUS
<1>3. /\ sweep[s].pc = "idle" /\ lock = "none" /\ lock' = s
      /\ sweep' = [sweep EXCEPT ![s] = w]
      /\ UNCHANGED <<now, task, catalog, objects, upload, strays, runs, edits, faults>>
  BY <1>1, <1>2 DEF Begin, BeginWith
<1>4. copies \subseteq TaskCopy
  BY <1>1 DEF Typed, TaskRow, TaskCopy
<1>5. w \in Pass /\ w.pc = "next" /\ w.deleted = 0 /\ w.removed = 0
  BY <1>2, <1>4, AtRest DEF NoSweep, Pass
<1>6. Sweeping(w)
  BY <1>5, IdleSweeping
<1>7. \A q \in Sweepers : sweep[q].pc = "idle"
  BY <1>3, BoundsAssumption DEF Typed
<1>8. faults' \in 0 .. MaxFaults /\ faults' >= faults
  BY <1>3, Numbers DEF Typed
<1> QED
  BY <1>3, <1>5, <1>6, <1>7, <1>8, SweepOnly DEF Typed

\* A pass that goes on to the next task, or is over.
LEMMA OnwardIsRight ==
  ASSUME NEW v \in Pass, Sweeping(v)
  PROVE  Onward(v) \in Pass /\ Onward(v).pc = "next" /\ Sweeping(Onward(v))
<1>1. PICK w : w = Onward(v)
  OBVIOUS
<1>2. w \in Pass /\ w.pc = "next" /\ w.deleted = v.deleted /\ w.removed = v.removed
  BY <1>1, AtRest DEF Onward, NoSweep, Pass
<1>3. Sweeping(w)
  BY <1>2, IdleSweeping DEF Sweeping
<1> QED
  BY <1>1, <1>2, <1>3

\* A pass leaves a task, or all of them, behind.
LEMMA TaskEndsStep ==
  ASSUME Inv, NEW s \in Sweepers, TaskEnds(s) \/ ListFails(s) \/ EndSweep(s)
  PROVE  Inv'
<1> USE DEF Inv
<1>1. PICK v \in Pass : v = sweep[s] /\ Sweeping(v)
  BY DEF Typed
<1>2. /\ v.pc \in {"listed", "listing", "next"}
      /\ \/ sweep' = [sweep EXCEPT ![s] = Onward(v)] /\ lock' = lock
         \/ sweep' = [sweep EXCEPT ![s] = NoSweep] /\ lock' = "none"
      /\ faults' = faults \/ (faults < MaxFaults /\ faults' = faults + 1)
      /\ UNCHANGED <<now, task, catalog, objects, upload, strays, runs, edits>>
  BY <1>1 DEF TaskEnds, ListFails, EndSweep
<1>3. lock = s /\ \A q \in Sweepers \ {s} : sweep[q].pc = "idle"
  BY <1>1, <1>2, OnePass
<1>4. faults' \in 0 .. MaxFaults /\ faults' >= faults
  <2>1. MaxFaults \in Nat /\ faults \in 0 .. MaxFaults
    BY BoundsAssumption DEF Typed
  <2> QED
    BY <1>2, <2>1
<1>5. CASE sweep' = [sweep EXCEPT ![s] = Onward(v)] /\ lock' = lock
  <2>1. PICK w \in Pass : w = Onward(v) /\ w.pc = "next" /\ Sweeping(w)
    BY <1>1, OnwardIsRight
  <2>2. sweep' \in [Sweepers -> Pass] /\ sweep'[s] = w
        /\ \A q \in Sweepers \ {s} : sweep'[q] = sweep[q]
    BY <1>5, <2>1 DEF Typed
  <2> QED
    BY <1>1, <1>2, <1>3, <1>4, <1>5, <2>1, <2>2, SweepOnly
<1>6. CASE sweep' = [sweep EXCEPT ![s] = NoSweep] /\ lock' = "none"
  <2>1. PICK w \in Pass : w = NoSweep /\ w.pc = "idle" /\ Sweeping(w)
    BY AtRest
  <2>2. sweep' \in [Sweepers -> Pass] /\ sweep'[s] = w
        /\ \A q \in Sweepers \ {s} : sweep'[q] = sweep[q]
    BY <1>6, <2>1 DEF Typed
  <2> QED
    BY <1>1, <1>2, <1>3, <1>4, <1>6, <2>1, <2>2, SweepOnly
<1> QED
  BY <1>2, <1>5, <1>6

\* The list a pass starts on spares the newest row, and has each of the others once.
LEMMA NextTaskStep ==
  ASSUME Inv, NEW s \in Sweepers, NextTask(s)
  PROVE  Inv'
<1> USE DEF Inv
<1>1. PICK v \in Pass : v = sweep[s] /\ Sweeping(v)
  BY DEF Typed
<1>2. PICK c \in v.todo :
        sweep' = [sweep EXCEPT
          ![s].todo = @ \ {c}, ![s].task = c,
          ![s].del = IF c.policy \in {p \in Policies : Enabled(p)}
                     THEN Forget(c.policy, RowsOf(c.name)) ELSE <<>>,
          ![s].pc = IF c.policy \in {p \in Policies : Enabled(p)} THEN "prune" ELSE "orphans"]
  BY <1>1 DEF NextTask, NextTaskWith
<1>3. /\ v.pc = "next"
      /\ UNCHANGED <<now, task, catalog, objects, upload, strays, lock, runs, edits, faults>>
  BY <1>1 DEF NextTask, NextTaskWith
<1>4. c \in TaskCopy /\ c.policy \in Policies /\ c.name \in Tasks
  BY DEF Pass, TaskCopy
<1>5. PICK del : del = IF Enabled(c.policy) THEN Forget(c.policy, RowsOf(c.name)) ELSE <<>>
  OBVIOUS
<1>6. PICK pc : pc = IF Enabled(c.policy) THEN "prune" ELSE "orphans"
  OBVIOUS
<1>7. PICK w : w = [v EXCEPT !.todo = @ \ {c}, !.task = c, !.del = del, !.pc = pc]
  OBVIOUS
<1>8. sweep' = [sweep EXCEPT ![s] = w]
  BY <1>1, <1>2, <1>4, <1>5, <1>6, <1>7 DEF Typed, Pass
<1>9. /\ del \in Seq(RowsOf(c.name))
      /\ Enabled(c.policy) =>
           /\ Distinct(del)
           /\ del # <<>> =>
                \E b \in RowsOf(c.name) \ ToSet(del) : \A a \in ToSet(del) : Newer(b, a)
  <2>1. CASE Enabled(c.policy)
    <3>1. PICK rows : rows = RowsOf(c.name) /\ rows \in SUBSET catalog
      BY DEF RowsOf
    <3>2. Table(rows)
      BY <3>1, PartOfTable DEF Typed
    <3>3. c.policy \in [last : Nat, daily : Nat, weekly : Nat, monthly : Nat]
      BY <1>4, BoundsAssumption
    <3> QED
      BY <1>5, <2>1, <3>1, <3>2, <3>3, ForgetKeepsNewest
  <2>2. CASE ~Enabled(c.policy)
    BY <1>5, <2>2, EmptySeq
  <2> QED
    BY <2>1, <2>2
<1>10. ToSet(del) \subseteq RowsOf(c.name) /\ del \in Seq(Artifact)
  <2>1. RowsOf(c.name) \subseteq Artifact
    BY DEF RowsOf, Typed, Table
  <2>2. ToSet(del) \subseteq RowsOf(c.name)
    BY <1>9 DEF ToSet
  <2> QED
    BY <1>9, <2>1, <2>2
<1>11. /\ w \in Pass /\ w.pc = pc /\ w.task = c /\ w.del = del
       /\ w.deleted = v.deleted /\ w.removed = v.removed
  BY <1>4, <1>6, <1>7, <1>10 DEF Pass
<1>12. Sweeping(w)
  BY <1>1, <1>4, <1>6, <1>9, <1>10, <1>11 DEF Sweeping
<1>13. lock = s /\ \A q \in Sweepers \ {s} : sweep[q].pc = "idle"
  BY <1>1, <1>3, OnePass
<1>14. /\ sweep' \in [Sweepers -> Pass] /\ sweep'[s] = w
       /\ \A q \in Sweepers \ {s} : sweep'[q] = sweep[q]
  BY <1>8, <1>11 DEF Typed
<1>15. faults' \in 0 .. MaxFaults /\ faults' >= faults
  BY <1>3, Numbers DEF Typed
<1> QED
  BY <1>1, <1>3, <1>11, <1>12, <1>13, <1>14, <1>15, SweepOnly

\* What is left of the list after its head is as right as the list was.
LEMMA SkipStep ==
  ASSUME Inv, NEW s \in Sweepers, SkipObject(s) \/ DeleteRowFails(s)
  PROVE  Inv'
<1> USE DEF Inv
<1>1. PICK v \in Pass : v = sweep[s] /\ Sweeping(v)
  BY DEF Typed
<1>2. PICK w : w = [v EXCEPT !.del = Tail(v.del), !.pc = "prune"]
  OBVIOUS
<1>3. /\ v.pc \in {"prune", "row"} /\ v.del # <<>>
      /\ UNCHANGED <<now, task, catalog, objects, upload, strays, lock, runs, edits>>
  BY <1>1 DEF SkipObject, SkipObjectTo, ObjectRefused, DeleteRowFails, Sweeping
<1>4. sweep' = [sweep EXCEPT ![s] = w]
  <2>1. CASE SkipObject(s)
    <3>1. sweep' = [sweep EXCEPT ![s].del = Tail(sweep[s].del)] /\ v.pc = "prune"
      BY <1>1, <2>1 DEF SkipObject, SkipObjectTo, ObjectRefused
    <3>2. w = [v EXCEPT !.del = Tail(v.del)]
      BY <1>2, <3>1 DEF Pass
    <3> QED
      BY <1>1, <3>1, <3>2 DEF Typed
  <2>2. CASE DeleteRowFails(s)
    <3>1. sweep' = [sweep EXCEPT ![s].del = Tail(@), ![s].pc = "prune"]
      BY <2>2 DEF DeleteRowFails
    <3> QED
      BY <1>1, <1>2, <3>1 DEF Typed, Pass
  <2> QED
    BY <2>1, <2>2
<1>5. /\ faults' \in 0 .. MaxFaults /\ faults' >= faults
      /\ v.pc = "row" => faults' > 0
  <2>1. MaxFaults \in Nat /\ faults \in 0 .. MaxFaults
    BY BoundsAssumption DEF Typed
  <2>2. \/ v.pc = "prune" /\ faults' = faults
        \/ faults < MaxFaults /\ faults' = faults + 1
    BY <1>1 DEF SkipObject, SkipObjectTo, ObjectRefused, DeleteRowFails
  <2> QED
    BY <2>1, <2>2
<1>6. PICK rest : rest = Tail(v.del)
  OBVIOUS
<1>7. Distinct(v.del) /\ v.del \in Seq(Artifact)
  BY <1>1, <1>3 DEF Sweeping, Pass
<1>8. rest \in Seq(Artifact) /\ Distinct(rest) /\ ToSet(rest) \subseteq ToSet(v.del)
  BY <1>3, <1>6, <1>7, Shorter
<1>9. /\ w \in Pass /\ w.pc = "prune" /\ w.task = v.task /\ w.del = rest
      /\ w.deleted = v.deleted /\ w.removed = v.removed
  BY <1>2, <1>6, <1>8 DEF Pass
<1>10. Sweeping(w)
  <2>1. ToSet(v.del) \subseteq RowsOf(v.task.name) /\ v.task \in TaskCopy
        /\ v.deleted = v.removed
        /\ \E b \in RowsOf(v.task.name) \ ToSet(v.del) : \A a \in ToSet(v.del) : Newer(b, a)
    BY <1>1, <1>3 DEF Sweeping
  <2> QED
    BY <1>8, <1>9, <2>1 DEF Sweeping
<1>11. lock = s /\ \A q \in Sweepers \ {s} : sweep[q].pc = "idle"
  BY <1>1, <1>3, OnePass
<1>12. /\ sweep' \in [Sweepers -> Pass] /\ sweep'[s] = w
       /\ \A q \in Sweepers \ {s} : sweep'[q] = sweep[q]
  BY <1>4, <1>9 DEF Typed
<1> QED
  BY <1>1, <1>3, <1>5, <1>9, <1>10, <1>11, <1>12, SweepOnly

\* The list is at its end.
LEMMA PruneEndsStep ==
  ASSUME Inv, NEW s \in Sweepers, PruneEnds(s)
  PROVE  Inv'
<1> USE DEF Inv
<1>1. PICK v \in Pass : v = sweep[s] /\ Sweeping(v)
  BY DEF Typed
<1>2. PICK w : w = [v EXCEPT !.pc = "orphans"]
  OBVIOUS
<1>3. /\ v.pc = "prune"
      /\ sweep' = [sweep EXCEPT ![s].pc = "orphans"]
      /\ UNCHANGED <<now, task, catalog, objects, upload, strays, lock, runs, edits, faults>>
  BY <1>1 DEF PruneEnds
<1>4. /\ w \in Pass /\ w.pc = "orphans" /\ w.task = v.task
      /\ w.deleted = v.deleted /\ w.removed = v.removed
  BY <1>2 DEF Pass
<1>5. Sweeping(w)
  BY <1>1, <1>3, <1>4 DEF Sweeping
<1>6. lock = s /\ \A q \in Sweepers \ {s} : sweep[q].pc = "idle"
  BY <1>1, <1>3, OnePass
<1>7. /\ sweep' \in [Sweepers -> Pass] /\ sweep'[s] = w
      /\ \A q \in Sweepers \ {s} : sweep'[q] = sweep[q]
  BY <1>1, <1>2, <1>3, <1>4 DEF Typed
<1>8. faults' \in 0 .. MaxFaults /\ faults' >= faults
  BY <1>3, Numbers DEF Typed
<1> QED
  BY <1>1, <1>3, <1>4, <1>5, <1>6, <1>7, <1>8, SweepOnly

\* What Orphans derives from the rows is what the rows say.
LEMMA ReadCatalogStep ==
  ASSUME Inv, NEW s \in Sweepers, ReadCatalog(s)
  PROVE  Inv'
<1> USE DEF Inv
<1>1. PICK v \in Pass : v = sweep[s] /\ Sweeping(v)
  BY DEF Typed
<1>2. /\ v.pc = "orphans"
      /\ UNCHANGED <<now, task, catalog, objects, upload, strays, lock, runs, edits, faults>>
  BY <1>1 DEF ReadCatalog, ReadCatalogAs
<1>3. PICK known : known = {<<a.storage, a.key>> : a \in RowsOf(v.task.name)}
  OBVIOUS
<1>4. PICK scopes : scopes = {v.task.storage} \cup {a.storage : a \in RowsOf(v.task.name)}
  OBVIOUS
<1>5. PICK has : has = {a.run : a \in catalog}
  OBVIOUS
<1>6. PICK w : w = [v EXCEPT !.pc = "listing", !.known = known, !.scopes = scopes,
                             !.catalogued = has, !.lost = strays]
  OBVIOUS
<1>7. sweep' = [sweep EXCEPT ![s] = w]
  <2>1. sweep' = [sweep EXCEPT ![s].pc = "listing", ![s].known = known, ![s].scopes = scopes,
                               ![s].catalogued = has, ![s].lost = strays]
    BY <1>1, <1>3, <1>4, <1>5 DEF ReadCatalog, ReadCatalogAs, Scopes
  <2> QED
    BY <1>1, <1>6, <2>1 DEF Typed, Pass
<1>8. v.task \in TaskCopy /\ v.task.storage \in Storages
  BY <1>1, <1>2 DEF Sweeping, TaskCopy
<1>9. /\ known \in SUBSET (Storages \X Nat) /\ scopes \in SUBSET Storages
      /\ has \in SUBSET Nat /\ strays \in SUBSET Nat
  <2>1. \A a \in RowsOf(v.task.name) : a.storage \in Storages /\ a.key \in Nat
    BY Numbers DEF RowsOf
  <2>2. known \in SUBSET (Storages \X Nat) /\ scopes \in SUBSET Storages
    BY <1>3, <1>4, <1>8, <2>1
  <2>3. has \in SUBSET Nat
    BY <1>5, Numbers
  <2>4. strays \in SUBSET Nat
    BY Numbers DEF Typed
  <2> QED
    BY <2>2, <2>3, <2>4
<1>10. /\ w \in Pass /\ w.pc = "listing" /\ w.task = v.task /\ w.known = known
       /\ w.scopes = scopes /\ w.catalogued = has /\ w.lost = strays
       /\ w.deleted = v.deleted /\ w.removed = v.removed
  BY <1>6, <1>9 DEF Pass
<1>11. Sweeping(w)
  <2>1. v.deleted = v.removed
    BY <1>1 DEF Sweeping
  <2>2. v.task.storage \in scopes
    BY <1>4
  <2>3. /\ \A a \in RowsOf(v.task.name) : <<a.storage, a.key>> \in known
        /\ \A k \in known : \E a \in RowsOf(v.task.name) : k = <<a.storage, a.key>>
    BY <1>3
  <2> QED
    BY <1>5, <1>8, <1>10, <2>1, <2>2, <2>3 DEF Sweeping
<1>12. lock = s /\ \A q \in Sweepers \ {s} : sweep[q].pc = "idle"
  BY <1>1, <1>2, OnePass
<1>13. /\ sweep' \in [Sweepers -> Pass] /\ sweep'[s] = w
       /\ \A q \in Sweepers \ {s} : sweep'[q] = sweep[q]
  BY <1>7, <1>10 DEF Typed
<1>14. faults' \in 0 .. MaxFaults /\ faults' >= faults
  BY <1>2, Numbers DEF Typed
<1> QED
  BY <1>1, <1>2, <1>10, <1>11, <1>12, <1>13, <1>14, SweepOnly

\* The objects no row knew, and of those in the task's storage every one.
LEMMA ListObjectsStep ==
  ASSUME Inv, NEW s \in Sweepers, ListObjects(s)
  PROVE  Inv'
<1> USE DEF Inv
<1>1. PICK v \in Pass : v = sweep[s] /\ Sweeping(v)
  BY DEF Typed
<1>2. /\ v.pc = "listing"
      /\ UNCHANGED <<now, task, catalog, objects, upload, strays, lock, runs, edits, faults>>
  BY <1>1 DEF ListObjects
<1>3. PICK found : found = {o.run : o \in {o \in objects :
                              /\ o.task = v.task.name /\ o.storage \in v.scopes
                              /\ <<o.storage, o.key>> \notin v.known}}
  OBVIOUS
<1>4. PICK w : w = [v EXCEPT !.pc = "listed", !.orphans = found]
  OBVIOUS
<1>5. sweep' = [sweep EXCEPT ![s] = w]
  <2>1. sweep' = [sweep EXCEPT ![s].pc = "listed", ![s].orphans = found]
    BY <1>1, <1>3 DEF ListObjects
  <2> QED
    BY <1>1, <1>4, <2>1 DEF Typed, Pass
<1>6. found \in SUBSET Nat
  <2>1. \A o \in objects : o.run \in Nat
    BY DEF Typed, Object
  <2> QED
    BY <1>3, <2>1
<1>7. /\ w \in Pass /\ w.pc = "listed" /\ w.task = v.task /\ w.orphans = found
      /\ w.catalogued = v.catalogued /\ w.lost = v.lost
      /\ w.deleted = v.deleted /\ w.removed = v.removed
  BY <1>4, <1>6 DEF Pass
<1>8. /\ v.deleted = v.removed /\ v.task \in TaskCopy
      /\ v.lost \subseteq strays /\ v.task.storage \in v.scopes
      /\ v.catalogued \subseteq {a.run : a \in catalog}
      /\ \A a \in RowsOf(v.task.name) : a.run \in v.catalogued => <<a.storage, a.key>> \in v.known
      /\ \A k \in v.known : \E a \in RowsOf(v.task.name) : k = <<a.storage, a.key>>
  BY <1>1, <1>2 DEF Sweeping
<1>9. /\ \A a \in catalog : /\ Place(a) \in Places /\ Place(a).storage = a.storage
                            /\ Place(a).task = a.task /\ Place(a).key = a.key
                            /\ Place(a).run = a.run
      /\ objects \subseteq Places
  BY DEF Places, Place
<1>10. ASSUME NEW o \in objects, o.task = v.task.name, o.storage \in v.scopes,
              <<o.storage, o.key>> \notin v.known
       PROVE  o.run \notin v.catalogued
  <2> SUFFICES ASSUME o.run \in v.catalogued PROVE FALSE
    OBVIOUS
  <2>1. PICK a \in catalog : a.run = o.run
    BY <1>8
  <2>2. Place(a) = o
    BY <1>9, <2>1 DEF Apart
  <2>3. a \in RowsOf(v.task.name) /\ a.storage = o.storage /\ a.key = o.key
    BY <1>9, <1>10, <2>2 DEF RowsOf
  <2> QED
    BY <1>8, <1>10, <2>1, <2>3
<1>11. ASSUME NEW o \in objects, o.task = v.task.name, o.storage = v.task.storage, o.run \in v.lost
       PROVE  o.run \in found
  <2>1. <<o.storage, o.key>> \notin v.known
    <3> SUFFICES ASSUME <<o.storage, o.key>> \in v.known PROVE FALSE
      OBVIOUS
    <3>1. PICK a \in RowsOf(v.task.name) : <<o.storage, o.key>> = <<a.storage, a.key>>
      BY <1>8
    <3>2. a \in catalog /\ a.task = o.task /\ a.key = o.key
      BY <1>11, <3>1 DEF RowsOf
    <3>3. Place(a) = o
      BY <1>9, <3>2 DEF Apart
    <3>4. a.run \in strays
      BY <1>8, <1>9, <1>11, <3>2, <3>3
    <3> QED
      BY <3>2, <3>4 DEF Books
  <2> QED
    BY <1>3, <1>8, <1>11, <2>1
<1>12. Sweeping(w)
  <2>1. found \cap v.catalogued = {}
    BY <1>3, <1>10
  <2> QED
    BY <1>7, <1>8, <1>11, <2>1 DEF Sweeping
<1>13. lock = s /\ \A q \in Sweepers \ {s} : sweep[q].pc = "idle"
  BY <1>1, <1>2, OnePass
<1>14. /\ sweep' \in [Sweepers -> Pass] /\ sweep'[s] = w
       /\ \A q \in Sweepers \ {s} : sweep'[q] = sweep[q]
  BY <1>5, <1>7 DEF Typed
<1>15. faults' \in 0 .. MaxFaults /\ faults' >= faults
  BY <1>2, Numbers DEF Typed
<1> QED
  BY <1>1, <1>2, <1>7, <1>12, <1>13, <1>14, <1>15, SweepOnly

\* The object goes first, and no other object with it.
LEMMA DeleteObjectStep ==
  ASSUME Inv, NEW s \in Sweepers, DeleteObject(s)
  PROVE  Inv'
<1> USE DEF Inv
<1>1. PICK v \in Pass : v = sweep[s] /\ Sweeping(v)
  BY DEF Typed
<1>2. PICK h : h = Head(v.del)
  OBVIOUS
<1>3. /\ v.pc = "prune" /\ v.del # <<>>
      /\ objects' = objects \ ObjectAt(h.storage, h)
      /\ sweep' = [sweep EXCEPT ![s].pc = "row"]
      /\ UNCHANGED <<now, task, catalog, upload, strays, lock, runs, edits, faults>>
  BY <1>1, <1>2 DEF DeleteObject, DeleteObjectIn
<1>4. h \in catalog
  BY <1>1, <1>2, <1>3, NeverTheNewest DEF RowsOf
<1>5. /\ \A a \in catalog : /\ Place(a) \in Places /\ Place(a).storage = a.storage
                            /\ Place(a).task = a.task /\ Place(a).key = a.key
                            /\ Place(a).run = a.run
      /\ objects \subseteq Places
  BY DEF Places, Place
<1>6. objects' = objects \ {Place(h)}
  <2>1. \A o \in objects : o.task = h.task /\ o.key = h.key => o = Place(h)
    BY <1>4, <1>5 DEF Apart
  <2> QED
    BY <1>3, <1>4, <1>5, <2>1 DEF ObjectAt
<1>7. PICK w : w = [v EXCEPT !.pc = "row"]
  OBVIOUS
<1>8. /\ w \in Pass /\ w.pc = "row" /\ w.task = v.task /\ w.del = v.del
      /\ w.deleted = v.deleted /\ w.removed = v.removed
  BY <1>7 DEF Pass
<1>9. lock = s /\ \A q \in Sweepers \ {s} : sweep[q].pc = "idle"
  BY <1>1, <1>3, OnePass
<1>10. /\ sweep' \in [Sweepers -> Pass] /\ sweep'[s] = w
       /\ \A q \in Sweepers \ {s} : sweep'[q] = sweep[q]
  BY <1>1, <1>3, <1>7, <1>8 DEF Typed
<1>11. Typed'
  BY <1>3, <1>6, <1>9, <1>10 DEF Typed, Table
<1>12. Apart'
  <2>1. Places' \subseteq Places
    BY <1>3, <1>6 DEF Places, Place, Aim, Active
  <2> QED
    BY <1>3, <2>1, FewerPlaces
<1>13. Books'
  <2>1. ASSUME NEW t \in Tasks, Active(t)
        PROVE  Aim(t) # Place(h)
    <3>1. Aim(t).run = upload[t].run
      BY DEF Aim
    <3> QED
      BY <1>4, <1>5, <2>1, <3>1 DEF Books
  <2>2. \A t \in Tasks : (Active(t)' <=> Active(t)) /\ Aim(t)' = Aim(t)
    BY <1>3 DEF Active, Aim
  <2> QED
    BY <1>3, <1>6, <2>1, <2>2 DEF Books
<1>14. Accounted'
  BY <1>3, <1>6 DEF Accounted, Active
<1>15. ASSUME NEW a \in catalog'
       PROVE  Backed(a)'
  <2>1. CASE a = h
    BY <1>2, <1>8, <1>10, <2>1 DEF Backed
  <2>2. CASE a # h /\ Place(a) \in objects
    <3>1. Place(a) # Place(h)
      BY <1>3, <1>4, <1>5, <2>2 DEF Books
    <3>2. Place(a)' = Place(a)
      BY DEF Place
    <3> QED
      BY <1>6, <2>2, <3>1, <3>2 DEF Backed
  <2>3. CASE faults > 0 /\ ~Newest(a)
    BY <1>3, <2>3 DEF Backed, Newest, RowsOf
  <2>4. \A q \in Sweepers : sweep[q].pc # "row"
    BY <1>1, <1>3, <1>9
  <2> QED
    BY <1>3, <2>1, <2>2, <2>3, <2>4 DEF Backed
<1>16. Sweeping(w)'
  <2>1. /\ v.task \in TaskCopy /\ v.deleted = v.removed
        /\ Distinct(v.del) /\ ToSet(v.del) \subseteq RowsOf(v.task.name)
        /\ \E b \in RowsOf(v.task.name) \ ToSet(v.del) : \A a \in ToSet(v.del) : Newer(b, a)
    BY <1>1, <1>3 DEF Sweeping
  <2>2. \A t : RowsOf(t)' = RowsOf(t)
    BY <1>3 DEF RowsOf
  <2>3. Place(Head(w.del)) \notin objects'
    BY <1>2, <1>6, <1>8
  <2>4. w.del # <<>>
    BY <1>3, <1>8
  <2> QED
    BY <1>8, <2>1, <2>2, <2>3, <2>4 DEF Sweeping
<1>17. ASSUME NEW q \in Sweepers \ {s}
       PROVE  Sweeping(sweep[q])'
  <2>1. PICK x : x = sweep[q] /\ x.pc = "idle" /\ x.deleted = x.removed
    BY <1>9 DEF Sweeping
  <2>2. sweep'[q] = x
    BY <1>10, <2>1
  <2> QED
    BY <2>1, <2>2, IdleSweeping
<1>18. \A q \in Sweepers : Sweeping(sweep[q])'
  BY <1>10, <1>16, <1>17
<1> QED
  BY <1>11, <1>12, <1>13, <1>14, <1>15, <1>18

\* Then the row, which has lost its object and is not the newest.
LEMMA DeleteRowStep ==
  ASSUME Inv, NEW s \in Sweepers, DeleteRow(s)
  PROVE  Inv'
<1> USE DEF Inv
<1>1. PICK v \in Pass : v = sweep[s] /\ Sweeping(v)
  BY DEF Typed
<1>2. PICK h : h = Head(v.del)
  OBVIOUS
<1>3. PICK rest : rest = Tail(v.del)
  OBVIOUS
<1>4. PICK gone : gone = {a \in catalog : a.id = h.id}
  OBVIOUS
<1>5. /\ v.pc = "row" /\ catalog' = catalog \ gone
      /\ sweep' = [sweep EXCEPT ![s].del = Tail(@), ![s].pc = "prune",
                                ![s].deleted = @ + 1, ![s].removed = @ + Cardinality(gone)]
      /\ UNCHANGED <<now, task, objects, upload, strays, lock, runs, edits, faults>>
  BY <1>1, <1>2, <1>4 DEF DeleteRow
<1>6. /\ v.del # <<>> /\ Distinct(v.del) /\ v.del \in Seq(Artifact)
      /\ ToSet(v.del) \subseteq RowsOf(v.task.name) /\ v.task \in TaskCopy
      /\ v.deleted = v.removed /\ Place(h) \notin objects
      /\ \E b \in RowsOf(v.task.name) \ ToSet(v.del) : \A a \in ToSet(v.del) : Newer(b, a)
  BY <1>1, <1>2, <1>5 DEF Sweeping, Pass
<1>7. /\ h \in ToSet(v.del) /\ rest \in Seq(Artifact) /\ Distinct(rest)
      /\ ToSet(rest) = ToSet(v.del) \ {h}
  BY <1>2, <1>3, <1>6, Shorter
<1>8. h \in catalog /\ h.task = v.task.name
  BY <1>6, <1>7 DEF RowsOf
<1>9. PICK b \in RowsOf(v.task.name) \ ToSet(v.del) : \A a \in ToSet(v.del) : Newer(b, a)
  BY <1>6
<1>10. gone = {h}
  BY <1>4, <1>8 DEF Typed, Table
<1>11. Cardinality(gone) = 1
  BY <1>10, FS_Singleton
<1>12. PICK w : w = [v EXCEPT !.del = rest, !.pc = "prune", !.deleted = @ + 1, !.removed = @ + 1]
  OBVIOUS
<1>13. /\ w \in Pass /\ w.pc = "prune" /\ w.task = v.task /\ w.del = rest
       /\ w.deleted = v.deleted + 1 /\ w.removed = v.removed + 1
  <2>1. v.deleted \in Nat /\ v.removed \in Nat
    BY DEF Pass
  <2>2. PICK i \in Nat : i = v.deleted + 1
    BY <2>1
  <2>3. PICK j \in Nat : j = v.removed + 1
    BY <2>1
  <2>4. w = [v EXCEPT !.del = rest, !.pc = "prune", !.deleted = i, !.removed = j]
    BY <1>12, <2>2, <2>3
  <2>5. /\ w \in Pass /\ w.pc = "prune" /\ w.task = v.task /\ w.del = rest
        /\ w.deleted = i /\ w.removed = j
    BY <1>7, <2>4 DEF Pass
  <2> QED
    BY <2>2, <2>3, <2>5
<1>14. /\ sweep' \in [Sweepers -> Pass] /\ sweep'[s] = w
       /\ \A q \in Sweepers \ {s} : sweep'[q] = sweep[q]
  <2>1. sweep' = [sweep EXCEPT ![s] = w]
    BY <1>1, <1>3, <1>5, <1>11, <1>12 DEF Typed, Pass
  <2> QED
    BY <1>13, <2>1 DEF Typed
<1>15. lock = s /\ \A q \in Sweepers \ {s} : sweep[q].pc = "idle"
  BY <1>1, <1>5, OnePass
<1>16. catalog' = catalog \ {h} /\ catalog' \in SUBSET catalog /\ Table(catalog')
  <2>1. catalog' = catalog \ {h} /\ catalog' \in SUBSET catalog
    BY <1>5, <1>10
  <2> QED
    BY <2>1, PartOfTable DEF Typed
<1>17. Typed'
  BY <1>5, <1>14, <1>15, <1>16 DEF Typed, Table
<1>18. Apart'
  <2>1. Places' \subseteq Places
    BY <1>5, <1>16 DEF Places, Place, Aim, Active
  <2> QED
    BY <1>5, <2>1, FewerPlaces
<1>19. Books'
  BY <1>5, <1>16 DEF Books, Active, Aim
<1>20. Accounted'
  <2>1. ASSUME NEW o \in objects
        PROVE  o.run # h.run
    <3>1. /\ o \in Places /\ Place(h) \in Places /\ Place(h).run = h.run /\ o # Place(h)
      BY <1>6, <1>8 DEF Places, Place
    <3> QED
      BY <3>1 DEF Apart
  <2>2. \A o \in objects : o.run \in {a.run : a \in catalog} => o.run \in {a.run : a \in catalog'}
    BY <1>16, <2>1
  <2> QED
    BY <1>5, <2>2 DEF Accounted, Active
<1>21. ASSUME NEW a \in catalog'
       PROVE  Backed(a)'
  <2>1. a \in catalog /\ a # h
    BY <1>16
  <2>2. CASE Place(a) \in objects
    BY <1>5, <2>2 DEF Backed, Place
  <2>3. CASE faults > 0 /\ ~Newest(a)
    <3>1. PICK c \in RowsOf(a.task) : Newer(c, a)
      BY <2>3 DEF Newest
    <3>2. \E d \in RowsOf(a.task) \ {h} : Newer(d, a)
      <4>1. CASE c = h
        <5>1. Newer(b, h) /\ b # h /\ b \in RowsOf(a.task)
          BY <1>7, <1>8, <1>9, <3>1, <4>1 DEF RowsOf
        <5>2. Newer(b, a)
          BY <1>8, <2>1, <3>1, <4>1, <5>1, OneOrder DEF RowsOf, Typed
        <5> QED
          BY <5>1, <5>2
      <4> QED
        BY <3>1, <4>1
    <3>3. ~Newest(a)'
      BY <1>16, <3>2 DEF Newest, RowsOf
    <3> QED
      BY <1>5, <2>3, <3>3 DEF Backed
  <2>4. ~\E q \in Sweepers : sweep[q].pc = "row" /\ a = Head(sweep[q].del)
    BY <1>1, <1>2, <1>15, <2>1
  <2> QED
    BY <2>1, <2>2, <2>3, <2>4 DEF Backed
<1>22. Sweeping(w)'
  <2>1. ToSet(rest) \subseteq RowsOf(v.task.name)'
    BY <1>6, <1>7, <1>16 DEF RowsOf
  <2>2. b \in RowsOf(v.task.name)' \ ToSet(rest) /\ \A a \in ToSet(rest) : Newer(b, a)
    BY <1>7, <1>9, <1>16 DEF RowsOf
  <2> QED
    BY <1>6, <1>7, <1>13, <2>1, <2>2 DEF Sweeping
<1>23. ASSUME NEW q \in Sweepers \ {s}
       PROVE  Sweeping(sweep[q])'
  <2>1. PICK x : x = sweep[q] /\ x.pc = "idle" /\ x.deleted = x.removed
    BY <1>15 DEF Sweeping
  <2>2. sweep'[q] = x
    BY <1>14, <2>1
  <2> QED
    BY <2>1, <2>2, IdleSweeping
<1>24. \A q \in Sweepers : Sweeping(sweep[q])'
  BY <1>14, <1>22, <1>23
<1> QED
  BY <1>17, <1>18, <1>19, <1>20, <1>21, <1>24

-----------------------------------------------------------------------------
(***************************************************************************)
(* Every step, and what follows.                                           *)
(***************************************************************************)

\* A step that changes nothing.
LEMMA StutterStep ==
  ASSUME Inv, UNCHANGED vars
  PROVE  Inv'
<1> USE DEF Inv
<1>1. UNCHANGED <<now, task, catalog, objects, upload, strays, lock, sweep, runs, edits, faults>>
  BY DEF vars
<1>2. Typed'
  BY <1>1 DEF Typed, Table
<1>3. Apart' /\ Books' /\ Accounted'
  BY <1>1, Numbers, BooksStay
<1>4. \A a \in catalog' : Backed(a)'
  BY <1>1, Numbers, BackedStays
<1>5. \A s \in Sweepers : Sweeping(sweep[s])'
  BY <1>1, SweepsStay
<1> QED
  BY <1>2, <1>3, <1>4, <1>5

\* The invariant is kept when a task's runs start minutes apart and no task is deleted
\* while a pass has its rows in hand.
LEMMA NextInv ==
  ASSUME Inv, MinGap # 0, ~DeleteMidSweep, [Next]_vars
  PROVE  Inv'
<1>1. CASE Tick
  BY <1>1, TickStep
<1>2. CASE Crash
  BY <1>2, CrashStep
<1>3. ASSUME NEW t \in Tasks, EditTask(t) \/ DeleteTask(t) \/ StartUpload(t) \/ UploadStep(t)
      PROVE  Inv'
  BY <1>3, EditTaskStep, DeleteTaskStep, StartUploadStep, WriteObjectStep, WriteFailsStep,
     InsertArtifactStep, InsertArtifactFailsStep DEF UploadStep
<1>4. ASSUME NEW s \in Sweepers, Begin(s) \/ SweepStep(s)
      PROVE  Inv'
  BY <1>4, BeginStep, NextTaskStep, DeleteObjectStep, SkipStep, DeleteRowStep, PruneEndsStep,
     ReadCatalogStep, ListObjectsStep, TaskEndsStep DEF SweepStep
<1>5. CASE UNCHANGED vars
  BY <1>5, StutterStep
<1> QED
  BY <1>1, <1>2, <1>3, <1>4, <1>5 DEF Next

\* So it holds throughout.
LEMMA Always ==
  ASSUME MinGap # 0, ~DeleteMidSweep
  PROVE  Spec => []Inv
<1>1. Init => Inv
  BY InitInv
<1>2. Inv /\ [Next]_vars => Inv'
  BY NextInv
<1> QED
  BY <1>1, <1>2, PTL DEF Spec

\* The rows are a table whatever the conditions: an id is given once, and rows only go
\* by ones and by tasks.
Rows ==
  /\ now \in Nat /\ runs \in Nat
  /\ task \in [Tasks -> TaskRow]
  /\ upload \in [Tasks -> Upload]
  /\ Table(catalog)

\* They are one at the start, and after every step.
LEMMA RowsStay ==
  /\ Init => Rows
  /\ Rows /\ [Next]_vars => Rows'
<1>1. ASSUME Init
      PROVE  Rows
  <2>1. /\ Typed /\ now = 1 /\ runs = 0
    BY <1>1, InitInv DEF Init, Inv
  <2> QED
    BY <2>1 DEF Rows, Typed
<1>2. ASSUME Rows, [Next]_vars
      PROVE  Rows'
  <2> USE <1>2
  <2>1. ASSUME NEW t \in Tasks
        PROVE  NoUpload \in Upload
    BY <2>1, AtRest DEF Rows, TaskRow
  <2>2. CASE UNCHANGED <<now, runs, task, upload, catalog>>
    BY <2>2 DEF Rows, Table
  <2>3. CASE Tick
    BY <2>3 DEF Tick, Rows, Table
  <2>4. CASE Crash
    BY <2>1, <2>4 DEF Crash, Rows, Table
  <2>5. ASSUME NEW t \in Tasks, EditTask(t)
        PROVE  Rows'
    <3>1. PICK s \in Storages, p \in Policies :
            task' = [task EXCEPT ![t].storage = s, ![t].policy = p]
      BY <2>5 DEF EditTask
    <3>2. task' \in [Tasks -> TaskRow]
      BY <3>1 DEF Rows, TaskRow
    <3> QED
      BY <2>5, <3>2 DEF EditTask, Rows, Table
  <2>6. ASSUME NEW t \in Tasks, DeleteTask(t)
        PROVE  Rows'
    <3>1. task' \in [Tasks -> TaskRow]
      BY <2>6 DEF DeleteTask, Rows, TaskRow
    <3>2. catalog' = catalog \ RowsOf(t) /\ catalog' \in SUBSET catalog
      BY <2>6 DEF DeleteTask
    <3>3. Table(catalog')
      BY <3>2, PartOfTable DEF Rows
    <3> QED
      BY <2>6, <3>1, <3>3 DEF DeleteTask, Rows, Table
  <2>7. ASSUME NEW t \in Tasks, StartUpload(t)
        PROVE  Rows'
    <3>1. /\ now \in Nat /\ runs \in Nat /\ runs + 1 \in Nat /\ task[t].storage \in Storages
      BY DEF Rows, TaskRow
    <3>2. [pc |-> "writing", storage |-> task[t].storage, key |-> now, run |-> runs + 1] \in Upload
      BY <3>1 DEF Upload
    <3>3. upload' \in [Tasks -> Upload]
      BY <2>7, <3>2 DEF StartUpload, Rows
    <3>4. task' \in [Tasks -> TaskRow]
      BY <2>7, <3>1 DEF StartUpload, Rows, TaskRow
    <3> QED
      BY <2>7, <3>1, <3>3, <3>4 DEF StartUpload, Rows, Table
  <2>8. ASSUME NEW t \in Tasks, WriteObject(t)
        PROVE  Rows'
    <3>1. upload' \in [Tasks -> Upload]
      BY <2>8 DEF WriteObject, Rows, Upload
    <3> QED
      BY <2>8, <3>1 DEF WriteObject, Rows, Table
  <2>9. ASSUME NEW t \in Tasks, WriteFails(t) \/ InsertArtifactFails(t)
        PROVE  Rows'
    BY <2>1, <2>9 DEF WriteFails, InsertArtifactFails, Rows, Table
  <2>10. ASSUME NEW t \in Tasks, InsertArtifact(t)
         PROVE  Rows'
    <3>1. PICK new : new = [id |-> NextId, task |-> t, storage |-> upload[t].storage,
                            key |-> upload[t].key, at |-> now, run |-> upload[t].run]
      OBVIOUS
    <3>2. catalog' = catalog \cup {new}
      BY <2>10, <3>1 DEF InsertArtifact, InsertArtifactAt
    <3>3. NextId \in Nat /\ \A a \in catalog : a.id < NextId
      BY NextIdIsNew DEF Rows
    <3>4. new \in Artifact /\ new.id = NextId
      <4>1. /\ now \in Nat /\ upload[t].storage \in Storages
            /\ upload[t].key \in Nat /\ upload[t].run \in Nat
        BY DEF Rows, Upload
      <4> QED
        BY <3>1, <3>3, <4>1 DEF Artifact
    <3>5. Table(catalog')
      <4>1. IsFiniteSet(catalog')
        BY <3>2, FS_AddElement DEF Rows, Table
      <4>2. \A a \in catalog : a.id \in Nat
        BY DEF Rows, Table, Artifact
      <4>3. \A a \in catalog : a.id # new.id
        BY <3>3, <3>4, <4>2
      <4>4. catalog' \subseteq Artifact /\ \A a, b \in catalog' : a.id = b.id => a = b
        BY <3>2, <3>4, <4>3 DEF Rows, Table
      <4> QED
        BY <4>1, <4>4 DEF Table
    <3>6. upload' \in [Tasks -> Upload]
      BY <2>1, <2>10 DEF InsertArtifact, InsertArtifactAt, Rows
    <3> QED
      BY <2>10, <3>5, <3>6 DEF InsertArtifact, InsertArtifactAt, Rows, Table
  <2>11. ASSUME NEW s \in Sweepers, Begin(s) \/ SweepStep(s)
         PROVE  Rows'
    <3>1. CASE DeleteRow(s)
      <4>1. PICK gone : catalog' = catalog \ gone /\ catalog' \in SUBSET catalog
        BY <3>1 DEF DeleteRow
      <4>2. Table(catalog')
        BY <4>1, PartOfTable DEF Rows
      <4> QED
        BY <3>1, <4>2 DEF DeleteRow, Rows, Table
    <3>2. CASE ~DeleteRow(s)
      <4>1. UNCHANGED <<now, runs, task, upload, catalog>>
        BY <2>11, <3>2 DEF Begin, BeginWith, SweepStep, NextTask, NextTaskWith, DeleteObject,
           DeleteObjectIn, SkipObject, SkipObjectTo, DeleteRowFails, PruneEnds, ReadCatalog,
           ReadCatalogAs, ListObjects, ListFails, TaskEnds, EndSweep
      <4> QED
        BY <2>2, <4>1
    <3> QED
      BY <3>1, <3>2
  <2> QED
    BY <2>2, <2>3, <2>4, <2>5, <2>6, <2>7, <2>8, <2>9, <2>10, <2>11 DEF Next, UploadStep, vars
<1> QED
  BY <1>1, <1>2

\* For every policy and any rows a task may have, Forget deletes exactly what no rule of
\* the policy keeps: the sort and the four scans with their early exits (retention.go,
\* Forget and keepByPeriod) are the policy.
THEOREM ForgetFollowsPolicy == Spec => []ForgetIsPolicy
<1>1. Rows => ForgetIsPolicy
  <2> SUFFICES ASSUME Rows, NEW t \in Tasks, NEW p \in Policies
               PROVE  ToSet(Forget(p, RowsOf(t))) = {a \in RowsOf(t) : ~Kept(p, RowsOf(t), a)}
    BY DEF ForgetIsPolicy
  <2>1. PICK rows : rows = RowsOf(t) /\ rows \in SUBSET catalog
    BY DEF RowsOf
  <2>2. Table(rows)
    BY <2>1, PartOfTable DEF Rows
  <2>3. p \in [last : Nat, daily : Nat, weekly : Nat, monthly : Nat]
    BY BoundsAssumption
  <2>4. ToSet(Forget(p, rows)) = {a \in rows : ~Kept(p, rows, a)}
    BY <2>2, <2>3, ForgetByPolicy
  <2> QED
    BY <2>1, <2>4
<1> QED
  BY <1>1, RowsStay, PTL DEF Spec

\* What the catalog offers can be restored, the newest backup of a task always: Prune
\* deletes the object before the row and never the newest, Executor.run inserts the row
\* after the upload, whatever is edited, swept, refused or broken in between.
THEOREM BackupsStay ==
  ASSUME MinGap # 0, ~DeleteMidSweep
  PROVE  Spec => []BackupsAreThere
<1>1. ASSUME Inv
      PROVE  BackupsAreThere
  <2> USE <1>1 DEF Inv
  <2>1. ASSUME NEW a \in catalog, Place(a) \in objects
        PROVE  Place(a) \in ObjectAt(a.storage, a) /\ Place(a).run = a.run
    BY <2>1 DEF ObjectAt, Place
  <2>2. ASSUME NEW a \in catalog, NEW s \in Sweepers,
               sweep[s].pc = "row", a = Head(sweep[s].del)
        PROVE  ~Newest(a)
    <3>1. PICK v \in Pass : v = sweep[s] /\ Sweeping(v)
      BY DEF Typed
    <3>2. v.pc = "row" /\ a = Head(v.del) /\ v.del # <<>>
      BY <2>2, <3>1 DEF Sweeping
    <3>3. a \in RowsOf(v.task.name) /\ \E b \in RowsOf(v.task.name) : Newer(b, a)
      BY <3>1, <3>2, NeverTheNewest
    <3> QED
      BY <3>3 DEF Newest, RowsOf
  <2>3. KeptIsRestorable
    BY <2>1 DEF KeptIsRestorable, Backed
  <2>4. NewestHasObject
    BY <2>1, <2>2 DEF NewestHasObject, Backed
  <2> QED
    BY <2>3, <2>4 DEF BackupsAreThere
<1> QED
  BY <1>1, Always, PTL

\* A sweep never drops the row of an object that is still stored (retention.go:183): every
\* object has a row, a run about to insert one, or lost it to a crash, a failed insert or
\* the deletion of its task.
THEOREM ObjectsKeepTheirRow ==
  ASSUME MinGap # 0, ~DeleteMidSweep
  PROVE  Spec => []NothingStrands
<1>1. Inv => NothingStrands
  BY DEF Inv, Accounted, NothingStrands
<1> QED
  BY <1>1, Always, PTL

\* The count of deleted artifacts a sweep records is that of the rows that went, and the
\* orphans it reports are no row's, with every one of the task's storage among them
\* (sweep.go, the mutex; retention.go, Orphans).
THEOREM ReportsAreTrue ==
  ASSUME MinGap # 0, ~DeleteMidSweep
  PROVE  Spec => []ReportsAreExact
<1>1. ASSUME Inv
      PROVE  ReportsAreExact
  <2>1. AccountingExact
    BY <1>1 DEF Inv, Sweeping, AccountingExact
  <2>2. OrphansAreExact
    BY <1>1 DEF Inv, Sweeping, OrphansAreExact
  <2> QED
    BY <2>1, <2>2 DEF ReportsAreExact
<1> QED
  BY <1>1, Always, PTL

\* A pass has a task from its first one on, and a row to delete where it is deleting one.
Fit(w) ==
  /\ w \in Pass
  /\ w.pc \notin {"idle", "next"} => w.task \in TaskCopy
  /\ w.pc = "row" => w.del # <<>>

\* Passes are fit, and only the holder of the mutex makes one.
Passing ==
  /\ lock \in Sweepers \cup {"none"}
  /\ sweep \in [Sweepers -> Pass]
  /\ \A s \in Sweepers : Fit(sweep[s]) /\ (sweep[s].pc # "idle" => lock = s)

\* Uploads are numbered in turn, and rows and strays are among them.
Numbered ==
  /\ strays \subseteq 1 .. runs
  /\ \A a \in catalog : a.run \in 1 .. runs
  /\ \A t \in Tasks : Active(t) => upload[t].run \in 1 .. runs

\* A storage holds one object under a key.
OneUnderKey ==
  /\ objects \subseteq Object
  /\ \A o, p \in objects :
       (o.storage = p.storage /\ o.task = p.task /\ o.key = p.key) => o = p

Bounded ==
  /\ now \in 0 .. MaxTime /\ runs \in 0 .. MaxRuns
  /\ edits \in 0 .. MaxEdits /\ faults \in 0 .. MaxFaults

\* The types, whatever the conditions.
Types == Rows /\ Bounded /\ Numbered /\ OneUnderKey /\ Passing

\* A counter below its bound may be raised, and no step raises one otherwise.
LEMMA BoundedStay == Bounded /\ [Next]_vars => Bounded'
<1> SUFFICES ASSUME Bounded, [Next]_vars PROVE Bounded'
  OBVIOUS
<1>1. MaxTime \in Nat /\ MaxRuns \in Nat /\ MaxEdits \in Nat /\ MaxFaults \in Nat
  BY BoundsAssumption
<1> DEFINE Rising == /\ now' = now \/ (now < MaxTime /\ now' = now + 1)
                     /\ runs' = runs \/ (runs < MaxRuns /\ runs' = runs + 1)
                     /\ edits' = edits \/ (edits < MaxEdits /\ edits' = edits + 1)
                     /\ faults' = faults \/ (faults < MaxFaults /\ faults' = faults + 1)
<1>2. Rising
  <2>1. CASE Tick \/ Crash \/ UNCHANGED vars
    BY <2>1 DEF Tick, Crash, vars
  <2>2. ASSUME NEW t \in Tasks,
               EditTask(t) \/ DeleteTask(t) \/ StartUpload(t) \/ UploadStep(t)
        PROVE  Rising
    BY <2>2 DEF EditTask, DeleteTask, StartUpload, UploadStep, WriteObject, WriteFails,
       InsertArtifact, InsertArtifactAt, InsertArtifactFails
  <2>3. ASSUME NEW s \in Sweepers, Begin(s) \/ SweepStep(s)
        PROVE  Rising
    BY <2>3 DEF Begin, BeginWith, SweepStep, NextTask, NextTaskWith, DeleteObject,
       DeleteObjectIn, SkipObject, SkipObjectTo, ObjectRefused, DeleteRow, DeleteRowFails,
       PruneEnds, ReadCatalog, ReadCatalogAs, ListObjects, ListFails, TaskEnds, EndSweep
  <2> QED
    BY <2>1, <2>2, <2>3 DEF Next
<1> QED
  BY <1>1, <1>2 DEF Bounded

\* An upload gets the next number, and its row and its stray object keep it.
LEMMA NumberedStay == Rows /\ Numbered /\ [Next]_vars => Numbered'
<1> SUFFICES ASSUME Rows, Numbered, [Next]_vars PROVE Numbered'
  OBVIOUS
<1>1. CASE UNCHANGED <<catalog, upload, strays, runs>>
  BY <1>1 DEF Numbered, Active
<1>2. ASSUME NEW t \in Tasks PROVE NoUpload.pc = "idle"
  BY DEF NoUpload
<1>3. CASE Crash
  <2>1. \A t \in Tasks : upload[t].pc = "written" => upload[t].run \in 1 .. runs
    BY DEF Numbered, Active
  <2>2. \A t \in Tasks : upload'[t].pc = "idle"
    BY <1>2, <1>3 DEF Crash
  <2> QED
    BY <1>3, <2>1, <2>2 DEF Crash, Numbered, Active
<1>4. ASSUME NEW t \in Tasks, DeleteTask(t)
      PROVE  Numbered'
  BY <1>4 DEF DeleteTask, Numbered, Active, RowsOf
<1>5. ASSUME NEW t \in Tasks, StartUpload(t)
      PROVE  Numbered'
  <2>1. runs \in Nat /\ runs + 1 \in 1 .. runs + 1 /\ 1 .. runs \subseteq 1 .. runs + 1
    BY DEF Rows
  <2>2. PICK n : n = runs + 1
    OBVIOUS
  <2>3. /\ runs' = n /\ UNCHANGED <<catalog, strays>>
        /\ upload' = [upload EXCEPT ![t] = [pc |-> "writing", storage |-> task[t].storage,
                                            key |-> now, run |-> n]]
    BY <1>5, <2>2 DEF StartUpload
  <2>4. upload'[t].run = n /\ \A u \in Tasks \ {t} : upload'[u] = upload[u]
    BY <2>3 DEF Rows
  <2>5. n \in 1 .. n /\ 1 .. runs \subseteq 1 .. n
    BY <2>1, <2>2
  <2>6. \A u \in Tasks : Active(u)' => upload'[u].run \in 1 .. n
    BY <2>4, <2>5 DEF Numbered, Active
  <2> QED
    BY <2>3, <2>5, <2>6 DEF Numbered
<1>6. ASSUME NEW t \in Tasks, WriteObject(t)
      PROVE  Numbered'
  <2>1. \A u \in Tasks : upload'[u].run = upload[u].run /\ (Active(u)' => Active(u))
    BY <1>6 DEF WriteObject, Rows, Upload, Active
  <2> QED
    BY <1>6, <2>1 DEF WriteObject, Numbered
<1>7. ASSUME NEW t \in Tasks, WriteFails(t) \/ InsertArtifactFails(t) \/ InsertArtifact(t)
      PROVE  Numbered'
  <2>1. /\ Active(t) /\ upload[t].run \in 1 .. runs
        /\ upload' = [upload EXCEPT ![t] = NoUpload] /\ runs' = runs
    BY <1>7 DEF WriteFails, InsertArtifactFails, InsertArtifact, InsertArtifactAt, Numbered, Active
  <2>2. upload'[t].pc = "idle" /\ \A u \in Tasks \ {t} : upload'[u] = upload[u]
    BY <1>2, <2>1 DEF Rows
  <2>3. \A u \in Tasks : Active(u)' => upload'[u].run \in 1 .. runs
    BY <2>2 DEF Numbered, Active
  <2>4. \A x \in strays' : x \in strays \/ x = upload[t].run
    BY <1>7 DEF WriteFails, InsertArtifactFails, InsertArtifact, InsertArtifactAt
  <2>5. \A a \in catalog' : a \in catalog \/ a.run = upload[t].run
    BY <1>7 DEF WriteFails, InsertArtifactFails, InsertArtifact, InsertArtifactAt
  <2> QED
    BY <2>1, <2>3, <2>4, <2>5 DEF Numbered
<1>8. ASSUME NEW s \in Sweepers, Begin(s) \/ SweepStep(s)
      PROVE  Numbered'
  <2>1. catalog' \subseteq catalog /\ UNCHANGED <<upload, strays, runs>>
    BY <1>8 DEF Begin, BeginWith, SweepStep, NextTask, NextTaskWith, DeleteObject,
       DeleteObjectIn, SkipObject, SkipObjectTo, DeleteRow, DeleteRowFails,
       PruneEnds, ReadCatalog, ReadCatalogAs, ListObjects, ListFails, TaskEnds, EndSweep
  <2> QED
    BY <2>1 DEF Numbered, Active
<1> QED
  BY <1>1, <1>3, <1>4, <1>5, <1>6, <1>7, <1>8 DEF Next, UploadStep, Tick, EditTask, vars

\* A write replaces what lies under its key.
LEMMA OneUnderKeyStays == Rows /\ OneUnderKey /\ [Next]_vars => OneUnderKey'
<1> SUFFICES ASSUME Rows, OneUnderKey, [Next]_vars PROVE OneUnderKey'
  OBVIOUS
<1>1. CASE objects' \in SUBSET objects
  BY <1>1 DEF OneUnderKey
<1>2. ASSUME NEW t \in Tasks, WriteObject(t)
      PROVE  OneUnderKey'
  <2>1. PICK u \in Upload : u = upload[t]
    BY DEF Rows
  <2>2. PICK new : new = [storage |-> u.storage, task |-> t, key |-> u.key, run |-> u.run]
    OBVIOUS
  <2>3. /\ new \in Object /\ new.storage = u.storage /\ new.task = t /\ new.key = u.key
    BY <2>2 DEF Upload, Object
  <2>4. objects' = {o \in objects : ~(o.storage = u.storage /\ o.task = t /\ o.key = u.key)}
                     \cup {new}
    BY <1>2, <2>1, <2>2 DEF WriteObject
  <2> QED
    BY <2>3, <2>4 DEF OneUnderKey
<1>3. CASE UNCHANGED objects
  BY <1>1, <1>3
<1>4. ASSUME NEW t \in Tasks,
             EditTask(t) \/ DeleteTask(t) \/ StartUpload(t) \/ WriteFails(t)
               \/ InsertArtifact(t) \/ InsertArtifactFails(t)
      PROVE  OneUnderKey'
  BY <1>3, <1>4 DEF EditTask, DeleteTask, StartUpload, WriteFails, InsertArtifact,
     InsertArtifactAt, InsertArtifactFails
<1>5. ASSUME NEW s \in Sweepers, Begin(s) \/ SweepStep(s)
      PROVE  OneUnderKey'
  <2>1. objects' \in SUBSET objects
    BY <1>5 DEF Begin, BeginWith, SweepStep, NextTask, NextTaskWith, DeleteObject,
       DeleteObjectIn, SkipObject, SkipObjectTo, DeleteRow, DeleteRowFails,
       PruneEnds, ReadCatalog, ReadCatalogAs, ListObjects, ListFails, TaskEnds, EndSweep
  <2> QED
    BY <1>1, <2>1
<1> QED
  BY <1>2, <1>3, <1>4, <1>5 DEF Next, UploadStep, Tick, Crash, vars

\* One pass becomes another fit one, and the mutex stays with the one that makes it.
LEMMA PassGoesOn ==
  ASSUME Passing, NEW s \in Sweepers, NEW w, Fit(w), sweep' = [sweep EXCEPT ![s] = w],
         \/ sweep[s].pc # "idle" /\ lock' = lock
         \/ sweep[s].pc # "idle" /\ lock' = "none" /\ w.pc = "idle"
         \/ lock = "none" /\ lock' = s
  PROVE  Passing'
<1>1. w \in Pass
  BY DEF Fit
<1>2. /\ sweep' \in [Sweepers -> Pass] /\ sweep'[s] = w
      /\ \A q \in Sweepers \ {s} : sweep'[q] = sweep[q]
  BY <1>1 DEF Passing
<1>3. \A q \in Sweepers : sweep[q].pc # "idle" => lock = q
  BY DEF Passing
<1>4. \A q \in Sweepers \ {s} : sweep[q].pc = "idle"
  BY <1>3, BoundsAssumption
<1>5. \A q \in Sweepers : Fit(sweep[q])
  BY DEF Passing
<1>6. \A q \in Sweepers : Fit(sweep'[q])
  BY <1>2, <1>5
<1>7. \A q \in Sweepers : Fit(sweep[q])'
  BY <1>6 DEF Fit
<1>8. lock' \in Sweepers \cup {"none"} /\ \A q \in Sweepers : sweep'[q].pc # "idle" => lock' = q
  BY <1>2, <1>3, <1>4 DEF Passing
<1> QED
  BY <1>2, <1>7, <1>8 DEF Passing

\* A fit pass is one that Begin, the rows and the storage it reads keep fit.
LEMMA PassingStays == Types /\ [Next]_vars => Passing'
<1> SUFFICES ASSUME Types, [Next]_vars PROVE Passing'
  OBVIOUS
<1>1. CASE UNCHANGED <<lock, sweep>>
  BY <1>1 DEF Types, Passing, Fit
<1>2. CASE Crash
  <2>1. Fit(NoSweep) /\ NoSweep.pc = "idle"
    BY AtRest DEF Fit
  <2>2. \A s \in Sweepers : sweep'[s] = NoSweep
    BY <1>2 DEF Crash
  <2>3. sweep' \in [Sweepers -> Pass] /\ lock' = "none"
    BY <1>2, AtRest DEF Crash
  <2>4. \A s \in Sweepers : Fit(sweep[s])'
    BY <2>1, <2>2 DEF Fit
  <2> QED
    BY <2>1, <2>2, <2>3, <2>4 DEF Passing
<1>3. ASSUME NEW t \in Tasks,
             EditTask(t) \/ DeleteTask(t) \/ StartUpload(t) \/ UploadStep(t)
      PROVE  Passing'
  BY <1>1, <1>3 DEF EditTask, DeleteTask, StartUpload, UploadStep, WriteObject, WriteFails,
     InsertArtifact, InsertArtifactAt, InsertArtifactFails
<1>4. ASSUME NEW s \in Sweepers, Begin(s)
      PROVE  Passing'
  <2>1. PICK copies : copies = {[name |-> t, storage |-> task[t].storage, policy |-> task[t].policy] :
                                  t \in {u \in Tasks : task[u].exists}}
    OBVIOUS
  <2>2. PICK w : w = [NoSweep EXCEPT !.pc = "next", !.todo = copies]
    OBVIOUS
  <2>3. copies \subseteq TaskCopy
    BY <2>1 DEF Types, Rows, TaskRow, TaskCopy
  <2>4. w \in Pass /\ w.pc = "next"
    BY <2>2, <2>3, AtRest DEF NoSweep, Pass
  <2>5. Fit(w)
    BY <2>4 DEF Fit
  <2>6. lock = "none" /\ lock' = s /\ sweep' = [sweep EXCEPT ![s] = w]
    BY <1>4, <2>1, <2>2 DEF Begin, BeginWith
  <2> QED
    BY <2>5, <2>6, PassGoesOn DEF Types
<1>5. ASSUME NEW s \in Sweepers, SweepStep(s)
      PROVE  Passing'
  <2>1. PICK v \in Pass : v = sweep[s] /\ Fit(v)
    BY DEF Types, Passing
  <2>2. v.pc # "idle"
    BY <1>5, <2>1 DEF SweepStep, NextTask, NextTaskWith, DeleteObject, DeleteObjectIn,
       SkipObject, SkipObjectTo, ObjectRefused, DeleteRow, DeleteRowFails, PruneEnds,
       ReadCatalog, ReadCatalogAs, ListObjects, ListFails, TaskEnds, EndSweep
  <2>3. ASSUME NEW w, Fit(w), sweep' = [sweep EXCEPT ![s] = w], lock' = lock
        PROVE  Passing'
    BY <2>1, <2>2, <2>3, PassGoesOn DEF Types
  <2>4. /\ v.del # <<>> => Tail(v.del) \in Seq(Artifact)
        /\ v.deleted \in Nat /\ v.removed \in Nat
    BY HeadTailProperties, EmptySeq DEF Pass
  <2>5. CASE NextTask(s)
    <3>1. PICK c \in v.todo :
            sweep' = [sweep EXCEPT
              ![s].todo = @ \ {c}, ![s].task = c,
              ![s].del = IF c.policy \in {p \in Policies : Enabled(p)}
                         THEN Forget(c.policy, RowsOf(c.name)) ELSE <<>>,
              ![s].pc = IF c.policy \in {p \in Policies : Enabled(p)} THEN "prune" ELSE "orphans"]
      BY <2>1, <2>5 DEF NextTask, NextTaskWith
    <3>2. c \in TaskCopy /\ c.policy \in Policies /\ c.name \in Tasks
      BY DEF Pass, TaskCopy
    <3>3. PICK del : del = IF Enabled(c.policy) THEN Forget(c.policy, RowsOf(c.name)) ELSE <<>>
      OBVIOUS
    <3>4. PICK pc : pc = IF Enabled(c.policy) THEN "prune" ELSE "orphans"
      OBVIOUS
    <3>5. PICK w : w = [v EXCEPT !.todo = @ \ {c}, !.task = c, !.del = del, !.pc = pc]
      OBVIOUS
    <3>6. sweep' = [sweep EXCEPT ![s] = w]
      BY <2>1, <3>1, <3>2, <3>3, <3>4, <3>5 DEF Types, Passing, Pass
    <3>7. del \in Seq(Artifact)
      <4>1. CASE Enabled(c.policy)
        <5>1. PICK rows : rows = RowsOf(c.name) /\ rows \in SUBSET catalog
          BY DEF RowsOf
        <5>2. Table(rows) /\ rows \subseteq Artifact
          BY <5>1, PartOfTable DEF Types, Rows, Table
        <5>3. c.policy \in [last : Nat, daily : Nat, weekly : Nat, monthly : Nat]
          BY <3>2, BoundsAssumption
        <5>4. del \in Seq(rows)
          BY <3>3, <4>1, <5>1, <5>2, <5>3, ForgetKeepsNewest
        <5> QED
          BY <5>2, <5>4
      <4>2. CASE ~Enabled(c.policy)
        BY <3>3, <4>2, EmptySeq
      <4> QED
        BY <4>1, <4>2
    <3>8. w \in Pass /\ w.pc = pc /\ w.task = c
      BY <3>2, <3>4, <3>5, <3>7 DEF Pass
    <3>9. Fit(w) /\ lock' = lock
      BY <2>5, <3>2, <3>4, <3>8 DEF Fit, NextTask, NextTaskWith
    <3> QED
      BY <2>3, <3>6, <3>9
  <2>6. CASE DeleteObject(s)
    <3>1. PICK w : w = [v EXCEPT !.pc = "row"]
      OBVIOUS
    <3>2. /\ v.pc = "prune" /\ v.del # <<>> /\ lock' = lock
          /\ sweep' = [sweep EXCEPT ![s].pc = "row"]
      BY <2>1, <2>6 DEF DeleteObject, DeleteObjectIn
    <3>3. sweep' = [sweep EXCEPT ![s] = w]
      BY <2>1, <3>1, <3>2 DEF Types, Passing, Pass
    <3>4. w \in Pass /\ w.pc = "row" /\ w.task = v.task /\ w.del = v.del
      BY <3>1 DEF Pass
    <3>5. Fit(w)
      BY <2>1, <3>2, <3>4 DEF Fit
    <3> QED
      BY <2>3, <3>2, <3>3, <3>5
  <2>7. CASE SkipObject(s) \/ DeleteRowFails(s)
    <3>1. PICK w : w = [v EXCEPT !.del = Tail(@), !.pc = "prune"]
      OBVIOUS
    <3>2. /\ v.pc \in {"prune", "row"} /\ lock' = lock
          /\ v.pc = "prune" => v.del # <<>> /\ sweep' = [sweep EXCEPT ![s].del = Tail(@)]
          /\ v.pc = "row" => sweep' = [sweep EXCEPT ![s].del = Tail(@), ![s].pc = "prune"]
      BY <2>1, <2>7 DEF SkipObject, SkipObjectTo, ObjectRefused, DeleteRowFails
    <3>3. sweep' = [sweep EXCEPT ![s] = w]
      <4>1. CASE v.pc = "prune"
        <5>1. w = [v EXCEPT !.del = Tail(@)]
          BY <3>1, <4>1 DEF Pass
        <5> QED
          BY <2>1, <3>2, <4>1, <5>1 DEF Types, Passing
      <4>2. CASE v.pc = "row"
        BY <2>1, <3>1, <3>2, <4>2 DEF Types, Passing, Pass
      <4> QED
        BY <3>2, <4>1, <4>2
    <3>4. v.del # <<>> /\ v.task \in TaskCopy
      BY <2>1, <3>2 DEF Fit
    <3>5. w \in Pass /\ w.pc = "prune" /\ w.task = v.task
      BY <2>4, <3>1, <3>4 DEF Pass
    <3>6. Fit(w)
      BY <3>4, <3>5 DEF Fit
    <3> QED
      BY <2>3, <3>2, <3>3, <3>6
  <2>8. CASE DeleteRow(s)
    <3>1. PICK n \in Nat : n = Cardinality({a \in catalog : a.id = Head(v.del).id})
      <4>1. PICK gone : gone = {a \in catalog : a.id = Head(v.del).id} /\ gone \in SUBSET catalog
        OBVIOUS
      <4>2. IsFiniteSet(gone)
        BY <4>1, FS_Subset DEF Types, Rows, Table
      <4>3. Cardinality(gone) \in Nat
        BY <4>2, FS_CardinalityType
      <4> QED
        BY <4>1, <4>3
    <3>2. PICK i \in Nat : i = v.deleted + 1
      BY <2>4
    <3>3. PICK j \in Nat : j = v.removed + n
      BY <2>4
    <3>4. PICK w : w = [v EXCEPT !.del = Tail(@), !.pc = "prune", !.deleted = i, !.removed = j]
      OBVIOUS
    <3>5. /\ v.pc = "row" /\ lock' = lock
          /\ sweep' = [sweep EXCEPT ![s].del = Tail(@), ![s].pc = "prune",
                                    ![s].deleted = @ + 1, ![s].removed = @ + n]
      BY <2>1, <2>8, <3>1 DEF DeleteRow
    <3>6. sweep' = [sweep EXCEPT ![s] = w]
      BY <2>1, <3>2, <3>3, <3>4, <3>5 DEF Types, Passing, Pass
    <3>7. v.del # <<>> /\ v.task \in TaskCopy
      BY <2>1, <3>5 DEF Fit
    <3>8. w \in Pass /\ w.pc = "prune" /\ w.task = v.task
      BY <2>4, <3>4, <3>7 DEF Pass
    <3>9. Fit(w)
      BY <3>7, <3>8 DEF Fit
    <3> QED
      BY <2>3, <3>5, <3>6, <3>9
  <2>9. CASE PruneEnds(s)
    <3>1. PICK w : w = [v EXCEPT !.pc = "orphans"]
      OBVIOUS
    <3>2. v.pc = "prune" /\ lock' = lock /\ sweep' = [sweep EXCEPT ![s].pc = "orphans"]
      BY <2>1, <2>9 DEF PruneEnds
    <3>3. sweep' = [sweep EXCEPT ![s] = w]
      BY <2>1, <3>1, <3>2 DEF Types, Passing, Pass
    <3>4. w \in Pass /\ w.pc = "orphans" /\ w.task = v.task
      BY <3>1 DEF Pass
    <3>5. Fit(w)
      BY <2>1, <3>2, <3>4 DEF Fit
    <3> QED
      BY <2>3, <3>2, <3>3, <3>5
  <2>10. CASE ReadCatalog(s)
    <3>1. PICK known : known = {<<a.storage, a.key>> : a \in RowsOf(v.task.name)}
      OBVIOUS
    <3>2. PICK scopes : scopes = {v.task.storage} \cup {a.storage : a \in RowsOf(v.task.name)}
      OBVIOUS
    <3>3. PICK has : has = {a.run : a \in catalog}
      OBVIOUS
    <3>4. PICK w : w = [v EXCEPT !.pc = "listing", !.known = known, !.scopes = scopes,
                                 !.catalogued = has, !.lost = strays]
      OBVIOUS
    <3>5. /\ v.pc = "orphans" /\ lock' = lock
          /\ sweep' = [sweep EXCEPT ![s].pc = "listing", ![s].known = known, ![s].scopes = scopes,
                                    ![s].catalogued = has, ![s].lost = strays]
      BY <2>1, <2>10, <3>1, <3>2, <3>3 DEF ReadCatalog, ReadCatalogAs, Scopes
    <3>6. sweep' = [sweep EXCEPT ![s] = w]
      BY <2>1, <3>4, <3>5 DEF Types, Passing, Pass
    <3>7. v.task \in TaskCopy /\ v.task.storage \in Storages
      BY <2>1, <3>5 DEF Fit, TaskCopy
    <3>8. \A a \in catalog : a.storage \in Storages /\ a.key \in Nat /\ a.run \in Nat
      BY DEF Types, Rows, Table, Artifact
    <3>9. known \in SUBSET (Storages \X Nat) /\ scopes \in SUBSET Storages
      BY <3>1, <3>2, <3>7, <3>8 DEF RowsOf
    <3>10. has \in SUBSET Nat /\ strays \in SUBSET Nat
      BY <3>3, <3>8 DEF Types, Rows, Numbered
    <3>11. w \in Pass /\ w.pc = "listing" /\ w.task = v.task
      BY <3>4, <3>9, <3>10 DEF Pass
    <3>12. Fit(w)
      BY <3>7, <3>11 DEF Fit
    <3> QED
      BY <2>3, <3>5, <3>6, <3>12
  <2>11. CASE ListObjects(s)
    <3>1. PICK found : found = {o.run : o \in {o \in objects :
                                /\ o.task = v.task.name /\ o.storage \in v.scopes
                                /\ <<o.storage, o.key>> \notin v.known}}
      OBVIOUS
    <3>2. PICK w : w = [v EXCEPT !.pc = "listed", !.orphans = found]
      OBVIOUS
    <3>3. /\ v.pc = "listing" /\ lock' = lock
          /\ sweep' = [sweep EXCEPT ![s].pc = "listed", ![s].orphans = found]
      BY <2>1, <2>11, <3>1 DEF ListObjects
    <3>4. sweep' = [sweep EXCEPT ![s] = w]
      BY <2>1, <3>2, <3>3 DEF Types, Passing, Pass
    <3>5. found \in SUBSET Nat
      <4>1. \A o \in objects : o.run \in Nat
        BY DEF Types, OneUnderKey, Object
      <4> QED
        BY <3>1, <4>1
    <3>6. w \in Pass /\ w.pc = "listed" /\ w.task = v.task
      BY <3>2, <3>5 DEF Pass
    <3>7. Fit(w)
      BY <2>1, <3>3, <3>6 DEF Fit
    <3> QED
      BY <2>3, <3>3, <3>4, <3>7
  <2>12. CASE ListFails(s) \/ TaskEnds(s)
    <3>1. PICK w : w = Onward(v)
      OBVIOUS
    <3>2. w \in Pass /\ w.pc = "next"
      BY <3>1, AtRest DEF Onward, NoSweep, Pass
    <3>3. Fit(w) /\ lock' = lock /\ sweep' = [sweep EXCEPT ![s] = w]
      BY <2>1, <2>12, <3>1, <3>2 DEF Fit, ListFails, TaskEnds
    <3> QED
      BY <2>3, <3>3
  <2>13. CASE EndSweep(s)
    <3>1. PICK w : w = NoSweep
      OBVIOUS
    <3>2. Fit(w) /\ w.pc = "idle"
      BY <3>1, AtRest DEF Fit
    <3>3. lock' = "none" /\ sweep' = [sweep EXCEPT ![s] = w]
      BY <2>13, <3>1 DEF EndSweep
    <3> QED
      BY <2>1, <2>2, <3>2, <3>3, PassGoesOn DEF Types
  <2> QED
    BY <1>5, <2>5, <2>6, <2>7, <2>8, <2>9, <2>10, <2>11, <2>12, <2>13 DEF SweepStep
<1> QED
  BY <1>1, <1>2, <1>3, <1>4, <1>5 DEF Next, Tick, vars

\* Every variable keeps its type, and a storage holds one object under a key, also with two
\* runs of a task in one minute and with tasks deleted during a sweep (the columns of
\* artifact, the fields of Sweeper and of Prune's and Orphans' locals).
THEOREM RetentionTypes == Spec => []TypeOK
<1>1. Init => Types
  <2> SUFFICES ASSUME Init PROVE Types
    OBVIOUS
  <2>1. Inv /\ Rows
    BY InitInv, RowsStay
  <2>2. Bounded
    BY <2>1 DEF Inv, Typed, Bounded
  <2>3. Numbered
    <3>1. \A t \in Tasks : ~Active(t)
      BY DEF Init, Active, NoUpload
    <3> QED
      BY <3>1 DEF Init, Numbered
  <2>4. OneUnderKey
    BY DEF Init, OneUnderKey
  <2>5. Passing
    <3>1. Fit(NoSweep) /\ \A s \in Sweepers : sweep[s] = NoSweep
      BY AtRest DEF Fit, Init
    <3> QED
      BY <2>1, <3>1 DEF Passing, Inv, Typed
  <2> QED
    BY <2>1, <2>2, <2>3, <2>4, <2>5 DEF Types
<1>2. Types /\ [Next]_vars => Types'
  <2> SUFFICES ASSUME Types, [Next]_vars PROVE Types'
    OBVIOUS
  <2>1. Rows' /\ Bounded' /\ Numbered' /\ OneUnderKey'
    BY RowsStay, BoundedStay, NumberedStay, OneUnderKeyStays DEF Types
  <2> QED
    BY <2>1, PassingStays DEF Types
<1>3. Types => TypeOK
  <2> SUFFICES ASSUME Types PROVE TypeOK
    OBVIOUS
  <2>1. strays \subseteq 1 .. MaxRuns
    <3>1. MaxRuns \in Nat /\ runs \in 0 .. MaxRuns /\ strays \subseteq 1 .. runs
      BY BoundsAssumption DEF Types, Bounded, Numbered
    <3> QED
      BY <3>1
  <2>2. \A s \in Sweepers :
          /\ sweep[s].pc \in {"idle", "next", "prune", "row", "orphans", "listing", "listed"}
          /\ sweep[s].del \in Seq(Artifact)
          /\ sweep[s].deleted \in Nat /\ sweep[s].removed \in Nat
          /\ sweep[s].pc # "idle" => lock = s
    BY DEF Types, Passing, Pass
  <2> QED
    BY <2>1, <2>2
       DEF TypeOK, Types, Rows, Bounded, OneUnderKey, Passing, Table, TaskRow, Upload
<1> QED
  BY <1>1, <1>2, <1>3, PTL DEF Spec

================================================================================
