-------------------------- MODULE AlgorithmsProofs --------------------------
(***************************************************************************)
(* Theorems about the calculations of MCAlgorithms, for every width, unit, *)
(* fee and number of samples and over inputs of any size: the dynamic      *)
(* program of the aggregation finds a best distribution and its shares     *)
(* make exchangeable parts; the formulas of the pools, of the fast split   *)
(* and of the mock source keep what the runs check over small ranges.      *)
(***************************************************************************)
EXTENDS MCAlgorithms, TotalsProofs

-----------------------------------------------------------------------------
(* The rows of find_distribution.                                          *)

Cells == 0 .. NumSamples
Column == 1 .. NumSamples
Worths == 0 .. FixedMax
Samples == [Column -> Worths]

\* A row and what it leaves to the sources before: never more than there is.
Rows == {row \in [sum : [Cells -> Worths], left : [Cells -> Cells]] :
            \A j \in Cells : row.left[j] <= j}

\* The sizes everything below is computed in.
LEMMA SizeFacts ==
  /\ Unit \in Nat /\ Unit > 0 /\ FixedMax \in Nat
  /\ NumSamples \in Nat /\ NumSamples > 0
  /\ NumSamples * Unit <= FixedMax /\ 2 * NumSamples <= Unit
  /\ Cells \subseteq Nat /\ Column \subseteq Nat /\ Column \subseteq Cells
  /\ Worths \subseteq Nat /\ \A v \in Worths : v \in Int
  BY UnitAssumption, ModulusAssumption, NumSamplesAssumption
     DEF FixedMax, Cells, Column, Worths

\* The first row: all parts go to the first source.
LEMMA FirstRowFacts ==
  ASSUME NEW row \in Samples
  PROVE  /\ FirstRow(row) \in Rows
         /\ \A j \in Cells : /\ FirstRow(row).left[j] = 0
                             /\ FirstRow(row).sum[j] = IF j = 0 THEN 0 ELSE row[j]
  <1>1. \A j \in Cells : j # 0 => j \in Column /\ row[j] \in Worths
    BY SizeFacts DEF Cells, Column, Samples
  <1>2. 0 \in Worths /\ 0 \in Cells
    BY SizeFacts DEF Worths, Cells
  <1>3. /\ FirstRow(row) = [sum |-> [j \in Cells |-> IF j = 0 THEN 0 ELSE row[j]],
                            left |-> [j \in Cells |-> 0]]
    BY DEF FirstRow, Cells
  <1>4. [j \in Cells |-> IF j = 0 THEN 0 ELSE row[j]] \in [Cells -> Worths]
    BY <1>1, <1>2
  <1>5. [j \in Cells |-> 0] \in [Cells -> Cells]
    BY <1>2
  <1>6. \A j \in Cells : 0 <= j
    BY SizeFacts
  <1> QED
    BY <1>3, <1>4, <1>5, <1>6 DEF Rows

\* Of finitely many options, numbered from 0, there is a first among the best.
LEMMA BestExists ==
  ASSUME NEW from \in SUBSET Nat, from # {}, NEW value,
         \A k \in from : value[k] \in Worths, NEW inversed \in BOOLEAN
  PROVE  \E k \in from : \A m \in from :
            ~Better(value[m], value[k], inversed) /\ (value[m] = value[k] => k <= m)
  <1> DEFINE cost(k) == IF inversed THEN value[k] ELSE FixedMax - value[k]
             costs == {cost(k) : k \in from}
  <1>1. \A k \in from : cost(k) \in Nat
    BY SizeFacts DEF Worths
  <1>2. costs \in SUBSET Nat /\ costs # {}
    BY <1>1
  <1>3. PICK low \in costs : \A c \in costs : low <= c
    <2> HIDE DEF costs
    <2> QED
      BY <1>2, LeastElement
  <1> DEFINE firsts == {k \in from : cost(k) = low}
  <1>4. firsts \in SUBSET Nat /\ firsts # {}
    BY <1>3
  <1>5. PICK k \in firsts : \A m \in firsts : k <= m
    <2> HIDE DEF firsts
    <2> QED
      BY <1>4, LeastElement
  <1>6. \A m \in from : cost(k) <= cost(m) /\ (cost(m) = cost(k) => k <= m)
    BY <1>3, <1>5
  <1>7. \A m \in from : value[m] \in Int
    <2> SUFFICES ASSUME NEW m \in from PROVE value[m] \in Int
      OBVIOUS
    <2>1. value[m] \in Worths
      OBVIOUS
    <2> QED
      BY <2>1, SizeFacts
  <1> QED
    BY <1>5, <1>6, <1>7, SizeFacts DEF Better

\* What one round of the outer loop does to cell j: it keeps the cell or gives the
\* source m parts on top of the best of the others, and whatever it could have
\* done without an overflow is not better.
LEMMA NextRowFacts ==
  ASSUME NEW prev \in [Cells -> Worths], NEW row \in Samples, NEW inversed \in BOOLEAN
  PROVE  LET next == NextRow(prev, row, inversed)
         IN  /\ next \in Rows
             /\ \A j \in Cells :
                  /\ \/ next.left[j] = j /\ next.sum[j] = prev[j]
                     \/ \E m \in 1 .. j : /\ next.left[j] = j - m
                                          /\ next.sum[j] = prev[j - m] + row[m]
                  /\ ~Better(prev[j], next.sum[j], inversed)
                  /\ \A m \in 1 .. j : prev[j - m] + row[m] <= FixedMax =>
                        ~Better(prev[j - m] + row[m], next.sum[j], inversed)
  <1> DEFINE with(j, k) == prev[j - k - 1] + SampleOf(row, k)
             options(j) == {k \in 0 .. (j - 1) : /\ with(j, k) <= FixedMax
                                                 /\ Better(with(j, k), prev[j], inversed)}
             best(j, from) == CHOOSE k \in from : \A m \in from :
                                 /\ ~Better(with(j, m), with(j, k), inversed)
                                 /\ with(j, m) = with(j, k) => k <= m
             cell == [j \in Cells |->
                        LET from == options(j)
                            k == best(j, from)
                        IN  IF from = {} THEN [sum |-> prev[j], left |-> j]
                            ELSE [sum |-> with(j, k), left |-> j - k - 1]]
             next == NextRow(prev, row, inversed)
  <1>1. next = [sum |-> [j \in Cells |-> cell[j].sum], left |-> [j \in Cells |-> cell[j].left]]
    BY DEF NextRow, Cells
  <1>2. ASSUME NEW j \in Cells
        PROVE  /\ cell[j].sum \in Worths /\ cell[j].left \in 0 .. j
               /\ \/ cell[j].left = j /\ cell[j].sum = prev[j]
                  \/ \E m \in 1 .. j : /\ cell[j].left = j - m
                                       /\ cell[j].sum = prev[j - m] + row[m]
               /\ ~Better(prev[j], cell[j].sum, inversed)
               /\ \A m \in 1 .. j : prev[j - m] + row[m] <= FixedMax =>
                     ~Better(prev[j - m] + row[m], cell[j].sum, inversed)
    <2>1. j \in Nat /\ j <= NumSamples /\ prev[j] \in Worths /\ prev[j] \in Int
      <3>1. prev[j] \in Worths
        OBVIOUS
      <3>2. j \in Nat /\ j <= NumSamples
        BY SizeFacts DEF Cells
      <3> QED
        BY <3>1, <3>2, SizeFacts
    <2>2. \A k \in 0 .. (j - 1) : /\ k + 1 \in 1 .. j /\ j - k - 1 = j - (k + 1)
                                  /\ with(j, k) = prev[j - (k + 1)] + row[k + 1]
      BY <2>1 DEF SampleOf
    <2>3. \A m \in 1 .. j : /\ prev[j - m] \in Nat /\ row[m] \in Nat
                            /\ m - 1 \in 0 .. (j - 1)
                            /\ with(j, m - 1) = prev[j - m] + row[m]
      <3> SUFFICES ASSUME NEW m \in 1 .. j
                   PROVE  /\ prev[j - m] \in Nat /\ row[m] \in Nat
                          /\ m - 1 \in 0 .. (j - 1)
                          /\ with(j, m - 1) = prev[j - m] + row[m]
        OBVIOUS
      <3>1. j - m \in Cells /\ m \in Column /\ m - 1 \in 0 .. (j - 1)
        BY <2>1, SizeFacts DEF Cells, Column
      <3>2. prev[j - m] \in Nat /\ row[m] \in Nat
        BY <3>1, SizeFacts DEF Samples
      <3>3. j - (m - 1) - 1 = j - m /\ (m - 1) + 1 = m
        BY <2>1
      <3> QED
        BY <3>1, <3>2, <3>3 DEF SampleOf
    <2>4. CASE options(j) = {}
      <3>1. cell[j].sum = prev[j] /\ cell[j].left = j
        BY <2>4
      <3>2. ~Better(prev[j], prev[j], inversed)
        BY <2>1 DEF Better
      <3>3. \A m \in 1 .. j : prev[j - m] + row[m] <= FixedMax =>
               ~Better(prev[j - m] + row[m], prev[j], inversed)
        BY <2>3, <2>4
      <3> HIDE DEF cell
      <3> QED
        BY <2>1, <3>1, <3>2, <3>3
    <2>5. CASE options(j) # {}
      <3>1. PICK from : from = options(j)
        OBVIOUS
      <3>2. /\ from \in SUBSET Nat /\ from # {} /\ from \subseteq 0 .. (j - 1)
            /\ \A k \in from : with(j, k) <= FixedMax /\ Better(with(j, k), prev[j], inversed)
        BY <2>1, <2>5, <3>1
      <3>3. \A k \in 0 .. (j - 1) : k \notin from =>
               ~(with(j, k) <= FixedMax /\ Better(with(j, k), prev[j], inversed))
        BY <3>1
      <3>4. cell[j] = [sum |-> with(j, best(j, from)), left |-> j - best(j, from) - 1]
        BY <2>5, <3>1
      <3>5. \A k \in 0 .. (j - 1) : with(j, k) \in Nat
        <4> SUFFICES ASSUME NEW k \in 0 .. (j - 1) PROVE with(j, k) \in Nat
          OBVIOUS
        <4>1. k + 1 \in 1 .. j /\ with(j, k) = prev[j - (k + 1)] + row[k + 1]
          BY <2>2
        <4>2. prev[j - (k + 1)] \in Nat /\ row[k + 1] \in Nat
          BY <2>3, <4>1
        <4> HIDE DEF with
        <4> QED
          BY <4>1, <4>2
      <3>6. \E k \in from : \A m \in from :
               /\ ~Better(with(j, m), with(j, k), inversed)
               /\ with(j, m) = with(j, k) => k <= m
        <4>1. PICK value : value = [k \in 0 .. (j - 1) |-> with(j, k)]
          OBVIOUS
        <4> HIDE DEF with
        <4>2. \A k \in from : value[k] = with(j, k) /\ value[k] \in Worths
          BY <3>2, <3>5, <4>1 DEF Worths
        <4>3. \E k \in from : \A m \in from :
                 ~Better(value[m], value[k], inversed) /\ (value[m] = value[k] => k <= m)
          BY <3>2, <4>2, BestExists
        <4> QED
          BY <4>2, <4>3
      <3> HIDE DEF options, cell
      <3>7. PICK k : k = best(j, from)
        OBVIOUS
      <3>8. k \in from /\ \A m \in from : ~Better(with(j, m), with(j, k), inversed)
        <4> HIDE DEF with
        <4> QED
          BY <3>6, <3>7
      <3> HIDE DEF best
      <3>9. cell[j].sum = with(j, k) /\ cell[j].left = j - k - 1
        BY <3>4, <3>7
      <3>10. /\ k \in 0 .. (j - 1) /\ with(j, k) \in Worths
             /\ Better(with(j, k), prev[j], inversed)
        <4> HIDE DEF with
        <4> QED
          BY <3>2, <3>5, <3>8 DEF Worths
      <3>11. /\ k + 1 \in 1 .. j /\ cell[j].left = j - (k + 1) /\ j - (k + 1) \in 0 .. j
             /\ cell[j].sum = prev[j - (k + 1)] + row[k + 1]
        BY <2>1, <2>2, <3>9, <3>10
      <3>12. ~Better(prev[j], cell[j].sum, inversed)
        <4> HIDE DEF with
        <4>1. with(j, k) \in Int
          BY <3>5, <3>10
        <4> QED
          BY <2>1, <3>9, <3>10, <4>1 DEF Better
      <3>13. ASSUME NEW m \in 1 .. j, prev[j - m] + row[m] <= FixedMax
             PROVE  ~Better(prev[j - m] + row[m], cell[j].sum, inversed)
        <4>1. m - 1 \in 0 .. (j - 1) /\ with(j, m - 1) = prev[j - m] + row[m]
          BY <2>3
        <4> HIDE DEF with
        <4>2. CASE m - 1 \in from
          BY <3>8, <3>9, <4>1, <4>2
        <4>3. CASE m - 1 \notin from
          <5>1. ~Better(with(j, m - 1), prev[j], inversed)
            BY <3>3, <3>13, <4>1, <4>3
          <5>2. with(j, m - 1) \in Int /\ with(j, k) \in Int
            BY <3>5, <3>10, <4>1
          <5> QED
            BY <2>1, <3>9, <3>10, <4>1, <5>1, <5>2 DEF Better
        <4> QED
          BY <4>2, <4>3
      <3> QED
        BY <3>9, <3>10, <3>11, <3>12, <3>13
    <2> QED
      BY <2>4, <2>5
  <1> HIDE DEF cell, next
  <1>3. \A j \in Cells : next.sum[j] = cell[j].sum /\ next.left[j] = cell[j].left
    BY <1>1
  <1>4. \A j \in Cells : 0 .. j \subseteq Cells
    BY SizeFacts DEF Cells
  <1>5. next \in Rows
    <2>1. \A j \in Cells : cell[j].sum \in Worths /\ cell[j].left \in Cells
                           /\ cell[j].left <= j
      BY <1>2, <1>4, SizeFacts
    <2>2. /\ [j \in Cells |-> cell[j].sum] \in [Cells -> Worths]
          /\ [j \in Cells |-> cell[j].left] \in [Cells -> Cells]
      BY <2>1
    <2>3. next \in [sum : [Cells -> Worths], left : [Cells -> Cells]]
      BY <1>1, <2>2
    <2> QED
      BY <1>3, <2>1, <2>3 DEF Rows
  <1>6. \A j \in Cells :
                  /\ \/ next.left[j] = j /\ next.sum[j] = prev[j]
                     \/ \E m \in 1 .. j : /\ next.left[j] = j - m
                                          /\ next.sum[j] = prev[j - m] + row[m]
                  /\ ~Better(prev[j], next.sum[j], inversed)
                  /\ \A m \in 1 .. j : prev[j - m] + row[m] <= FixedMax =>
                        ~Better(prev[j - m] + row[m], next.sum[j], inversed)
    BY <1>2, <1>3
  <1> QED
    BY <1>5, <1>6 DEF next

-----------------------------------------------------------------------------
(* The distribution that the rows describe.                                *)

\* The rows of as many sources as were sampled.
Computed(data, table, inversed) ==
  /\ data \in Seq(Samples) /\ Len(data) \in Nat \ {0}
  /\ table \in Seq(Rows) /\ Len(table) = Len(data)
  /\ table[1] = FirstRow(data[1])
  /\ \A i \in 2 .. Len(data) : table[i] = NextRow(table[i - 1].sum, data[i], inversed)

\* The way back through the rows exists, and each step follows what the row says.
LEMMA PartsFacts ==
  ASSUME NEW table \in Seq(Rows)
  PROVE  LET parts == Parts(table)
         IN  /\ parts \in [0 .. Len(table) -> Cells]
             /\ parts[Len(table)] = NumSamples
             /\ \A i \in 1 .. Len(table) : parts[i - 1] = table[i].left[parts[i]]
  <1>1. PICK n : n = Len(table)
    OBVIOUS
  <1>2. n \in Nat /\ \A i \in 1 .. n : table[i] \in Rows
    BY <1>1
  <1>3. \A i \in 1 .. n : \A j \in Cells : table[i].left[j] \in Cells
    BY <1>2 DEF Rows
  <1>4. NumSamples \in Cells
    BY SizeFacts DEF Cells
  <1> DEFINE Back(q) == [i \in 0 .. n |-> IF i = n THEN NumSamples
                                          ELSE table[i + 1].left[q[i + 1]]]
             Good == {k \in Nat : k <= n =>
                        \E q : /\ q \in [(n - k) .. n -> Cells] /\ q[n] = NumSamples
                               /\ \A i \in ((n - k) + 1) .. n : q[i - 1] = table[i].left[q[i]]}
  <1>5. 0 \in Good
    <2>1. PICK q : q = [i \in n .. n |-> NumSamples]
      OBVIOUS
    <2>2. /\ q \in [(n - 0) .. n -> Cells] /\ q[n] = NumSamples
          /\ ((n - 0) + 1) .. n = {}
      BY <1>2, <1>4, <2>1
    <2> QED
      BY <2>2
  <1>6. ASSUME NEW k \in Nat, k \in Good
        PROVE  k + 1 \in Good
    <2> SUFFICES ASSUME k + 1 <= n
                 PROVE  \E q : /\ q \in [(n - (k + 1)) .. n -> Cells] /\ q[n] = NumSamples
                               /\ \A i \in ((n - (k + 1)) + 1) .. n :
                                     q[i - 1] = table[i].left[q[i]]
      OBVIOUS
    <2>1. PICK q : /\ q \in [(n - k) .. n -> Cells] /\ q[n] = NumSamples
                   /\ \A i \in ((n - k) + 1) .. n : q[i - 1] = table[i].left[q[i]]
      BY <1>2, <1>6
    <2>2. PICK low : low = n - k
      OBVIOUS
    <2>3. /\ low \in 1 .. n /\ n - (k + 1) = low - 1 /\ (low - 1) + 1 = low
      BY <1>2, <2>2
    <2>4. PICK r : r = [i \in (low - 1) .. n |-> IF i = low - 1 THEN table[low].left[q[low]]
                                                 ELSE q[i]]
      OBVIOUS
    <2>5. q \in [low .. n -> Cells] /\ q[low] \in Cells
      BY <1>2, <2>1, <2>2, <2>3
    <2>6. /\ \A i \in (low - 1) .. n : i # low - 1 => i \in low .. n
          /\ n \in (low - 1) .. n /\ n # low - 1
          /\ \A i \in low .. n : i - 1 \in (low - 1) .. n /\ i \in (low - 1) .. n /\ i # low - 1
          /\ \A i \in low .. n : i # low => i \in (low + 1) .. n /\ i - 1 # low - 1
          /\ low \in low .. n
      BY <1>2, <2>3
    <2>7. table[low].left[q[low]] \in Cells
      BY <1>3, <2>3, <2>5
    <2>8. r \in [(low - 1) .. n -> Cells]
      BY <2>4, <2>5, <2>6, <2>7
    <2>9. r[n] = NumSamples
      BY <2>1, <2>4, <2>6
    <2>10. \A i \in low .. n : r[i - 1] = table[i].left[r[i]]
      <3> SUFFICES ASSUME NEW i \in low .. n PROVE r[i - 1] = table[i].left[r[i]]
        OBVIOUS
      <3>1. r[i] = q[i]
        BY <2>4, <2>6
      <3>2. CASE i = low
        BY <2>4, <2>6, <3>1, <3>2
      <3>3. CASE i # low
        <4>1. r[i - 1] = q[i - 1] /\ i \in (low + 1) .. n
          BY <2>4, <2>6, <3>3
        <4>2. q[i - 1] = table[i].left[q[i]]
          BY <2>1, <2>2, <4>1
        <4> QED
          BY <3>1, <4>1, <4>2
      <3> QED
        BY <3>2, <3>3
    <2> QED
      BY <2>3, <2>8, <2>9, <2>10
  <1> HIDE DEF Good
  <1>7. n \in Good
    BY <1>2, <1>5, <1>6, UpFromZero
  <1>8. \E q : q = Back(q)
    <2>1. PICK q : /\ q \in [(n - n) .. n -> Cells] /\ q[n] = NumSamples
                   /\ \A i \in ((n - n) + 1) .. n : q[i - 1] = table[i].left[q[i]]
      BY <1>2, <1>7 DEF Good
    <2>2. q \in [0 .. n -> Cells] /\ \A i \in 1 .. n : q[i - 1] = table[i].left[q[i]]
      BY <1>2, <2>1
    <2>3. \A i \in 0 .. n : q[i] = Back(q)[i]
      <3> SUFFICES ASSUME NEW i \in 0 .. n PROVE q[i] = Back(q)[i]
        OBVIOUS
      <3>1. CASE i = n
        BY <2>1, <3>1
      <3>2. CASE i # n
        <4>1. i + 1 \in 1 .. n /\ (i + 1) - 1 = i
          BY <1>2, <3>2
        <4>2. q[i] = table[i + 1].left[q[i + 1]]
          BY <2>2, <4>1
        <4> QED
          BY <3>2, <4>2
      <3> QED
        BY <3>1, <3>2
    <2>4. q = [i \in 0 .. n |-> q[i]]
      BY <2>2
    <2> QED
      BY <2>3, <2>4
  <1>9. PICK p : p = Parts(table)
    OBVIOUS
  <1>10. p = Back(p)
    <2>1. p = CHOOSE q : q = Back(q)
      BY <1>1, <1>9 DEF Parts
    <2> HIDE DEF Back
    <2> QED
      BY <1>8, <2>1
  <1>11. DOMAIN p = 0 .. n /\ p[n] = NumSamples
    BY <1>2, <1>10
  <1>12. \A i \in 1 .. n : p[i - 1] = table[i].left[p[i]]
    <2> SUFFICES ASSUME NEW i \in 1 .. n PROVE p[i - 1] = table[i].left[p[i]]
      OBVIOUS
    <2>1. i - 1 \in 0 .. n /\ i - 1 # n /\ (i - 1) + 1 = i
      BY <1>2
    <2> QED
      BY <1>10, <2>1
  <1> DEFINE Typed == {k \in Nat : k <= n => p[n - k] \in Cells}
  <1>13. 0 \in Typed
    <2>1. n - 0 = n
      BY <1>2
    <2> QED
      BY <1>4, <1>11, <2>1
  <1>14. ASSUME NEW k \in Nat, k \in Typed
         PROVE  k + 1 \in Typed
    <2> SUFFICES ASSUME k + 1 <= n PROVE p[n - (k + 1)] \in Cells
      OBVIOUS
    <2>1. p[n - k] \in Cells /\ n - k \in 1 .. n /\ (n - k) - 1 = n - (k + 1)
      BY <1>2, <1>14
    <2>2. p[(n - k) - 1] = table[n - k].left[p[n - k]]
      BY <1>12, <2>1
    <2>3. table[n - k].left[p[n - k]] \in Cells
      BY <1>3, <2>1
    <2> QED
      BY <2>1, <2>2, <2>3
  <1> HIDE DEF Typed
  <1>15. Nat \subseteq Typed
    BY <1>13, <1>14, UpFromZero
  <1>16. \A i \in 0 .. n : p[i] \in Cells
    <2> SUFFICES ASSUME NEW i \in 0 .. n PROVE p[i] \in Cells
      OBVIOUS
    <2>1. n - i \in Nat /\ n - i <= n /\ n - (n - i) = i
      BY <1>2
    <2>2. n - i \in Typed
      BY <1>15, <2>1
    <2> QED
      BY <2>1, <2>2 DEF Typed
  <1>17. p \in [0 .. n -> Cells]
    BY <1>10, <1>16
  <1> QED
    BY <1>1, <1>9, <1>11, <1>12, <1>17

\* The types of a computed table.
LEMMA ComputedFacts ==
  ASSUME NEW data, NEW table, NEW inversed, Computed(data, table, inversed)
  PROVE  /\ \A i \in 1 .. Len(data) :
            /\ data[i] \in Samples /\ table[i] \in Rows
            /\ table[i].sum \in [Cells -> Worths]
            /\ \A j \in Cells : table[i].sum[j] \in Nat /\ table[i].sum[j] <= FixedMax
            /\ \A j \in Column : data[i][j] \in Nat
         /\ Len(table) = Len(data) /\ Len(data) \in Nat /\ Len(data) >= 1
  <1>1. /\ data \in Seq(Samples) /\ Len(data) \in Nat \ {0}
        /\ table \in Seq(Rows) /\ Len(table) = Len(data)
    BY DEF Computed
  <1>2. ASSUME NEW i \in 1 .. Len(data)
        PROVE  data[i] \in Samples /\ table[i] \in Rows
    BY <1>1
  <1>3. ASSUME NEW row \in Rows, NEW j \in Cells
        PROVE  row.sum \in [Cells -> Worths] /\ row.sum[j] \in Nat /\ row.sum[j] <= FixedMax
    <2>1. row.sum \in [Cells -> Worths]
      BY DEF Rows
    <2>2. row.sum[j] \in Worths
      BY <2>1
    <2> QED
      BY <2>1, <2>2, SizeFacts DEF Worths
  <1>4. 0 \in Cells
    BY SizeFacts DEF Cells
  <1>5. ASSUME NEW col \in Samples, NEW j \in Column
        PROVE  col[j] \in Nat
    <2>1. col[j] \in Worths
      BY DEF Samples
    <2> QED
      BY <2>1, SizeFacts
  <1> QED
    BY <1>1, <1>2, <1>3, <1>4, <1>5

\* find_distribution hands out every part once, and what it returns is the sum of
\* the samples it picked.
LEMMA FoundFacts ==
  ASSUME NEW data, NEW table, NEW inversed \in BOOLEAN, Computed(data, table, inversed)
  PROVE  LET found == FindDistribution(table)
         IN  /\ found.weight \in [1 .. Len(data) -> Cells]
             /\ SumFunction(found.weight) = NumSamples
             /\ Worth(data, found.weight) = found.best
             /\ found.best = table[Len(data)].sum[NumSamples]
             /\ found.share = [i \in 1 .. Len(data) |->
                                 FxDiv(found.weight[i] * Unit, NumSamples * Unit)]
  <1>1. PICK n, p, found, weight :
           /\ n = Len(data) /\ p = Parts(table) /\ found = FindDistribution(table)
           /\ weight = found.weight
    OBVIOUS
  <1>2. /\ n \in Nat /\ n >= 1 /\ Len(table) = n /\ n \in 1 .. n /\ 1 \in 1 .. n
        /\ table \in Seq(Rows)
        /\ table[1] = FirstRow(data[1])
        /\ \A i \in 2 .. n : table[i] = NextRow(table[i - 1].sum, data[i], inversed)
        /\ \A i \in 1 .. n : data[i] \in Samples /\ table[i] \in Rows
                             /\ table[i].sum \in [Cells -> Worths]
    <2>1. /\ table \in Seq(Rows) /\ table[1] = FirstRow(data[1])
          /\ \A i \in 2 .. n : table[i] = NextRow(table[i - 1].sum, data[i], inversed)
      BY <1>1 DEF Computed
    <2>2. /\ n \in Nat /\ n >= 1 /\ Len(table) = n
          /\ \A i \in 1 .. n : data[i] \in Samples /\ table[i] \in Rows
                               /\ table[i].sum \in [Cells -> Worths]
      BY <1>1, ComputedFacts
    <2>3. n \in 1 .. n /\ 1 \in 1 .. n
      BY <2>2
    <2> QED
      BY <2>1, <2>2, <2>3
  <1>3. /\ p \in [0 .. n -> Cells] /\ p[n] = NumSamples
        /\ \A i \in 1 .. n : p[i - 1] = table[i].left[p[i]]
    BY <1>1, <1>2, PartsFacts
  <1>4. /\ found.best = table[n].sum[NumSamples]
        /\ weight = [i \in 1 .. n |-> p[i] - p[i - 1]]
        /\ found.share = [i \in 1 .. n |-> FxDiv(weight[i] * Unit, NumSamples * Unit)]
    <2>1. weight = [i \in 1 .. n |-> p[i] - p[i - 1]]
      BY <1>1, <1>2 DEF FindDistribution
    <2>2. found.best = table[n].sum[NumSamples]
      BY <1>1, <1>2 DEF FindDistribution
    <2>3. found.share = [i \in 1 .. n |-> FxDiv(weight[i] * Unit, NumSamples * Unit)]
      BY <1>1, <1>2 DEF FindDistribution
    <2> QED
      BY <2>1, <2>2, <2>3
  <1>5. \A i \in 0 .. n : p[i] \in Cells /\ p[i] \in Nat /\ p[i] <= NumSamples
    BY <1>3, SizeFacts DEF Cells
  <1>6. ASSUME NEW i \in 1 .. n
        PROVE  /\ i - 1 \in 0 .. n /\ i \in 0 .. n
               /\ p[i - 1] <= p[i] /\ weight[i] = p[i] - p[i - 1] /\ weight[i] \in Cells
    <2>1. i - 1 \in 0 .. n /\ i \in 0 .. n
      BY <1>2
    <2>2. table[i].left[p[i]] <= p[i]
      BY <1>2, <1>5, <2>1 DEF Rows
    <2>3. p[i - 1] <= p[i]
      BY <1>3, <2>2
    <2>4. weight[i] = p[i] - p[i - 1]
      BY <1>4
    <2> QED
      BY <1>5, <2>1, <2>3, <2>4, SizeFacts DEF Cells
  <1>7. p[0] = 0
    <2>1. p[1] \in Cells /\ p[1 - 1] = table[1].left[p[1]]
      BY <1>2, <1>3, <1>5
    <2>2. table[1].left[p[1]] = 0
      BY <1>2, <2>1, FirstRowFacts
    <2>3. 1 - 1 = 0
      OBVIOUS
    <2> QED
      BY <2>1, <2>2, <2>3
  <1>8. weight \in [1 .. n -> Cells]
    BY <1>4, <1>6
  <1>9. SumFunction(weight) = NumSamples
    <2>1. /\ \A i \in 0 .. n : p[i] \in Int
          /\ \A i \in 1 .. n : weight[i] = p[i] - p[i - 1]
      BY <1>5, <1>6
    <2>2. SumFunctionOnSet(weight, 1 .. n) = p[n] - p[0]
      BY <1>2, <2>1, SumSteps
    <2>3. DOMAIN weight = 1 .. n
      BY <1>8
    <2> QED
      BY <1>3, <1>7, <2>2, <2>3, SizeFacts DEF SumFunction
  <1>10. Worth(data, weight) = found.best
    <2>1. PICK got : got = [i \in 1 .. n |-> IF weight[i] = 0 THEN 0 ELSE data[i][weight[i]]]
      OBVIOUS
    <2>2. PICK best : best = [i \in 0 .. n |-> IF i = 0 THEN 0 ELSE table[i].sum[p[i]]]
      OBVIOUS
    <2>3. \A i \in 0 .. n : best[i] \in Int
      <3> SUFFICES ASSUME NEW i \in 0 .. n PROVE best[i] \in Int
        OBVIOUS
      <3>1. CASE i = 0
        BY <2>2, <3>1
      <3>2. CASE i # 0
        <4>1. i \in 1 .. n /\ best[i] = table[i].sum[p[i]]
          BY <2>2, <3>2
        <4>2. table[i].sum[p[i]] \in Worths
          BY <1>2, <1>5, <4>1
        <4> QED
          BY <4>1, <4>2, SizeFacts
      <3> QED
        BY <3>1, <3>2
    <2>4. ASSUME NEW i \in 1 .. n
          PROVE  got[i] = best[i] - best[i - 1]
      <3>1. /\ got[i] = IF weight[i] = 0 THEN 0 ELSE data[i][weight[i]]
            /\ i # 0 /\ best[i] = table[i].sum[p[i]]
        BY <1>2, <2>1, <2>2
      <3>2. CASE i = 1
        <4>1. /\ weight[1] = p[1] /\ best[0] = 0
          BY <1>2, <1>5, <1>6, <1>7, <2>2, <3>2
        <4>2. table[1].sum[p[1]] = IF p[1] = 0 THEN 0 ELSE data[1][p[1]]
          BY <1>2, <1>5, FirstRowFacts
        <4>3. best[1] \in Int
          BY <1>2, <2>3
        <4> QED
          BY <3>1, <3>2, <4>1, <4>2, <4>3
      <3>3. CASE i # 1
        <4>1. i \in 2 .. n /\ i - 1 \in 1 .. n /\ i - 1 # 0
          BY <1>2, <3>3
        <4>2. PICK q, prev, j, next :
                 /\ q = p[i - 1] /\ prev = table[i - 1].sum /\ j = p[i] /\ next = table[i]
          OBVIOUS
        <4>3. /\ prev \in [Cells -> Worths] /\ data[i] \in Samples /\ j \in Cells /\ q \in Cells
              /\ next = NextRow(prev, data[i], inversed) /\ q = next.left[j]
              /\ best[i - 1] = prev[q] /\ best[i] = next.sum[j] /\ weight[i] = j - q
              /\ j \in Nat
          BY <1>2, <1>3, <1>5, <1>6, <2>2, <3>1, <4>1, <4>2
        <4>4. prev[q] \in Int
          BY <4>3, SizeFacts
        <4>5. \/ next.left[j] = j /\ next.sum[j] = prev[j]
              \/ \E m \in 1 .. j : /\ next.left[j] = j - m
                                   /\ next.sum[j] = prev[j - m] + data[i][m]
          BY <4>3, NextRowFacts
        <4>6. CASE next.left[j] = j /\ next.sum[j] = prev[j]
          BY <3>1, <4>3, <4>4, <4>6
        <4>7. ASSUME NEW m \in 1 .. j, next.left[j] = j - m,
                     next.sum[j] = prev[j - m] + data[i][m]
              PROVE  got[i] = best[i] - best[i - 1]
          <5>1. q = j - m /\ weight[i] = m /\ m # 0
            BY <4>3, <4>7
          <5>2. data[i][m] \in Int
            <6>1. m \in Column
              BY <4>3, SizeFacts DEF Cells, Column
            <6>2. data[i][m] \in Worths
              BY <4>3, <6>1 DEF Samples
            <6> QED
              BY <6>2, SizeFacts
          <5> QED
            BY <3>1, <4>3, <4>4, <4>7, <5>1, <5>2
        <4> QED
          BY <4>5, <4>6, <4>7
      <3> QED
        BY <3>2, <3>3
    <2>5. SumFunctionOnSet(got, 1 .. n) = best[n] - best[0]
      BY <1>2, <2>3, <2>4, SumSteps
    <2>6. /\ best[0] = 0 /\ best[n] = table[n].sum[NumSamples] /\ best[n] \in Int
      <3>1. 0 \in 0 .. n /\ n \in 0 .. n /\ n # 0
        BY <1>2
      <3> QED
        BY <1>3, <2>2, <2>3, <3>1
    <2>7. Worth(data, weight) = SumFunction(got)
      BY <1>1, <2>1 DEF Worth
    <2>8. DOMAIN got = 1 .. n
      BY <2>1
    <2> QED
      BY <1>4, <2>5, <2>6, <2>7, <2>8 DEF SumFunction
  <1> QED
    BY <1>1, <1>4, <1>8, <1>9, <1>10

\* A sum over as many sources is at most as many outcomes.
LEMMA SumsAreBounded ==
  ASSUME NEW data, NEW table, NEW inversed \in BOOLEAN, Computed(data, table, inversed),
         \A i \in 1 .. Len(data) : \A j \in Column : data[i][j] <= MaxOutcome
  PROVE  \A i \in 1 .. Len(data) : \A j \in Cells : table[i].sum[j] <= i * MaxOutcome
  <1>1. PICK n : n = Len(data)
    OBVIOUS
  <1>2. /\ n \in Nat /\ n >= 1
        /\ \A i \in 1 .. n : /\ data[i] \in Samples
                             /\ table[i].sum \in [Cells -> Worths]
                             /\ \A j \in Cells : table[i].sum[j] \in Nat
                             /\ \A j \in Column : data[i][j] \in Nat
    BY <1>1, ComputedFacts
  <1>3. /\ table[1] = FirstRow(data[1])
        /\ \A i \in 2 .. n : table[i] = NextRow(table[i - 1].sum, data[i], inversed)
    BY <1>1 DEF Computed
  <1>4. MaxOutcome \in Nat
    BY OutcomeAssumption
  <1> DEFINE Good == {k \in Nat : k + 1 <= n =>
                        \A j \in Cells : table[k + 1].sum[j] <= (k + 1) * MaxOutcome}
  <1>5. 0 \in Good
    <2> SUFFICES ASSUME NEW j \in Cells
                 PROVE  table[0 + 1].sum[j] <= (0 + 1) * MaxOutcome
      OBVIOUS
    <2>1. 1 \in 1 .. n /\ table[1].sum[j] = IF j = 0 THEN 0 ELSE data[1][j]
      BY <1>2, <1>3, FirstRowFacts
    <2>2. j # 0 => j \in Column
      BY SizeFacts DEF Cells, Column
    <2>3. table[1].sum[j] <= MaxOutcome
      BY <1>1, <1>4, <2>1, <2>2
    <2>4. 0 + 1 = 1 /\ 1 * MaxOutcome = MaxOutcome
      BY <1>4
    <2> QED
      BY <2>3, <2>4
  <1>6. ASSUME NEW k \in Nat, k \in Good
        PROVE  k + 1 \in Good
    <2> SUFFICES ASSUME (k + 1) + 1 <= n, NEW j \in Cells
                 PROVE  table[(k + 1) + 1].sum[j] <= ((k + 1) + 1) * MaxOutcome
      OBVIOUS
    <2>1. \A c \in Cells : table[k + 1].sum[c] <= (k + 1) * MaxOutcome
      BY <1>2, <1>6
    <2>2. PICK prev, i, next : prev = table[k + 1].sum /\ i = (k + 1) + 1 /\ next = table[i]
      OBVIOUS
    <2>3. /\ i \in 2 .. n /\ i \in 1 .. n /\ i - 1 = k + 1 /\ k + 1 \in 1 .. n
      BY <1>2, <2>2
    <2>4. /\ prev \in [Cells -> Worths] /\ data[i] \in Samples
          /\ next = NextRow(prev, data[i], inversed)
      BY <1>2, <1>3, <2>2, <2>3
    <2>5. \/ next.sum[j] = prev[j]
          \/ \E m \in 1 .. j : next.sum[j] = prev[j - m] + data[i][m]
      BY <2>4, NextRowFacts
    <2>6. /\ i * MaxOutcome = (k + 1) * MaxOutcome + MaxOutcome
          /\ (k + 1) * MaxOutcome \in Nat
      BY <1>4, <2>2
    <2>7. CASE next.sum[j] = prev[j]
      <3>1. prev[j] <= (k + 1) * MaxOutcome /\ prev[j] \in Nat
        BY <1>2, <2>1, <2>2, <2>3
      <3>2. next.sum[j] <= i * MaxOutcome
        BY <1>4, <2>6, <2>7, <3>1
      <3> QED
        BY <2>2, <3>2
    <2>8. ASSUME NEW m \in 1 .. j, next.sum[j] = prev[j - m] + data[i][m]
          PROVE  table[(k + 1) + 1].sum[j] <= ((k + 1) + 1) * MaxOutcome
      <3>1. j - m \in Cells /\ m \in Column
        BY SizeFacts DEF Cells, Column
      <3>2. prev[j - m] <= (k + 1) * MaxOutcome /\ prev[j - m] \in Nat
        BY <1>2, <2>1, <2>2, <2>3, <3>1
      <3>3. data[i][m] <= MaxOutcome /\ data[i][m] \in Nat
        BY <1>1, <1>2, <2>3, <3>1
      <3>4. next.sum[j] <= i * MaxOutcome
        BY <1>4, <2>6, <2>8, <3>2, <3>3
      <3> QED
        BY <2>2, <3>4
    <2> QED
      BY <2>5, <2>7, <2>8
  <1> HIDE DEF Good
  <1>7. Nat \subseteq Good
    BY <1>5, <1>6, UpFromZero
  <1>8. ASSUME NEW i \in 1 .. n
        PROVE  \A j \in Cells : table[i].sum[j] <= i * MaxOutcome
    <2>1. i - 1 \in Nat /\ (i - 1) + 1 = i /\ (i - 1) + 1 <= n
      BY <1>2
    <2>2. i - 1 \in Good
      BY <1>7, <2>1
    <2> QED
      BY <2>1, <2>2 DEF Good
  <1> QED
    BY <1>1, <1>8

\* No way to hand out the parts is better than the last cell of the last row, the
\* sums of which are those of its prefixes.
LEMMA NothingIsBetter ==
  ASSUME NEW data, NEW table, NEW inversed \in BOOLEAN, Computed(data, table, inversed),
         ~inversed => /\ Len(data) <= MaxSources
                      /\ \A i \in 1 .. Len(data) : \A j \in Column : data[i][j] <= MaxOutcome,
         NEW weight \in [1 .. Len(data) -> Cells], SumFunction(weight) = NumSamples,
         Worth(data, weight) <= FixedMax
  PROVE  ~Better(Worth(data, weight), table[Len(data)].sum[NumSamples], inversed)
  <1>1. PICK n : n = Len(data)
    OBVIOUS
  <1>2. /\ n \in Nat /\ n >= 1 /\ 1 \in 1 .. n /\ n \in 1 .. n
        /\ \A i \in 1 .. n : /\ data[i] \in Samples
                             /\ table[i].sum \in [Cells -> Worths]
                             /\ \A j \in Cells : table[i].sum[j] \in Nat
                             /\ \A j \in Column : data[i][j] \in Nat
    BY <1>1, ComputedFacts
  <1>3. /\ table[1] = FirstRow(data[1])
        /\ \A i \in 2 .. n : table[i] = NextRow(table[i - 1].sum, data[i], inversed)
    BY <1>1 DEF Computed
  <1>4. PICK got : got = [i \in 1 .. n |-> IF weight[i] = 0 THEN 0 ELSE data[i][weight[i]]]
    OBVIOUS
  <1>5. Worth(data, weight) = SumFunctionOnSet(got, 1 .. n) /\ SumFunctionOnSet(got, 1 .. n) <= FixedMax
    <2>1. Worth(data, weight) = SumFunction(got) /\ DOMAIN got = 1 .. n
      BY <1>1, <1>4 DEF Worth
    <2> QED
      BY <2>1 DEF SumFunction
  <1>6. SumFunctionOnSet(weight, 1 .. n) = NumSamples
    BY <1>1 DEF SumFunction
  <1>7. \A i \in 1 .. n : weight[i] \in Cells /\ weight[i] \in Nat
    BY <1>1, SizeFacts
  <1>8. \A i \in 1 .. n : got[i] \in Nat
    <2> SUFFICES ASSUME NEW i \in 1 .. n PROVE got[i] \in Nat
      OBVIOUS
    <2>1. weight[i] # 0 => weight[i] \in Column
      BY <1>7, SizeFacts DEF Cells, Column
    <2> QED
      BY <1>2, <1>4, <2>1
  <1>9. ASSUME NEW k \in 0 .. n
        PROVE  /\ SumFunctionOnSet(weight, 1 .. k) \in Cells
               /\ SumFunctionOnSet(got, 1 .. k) \in Nat
               /\ SumFunctionOnSet(got, 1 .. k) <= FixedMax
    <2>1. IsFiniteSet(1 .. n) /\ 1 .. k \in SUBSET (1 .. n)
      BY <1>2, FS_Interval
    <2>2. /\ SumFunctionOnSet(weight, 1 .. k) \in Nat
          /\ SumFunctionOnSet(weight, 1 .. k) <= SumFunctionOnSet(weight, 1 .. n)
      BY <1>7, <2>1, SumPart
    <2>3. /\ SumFunctionOnSet(got, 1 .. k) \in Nat
          /\ SumFunctionOnSet(got, 1 .. k) <= SumFunctionOnSet(got, 1 .. n)
          /\ SumFunctionOnSet(got, 1 .. n) \in Nat
      <3>1. 1 .. n \in SUBSET (1 .. n)
        OBVIOUS
      <3> QED
        BY <1>8, <2>1, <3>1, SumPart
    <2> QED
      BY <1>5, <1>6, <2>2, <2>3, SizeFacts DEF Cells
  <1> DEFINE Good == {k \in Nat : k + 1 <= n =>
                        ~Better(SumFunctionOnSet(got, 1 .. (k + 1)),
                                table[k + 1].sum[SumFunctionOnSet(weight, 1 .. (k + 1))],
                                inversed)}
  <1>10. 0 \in Good
    <2>1. PICK v, w : /\ v = SumFunctionOnSet(got, 1 .. (0 + 1))
                      /\ w = SumFunctionOnSet(weight, 1 .. (0 + 1))
      OBVIOUS
    <2>2. v = got[1] /\ w = weight[1]
      <3>1. SumFunctionOnSet(got, 1 .. (0 + 1)) = SumFunctionOnSet(got, 1 .. 0) + got[0 + 1]
        <4>1. \A i \in 1 .. (0 + 1) : got[i] \in Int
          BY <1>2, <1>8
        <4> QED
          BY <4>1, SumNext
      <3>2. SumFunctionOnSet(weight, 1 .. (0 + 1))
              = SumFunctionOnSet(weight, 1 .. 0) + weight[0 + 1]
        <4>1. \A i \in 1 .. (0 + 1) : weight[i] \in Int
          BY <1>2, <1>7
        <4> QED
          BY <4>1, SumNext
      <3>3. 1 .. 0 = {} /\ 0 + 1 = 1
        OBVIOUS
      <3>4. SumFunctionOnSet(got, 1 .. 0) = 0 /\ SumFunctionOnSet(weight, 1 .. 0) = 0
        BY <3>3, SumNothing
      <3>5. got[1] \in Int /\ weight[1] \in Int
        BY <1>2, <1>7, <1>8
      <3> QED
        BY <2>1, <3>1, <3>2, <3>3, <3>4, <3>5
    <2>3. table[1].sum[w] = IF w = 0 THEN 0 ELSE data[1][w]
      BY <1>2, <1>3, <1>7, <2>2, FirstRowFacts
    <2>4. v = table[1].sum[w] /\ v \in Int
      BY <1>2, <1>4, <1>8, <2>2, <2>3
    <2>5. ~Better(v, table[0 + 1].sum[w], inversed)
      BY <2>4 DEF Better
    <2> QED
      BY <2>1, <2>5
  <1>11. ASSUME NEW k \in Nat, k \in Good
         PROVE  k + 1 \in Good
    <2> SUFFICES ASSUME (k + 1) + 1 <= n
                 PROVE  ~Better(SumFunctionOnSet(got, 1 .. ((k + 1) + 1)),
                                table[(k + 1) + 1].sum[
                                   SumFunctionOnSet(weight, 1 .. ((k + 1) + 1))],
                                inversed)
      OBVIOUS
    <2>1. PICK i, u, q, v, j, m, c, prev, next :
             /\ i = (k + 1) + 1
             /\ u = SumFunctionOnSet(got, 1 .. (k + 1))
             /\ q = SumFunctionOnSet(weight, 1 .. (k + 1))
             /\ v = SumFunctionOnSet(got, 1 .. i) /\ j = SumFunctionOnSet(weight, 1 .. i)
             /\ m = weight[i] /\ c = got[i]
             /\ prev = table[k + 1].sum /\ next = table[i]
      OBVIOUS
    <2>2. /\ i \in 2 .. n /\ i \in 1 .. n /\ i \in 0 .. n /\ i - 1 = k + 1
          /\ k + 1 \in 1 .. n /\ k + 1 \in 0 .. n /\ i = (k + 1) + 1
      BY <1>2, <2>1
    <2>3. /\ u \in Nat /\ q \in Cells /\ v \in Nat /\ v <= FixedMax /\ j \in Cells
          /\ q \in Nat /\ j \in Nat /\ m \in Nat /\ c \in Nat
      BY <1>7, <1>8, <1>9, <2>1, <2>2, SizeFacts
    <2>4. v = u + c
      <3>1. \A h \in 1 .. ((k + 1) + 1) : got[h] \in Int
        BY <1>2, <1>8
      <3> QED
        BY <2>1, <3>1, SumNext
    <2>5. j = q + m
      <3>1. \A h \in 1 .. ((k + 1) + 1) : weight[h] \in Int
        BY <1>2, <1>7
      <3>2. SumFunctionOnSet(weight, 1 .. ((k + 1) + 1))
              = SumFunctionOnSet(weight, 1 .. (k + 1)) + weight[(k + 1) + 1]
        <4>1. k + 1 \in Nat
          OBVIOUS
        <4> QED
          BY <3>1, <4>1, SumNext
      <3> QED
        BY <2>1, <3>2
    <2>6. /\ prev \in [Cells -> Worths] /\ data[i] \in Samples
          /\ next = NextRow(prev, data[i], inversed)
          /\ prev[q] \in Nat /\ prev[j] \in Nat /\ next.sum[j] \in Nat
      BY <1>2, <1>3, <2>1, <2>2, <2>3
    <2>7. ~Better(u, prev[q], inversed)
      BY <1>2, <1>11, <2>1, <2>2
    <2>8. CASE m = 0
      <3>1. ~Better(prev[j], next.sum[j], inversed)
        BY <2>3, <2>6, NextRowFacts
      <3>2. j = q /\ v = u
        <4>1. c = 0
          BY <1>4, <2>1, <2>2, <2>8
        <4> QED
          BY <2>3, <2>4, <2>5, <2>8, <4>1
      <3>3. ~Better(v, next.sum[j], inversed)
        BY <2>3, <2>6, <2>7, <3>1, <3>2 DEF Better
      <3> QED
        BY <2>1, <3>3
    <2>9. CASE m # 0
      <3>1. m \in 1 .. j /\ j - m = q /\ m \in Column
        BY <2>3, <2>5, <2>9, SizeFacts DEF Cells, Column
      <3>2. c = data[i][m]
        BY <1>4, <2>1, <2>2, <2>9
      <3>3. prev[q] + c <= FixedMax => ~Better(prev[q] + c, next.sum[j], inversed)
        BY <2>3, <2>6, <3>1, <3>2, NextRowFacts
      <3>4. prev[q] + c <= FixedMax
        <4>1. CASE inversed
          <5>1. prev[q] <= u
            BY <2>3, <2>6, <2>7, <4>1 DEF Better
          <5> QED
            BY <2>3, <2>4, <2>6, <5>1, SizeFacts
        <4>2. CASE ~inversed
          <5>1. /\ n <= MaxSources
                /\ \A h \in 1 .. Len(data) : \A d \in Column : data[h][d] <= MaxOutcome
            BY <1>1, <4>2
          <5>2. table[k + 1].sum[q] <= (k + 1) * MaxOutcome
            BY <1>1, <2>2, <2>3, <5>1, SumsAreBounded
          <5>3. c <= MaxOutcome
            BY <1>1, <2>2, <3>1, <3>2, <5>1
          <5>4. /\ MaxOutcome \in Nat /\ MaxSources \in Nat
                /\ MaxSources * MaxOutcome <= FixedMax
            BY OutcomeAssumption
          <5>5. i * MaxOutcome <= MaxSources * MaxOutcome
            <6>1. i <= MaxSources /\ i \in Int
              BY <1>2, <2>2, <5>1, <5>4
            <6> QED
              BY <5>4, <6>1, ScaleLeq
          <5>6. i * MaxOutcome = (k + 1) * MaxOutcome + MaxOutcome
            BY <2>1, <5>4
          <5>7. (k + 1) * MaxOutcome \in Int /\ MaxSources * MaxOutcome \in Int
            BY <5>4
          <5>8. prev[q] <= (k + 1) * MaxOutcome
            BY <2>1, <5>2
          <5>9. FixedMax \in Int
            BY SizeFacts
          <5> QED
            BY <2>3, <2>6, <5>3, <5>4, <5>5, <5>6, <5>7, <5>8, <5>9
        <4> QED
          BY <4>1, <4>2
      <3>5. ~Better(prev[q] + c, next.sum[j], inversed)
        BY <3>3, <3>4
      <3>6. ~Better(v, next.sum[j], inversed)
        BY <2>3, <2>4, <2>6, <2>7, <3>5 DEF Better
      <3> QED
        BY <2>1, <3>6
    <2> QED
      BY <2>3, <2>8, <2>9
  <1> HIDE DEF Good
  <1>12. Nat \subseteq Good
    BY <1>10, <1>11, UpFromZero
  <1>13. n - 1 \in Good /\ (n - 1) + 1 = n /\ (n - 1) + 1 <= n
    BY <1>2, <1>12
  <1>14. ~Better(SumFunctionOnSet(got, 1 .. n),
                 table[n].sum[SumFunctionOnSet(weight, 1 .. n)], inversed)
    BY <1>13 DEF Good
  <1> QED
    BY <1>1, <1>5, <1>6, <1>14

-----------------------------------------------------------------------------
(* The shares and the parts of a trade.                                    *)

\* A quotient of Fixed values rounds down.
LEMMA QuotientFacts ==
  ASSUME NEW f \in Nat, NEW g \in Nat, g > 0
  PROVE  /\ (f * Unit) \div g \in Nat
         /\ ((f * Unit) \div g) * g <= f * Unit
         /\ f * Unit < ((f * Unit) \div g + 1) * g
         /\ (f * Unit) \div g <= FixedMax => FxDiv(f, g) = (f * Unit) \div g
  <1>1. f * Unit \in Nat
    BY SizeFacts
  <1>2. PICK q : q = (f * Unit) \div g
    OBVIOUS
  <1>3. q \in Nat /\ q * g <= f * Unit /\ f * Unit < (q + 1) * g
    <2>1. PICK d : d = f * Unit
      OBVIOUS
    <2>2. d \in Nat /\ d \in Int /\ g \in Int /\ q = d \div g
      BY <1>1, <1>2, <2>1
    <2>3. q \in Nat /\ q * g <= d /\ d < (q + 1) * g
      BY <2>2, DivBounds, DivNat
    <2> QED
      BY <2>1, <2>3
  <1>4. q <= FixedMax => FxDiv(f, g) = q
    <2>1. q <= FixedMax => q \in Signed(Modulus)
      BY <1>3, ModulusAssumption DEF FixedMax, Signed
    <2>2. f # Err /\ g # Err /\ g # 0
      BY ErrAssumption
    <2> QED
      BY <1>2, <2>1, <2>2 DEF FxDiv, FloorDiv, Checked
  <1> QED
    BY <1>2, <1>3, <1>4

\* The share of a weight is its part of one, rounded down.
LEMMA ShareFacts ==
  ASSUME NEW w \in Cells
  PROVE  LET share == FxDiv(w * Unit, NumSamples * Unit)
         IN  /\ share \in 0 .. Unit
             /\ share * NumSamples <= w * Unit
             /\ w * Unit < (share + 1) * NumSamples
  <1>1. /\ w \in Nat /\ w <= NumSamples /\ w * Unit \in Nat
        /\ NumSamples * Unit \in Nat /\ NumSamples * Unit > 0
    BY SizeFacts DEF Cells
  <1>2. PICK s : s = ((w * Unit) * Unit) \div (NumSamples * Unit)
    OBVIOUS
  <1>3. /\ s \in Nat /\ s * (NumSamples * Unit) <= (w * Unit) * Unit
        /\ (w * Unit) * Unit < (s + 1) * (NumSamples * Unit)
        /\ s <= FixedMax => FxDiv(w * Unit, NumSamples * Unit) = s
    BY <1>1, <1>2, QuotientFacts
  <1>4. w * Unit < (s + 1) * NumSamples
    <2>1. (s + 1) * (NumSamples * Unit) = ((s + 1) * NumSamples) * Unit
      BY <1>3, SizeFacts
    <2>2. (s + 1) * NumSamples \in Int
      BY <1>3, SizeFacts
    <2> QED
      BY <1>1, <1>3, <2>1, <2>2, SizeFacts, CancelFactor
  <1>5. s * NumSamples <= w * Unit
    <2>1. s * (NumSamples * Unit) = (s * NumSamples) * Unit
      BY <1>3, SizeFacts
    <2>2. s * NumSamples \in Int
      BY <1>3, SizeFacts
    <2>3. ~ (w * Unit < s * NumSamples)
      <3> SUFFICES ASSUME w * Unit < s * NumSamples PROVE FALSE
        OBVIOUS
      <3>1. (w * Unit) * Unit < (s * NumSamples) * Unit
        BY <1>1, <2>2, SizeFacts, ScaleLess
      <3>2. (w * Unit) * Unit \in Int /\ (s * NumSamples) * Unit \in Int
        BY <1>1, <2>2, SizeFacts
      <3> QED
        BY <1>3, <2>1, <3>1, <3>2
    <2> QED
      BY <1>1, <2>2, <2>3
  <1>6. s <= Unit
    <2>1. w * Unit <= NumSamples * Unit
      BY <1>1, SizeFacts, ScaleLeq
    <2>2. NumSamples * Unit < (Unit + 1) * NumSamples
      BY SizeFacts
    <2>3. s * NumSamples < (Unit + 1) * NumSamples
      <3>1. s * NumSamples \in Int /\ (Unit + 1) * NumSamples \in Int
        BY <1>3, SizeFacts
      <3> QED
        BY <1>1, <1>5, <2>1, <2>2, <3>1
    <2>4. s < Unit + 1
      BY <1>3, <2>3, SizeFacts, CancelFactor
    <2> QED
      BY <1>3, <2>4, SizeFacts
  <1>7. s <= FixedMax
    <2>1. Unit <= NumSamples * Unit
      <3>1. 1 * Unit <= NumSamples * Unit
        BY SizeFacts, ScaleLeq
      <3> QED
        BY <3>1, SizeFacts
    <2> QED
      BY <1>1, <1>3, <1>6, <2>1, SizeFacts
  <1>8. FxDiv(w * Unit, NumSamples * Unit) = s
    BY <1>3, <1>7
  <1>9. s \in 0 .. Unit
    BY <1>3, <1>6, SizeFacts
  <1> QED
    BY <1>4, <1>5, <1>8, <1>9

\* A part of a trade is its share of the amount, rounded down.
LEMMA PartFacts ==
  ASSUME NEW share \in 0 .. Unit, NEW amount \in Nat
  PROVE  /\ PartOf(share, amount) \in Nat
         /\ Unit * PartOf(share, amount) <= amount * share
         /\ amount * share <= Unit * PartOf(share, amount) + Unit
         /\ share = 0 => PartOf(share, amount) = 0
  <1>1. share \in Nat /\ share * amount \in Nat /\ share * amount = amount * share
    BY SizeFacts
  <1>2. PICK q : q = (share * amount) \div Unit
    OBVIOUS
  <1>3. q \in Nat /\ q * Unit <= share * amount /\ share * amount < (q + 1) * Unit
    BY <1>1, <1>2, SizeFacts, DivBounds, DivNat
  <1>4. q * Unit = Unit * q /\ (q + 1) * Unit = Unit * q + Unit /\ Unit * q \in Int
    BY <1>3, SizeFacts
  <1>5. share = 0 => q = 0
    <2> SUFFICES ASSUME share = 0 PROVE q = 0
      OBVIOUS
    <2>1. q * Unit <= 0
      BY <1>3
    <2>2. q # 0 => q * Unit > 0
      BY <1>3, SizeFacts
    <2> QED
      BY <1>3, <1>4, <2>1, <2>2
  <1> QED
    BY <1>1, <1>2, <1>3, <1>4, <1>5, SizeFacts DEF PartOf

\* The parts of any distribution stay within the trade and leave little of it.
LEMMA TradePartsFacts ==
  ASSUME NEW n \in Nat, NEW weight \in [1 .. n -> Cells], SumFunction(weight) = NumSamples,
         NEW share, share = [i \in 1 .. n |-> FxDiv(weight[i] * Unit, NumSamples * Unit)],
         NEW amount \in Nat
  PROVE  /\ SumFunction(ExchangeParts(share, amount)) \in Int
         /\ amount - SumFunction(ExchangeParts(share, amount)) >= 0
         /\ Unit * (amount - SumFunction(ExchangeParts(share, amount)))
              <= n * (Unit + amount)
  <1>1. ASSUME NEW i \in 1 .. n
        PROVE  /\ weight[i] \in Nat
               /\ share[i] \in 0 .. Unit /\ share[i] \in Nat
               /\ NumSamples * share[i] <= Unit * weight[i]
               /\ Unit * weight[i] <= NumSamples * share[i] + NumSamples
    <2>1. weight[i] \in Cells /\ share[i] = FxDiv(weight[i] * Unit, NumSamples * Unit)
      OBVIOUS
    <2>2. PICK w, s : w = weight[i] /\ s = share[i]
      OBVIOUS
    <2>3. /\ s \in 0 .. Unit /\ s * NumSamples <= w * Unit
          /\ w * Unit < (s + 1) * NumSamples /\ w \in Nat
      BY <2>1, <2>2, ShareFacts, SizeFacts
    <2>4. /\ s \in Nat
          /\ (s + 1) * NumSamples = NumSamples * s + NumSamples
          /\ s * NumSamples = NumSamples * s /\ w * Unit = Unit * w
          /\ NumSamples * s \in Int /\ Unit * w \in Int
      BY <2>3, SizeFacts
    <2> QED
      BY <2>2, <2>3, <2>4, SizeFacts
  <1>2. PICK part : part = [i \in 1 .. n |-> PartOf(share[i], amount)]
    OBVIOUS
  <1>3. \A i \in 1 .. n : /\ part[i] \in Nat
                          /\ Unit * part[i] <= amount * share[i]
                          /\ amount * share[i] <= Unit * part[i] + Unit
                          /\ share[i] = 0 => part[i] = 0
    BY <1>1, <1>2, PartFacts
  <1>4. IsFiniteSet(1 .. n)
    BY FS_Interval
  <1>5. PICK parts, shares, weights :
           /\ parts = SumFunctionOnSet(part, 1 .. n)
           /\ shares = SumFunctionOnSet(share, 1 .. n)
           /\ weights = SumFunctionOnSet(weight, 1 .. n)
    OBVIOUS
  <1>6. parts \in Int /\ shares \in Int /\ weights = NumSamples
    <2>1. parts \in Int
      <3>1. \A i \in 1 .. n : part[i] \in Int
        BY <1>3
      <3> QED
        BY <1>4, <1>5, <3>1, SumInt
    <2>2. shares \in Int
      <3>1. \A i \in 1 .. n : share[i] \in Int
        BY <1>1
      <3> QED
        BY <1>4, <1>5, <3>1, SumInt
    <2>3. DOMAIN weight = 1 .. n
      OBVIOUS
    <2> QED
      BY <1>5, <2>1, <2>2, <2>3 DEF SumFunction
  <1>7. SumFunction(ExchangeParts(share, amount)) = parts
    <2>1. PICK some, sent : /\ some = {s \in DOMAIN share : share[s] > 0}
                            /\ sent = ExchangeParts(share, amount)
      OBVIOUS
    <2>2. some \in SUBSET (1 .. n) /\ sent = [i \in some |-> PartOf(share[i], amount)]
      BY <2>1 DEF ExchangeParts
    <2>3. \A i \in some : sent[i] \in Int /\ part[i] = sent[i]
      <3> SUFFICES ASSUME NEW i \in some PROVE sent[i] \in Int /\ part[i] = sent[i]
        OBVIOUS
      <3>1. i \in 1 .. n /\ sent[i] = PartOf(share[i], amount)
        BY <2>2
      <3>2. part[i] = PartOf(share[i], amount) /\ part[i] \in Nat
        BY <1>2, <1>3, <3>1
      <3> QED
        BY <3>1, <3>2
    <2>4. \A i \in (1 .. n) \ some : part[i] = 0
      <3> SUFFICES ASSUME NEW i \in (1 .. n) \ some PROVE part[i] = 0
        OBVIOUS
      <3>1. ~ (share[i] > 0)
        BY <2>1
      <3>2. share[i] = 0
        BY <1>1, <3>1
      <3> QED
        BY <1>3, <3>2
    <2>5. SumFunctionOnSet(part, 1 .. n) = SumFunctionOnSet(sent, some)
      <3>1. PICK T : T = 1 .. n
        OBVIOUS
      <3>2. /\ IsFiniteSet(T) /\ some \in SUBSET T
            /\ \A i \in some : sent[i] \in Int /\ part[i] = sent[i]
            /\ \A i \in T \ some : part[i] = 0
        BY <1>4, <2>2, <2>3, <2>4, <3>1
      <3>3. SumFunctionOnSet(part, T) = SumFunctionOnSet(sent, some)
        BY <3>2, SumOn
      <3> QED
        BY <3>1, <3>3
    <2>6. DOMAIN sent = some
      BY <2>2
    <2> QED
      BY <1>5, <2>1, <2>5, <2>6 DEF SumFunction
  <1>8. PICK p, q, u, v : /\ p = [i \in 1 .. n |-> Unit * part[i]]
                          /\ q = [i \in 1 .. n |-> amount * share[i]]
                          /\ u = [i \in 1 .. n |-> NumSamples * share[i]]
                          /\ v = [i \in 1 .. n |-> Unit * weight[i]]
    OBVIOUS
  <1>9. /\ \A i \in 1 .. n : part[i] \in Int /\ p[i] = Unit * part[i]
        /\ \A i \in 1 .. n : share[i] \in Int /\ q[i] = amount * share[i]
        /\ \A i \in 1 .. n : share[i] \in Int /\ u[i] = NumSamples * share[i]
        /\ \A i \in 1 .. n : weight[i] \in Int /\ v[i] = Unit * weight[i]
    <2> SUFFICES ASSUME NEW i \in 1 .. n
                 PROVE  /\ part[i] \in Int /\ p[i] = Unit * part[i]
                        /\ share[i] \in Int /\ q[i] = amount * share[i]
                        /\ u[i] = NumSamples * share[i]
                        /\ weight[i] \in Int /\ v[i] = Unit * weight[i]
      BY Zenon
    <2>1. part[i] \in Int /\ share[i] \in Int /\ weight[i] \in Int
      BY <1>1, <1>3
    <2> QED
      BY <1>8, <2>1
  <1>10. /\ SumFunctionOnSet(p, 1 .. n) = Unit * parts
         /\ SumFunctionOnSet(q, 1 .. n) = amount * shares
         /\ SumFunctionOnSet(u, 1 .. n) = NumSamples * shares
         /\ SumFunctionOnSet(v, 1 .. n) = Unit * weights
    <2>1. PICK one, all : one = Unit /\ all = NumSamples
      OBVIOUS
    <2>2. one \in Int /\ all \in Int /\ amount \in Int
      BY <2>1, SizeFacts
    <2>3. SumFunctionOnSet(p, 1 .. n) = one * SumFunctionOnSet(part, 1 .. n)
      <3>1. \A i \in 1 .. n : part[i] \in Int /\ p[i] = one * part[i]
        BY <1>9, <2>1
      <3> QED
        BY <2>2, <3>1, SumScale
    <2>4. SumFunctionOnSet(q, 1 .. n) = amount * SumFunctionOnSet(share, 1 .. n)
      <3>1. \A i \in 1 .. n : share[i] \in Int /\ q[i] = amount * share[i]
        BY <1>9
      <3> QED
        BY <2>2, <3>1, SumScale
    <2>5. SumFunctionOnSet(u, 1 .. n) = all * SumFunctionOnSet(share, 1 .. n)
      <3>1. \A i \in 1 .. n : share[i] \in Int /\ u[i] = all * share[i]
        BY <1>9, <2>1
      <3> QED
        BY <2>2, <3>1, SumScale
    <2>6. SumFunctionOnSet(v, 1 .. n) = one * SumFunctionOnSet(weight, 1 .. n)
      <3>1. \A i \in 1 .. n : weight[i] \in Int /\ v[i] = one * weight[i]
        BY <1>9, <2>1
      <3> QED
        BY <2>2, <3>1, SumScale
    <2> QED
      BY <1>5, <2>1, <2>3, <2>4, <2>5, <2>6
  <1>11. \A i \in 1 .. n : p[i] \in Int /\ q[i] \in Int /\ u[i] \in Int /\ v[i] \in Int
    <2> SUFFICES ASSUME NEW i \in 1 .. n
                 PROVE  p[i] \in Int /\ q[i] \in Int /\ u[i] \in Int /\ v[i] \in Int
      BY Zenon
    <2>1. PICK w, s, d : w = weight[i] /\ s = share[i] /\ d = part[i]
      OBVIOUS
    <2>2. w \in Int /\ s \in Int /\ d \in Int
      BY <1>1, <1>3, <2>1
    <2>3. Unit * d \in Int /\ amount * s \in Int /\ NumSamples * s \in Int /\ Unit * w \in Int
      BY <2>2, SizeFacts
    <2> QED
      BY <1>9, <2>1, <2>3
  <1>12. Unit * parts <= amount * shares
    <2>1. \A i \in 1 .. n : p[i] \in Int /\ q[i] \in Int /\ p[i] <= q[i]
      BY <1>3, <1>9, <1>11
    <2> QED
      BY <1>4, <1>10, <2>1, SumMonotone
  <1>13. amount * shares <= Unit * parts + n * Unit
    <2>1. \A i \in 1 .. n : q[i] \in Int /\ p[i] \in Int /\ q[i] <= p[i] + Unit
      BY <1>3, <1>9, <1>11
    <2>2. Unit \in Int
      BY SizeFacts
    <2>3. SumFunctionOnSet(q, 1 .. n) <= SumFunctionOnSet(p, 1 .. n) + n * Unit
      BY <2>1, <2>2, SumSlack
    <2> QED
      BY <1>10, <2>3
  <1>14. NumSamples * shares <= Unit * weights
    <2>1. \A i \in 1 .. n : u[i] \in Int /\ v[i] \in Int /\ u[i] <= v[i]
      BY <1>1, <1>9, <1>11
    <2> QED
      BY <1>4, <1>10, <2>1, SumMonotone
  <1>15. Unit * weights <= NumSamples * shares + n * NumSamples
    <2>1. \A i \in 1 .. n : v[i] \in Int /\ u[i] \in Int /\ v[i] <= u[i] + NumSamples
      BY <1>1, <1>9, <1>11
    <2>2. NumSamples \in Int
      BY SizeFacts
    <2>3. SumFunctionOnSet(v, 1 .. n) <= SumFunctionOnSet(u, 1 .. n) + n * NumSamples
      BY <2>1, <2>2, SumSlack
    <2> QED
      BY <1>10, <2>3
  <1>16. shares <= Unit
    <2>1. shares * NumSamples < (Unit + 1) * NumSamples
      BY <1>6, <1>14, SizeFacts
    <2>2. shares < Unit + 1
      BY <1>6, <2>1, SizeFacts, CancelFactor
    <2> QED
      BY <1>6, <2>2, SizeFacts
  <1>17. Unit <= shares + n
    <2>1. Unit * NumSamples < ((shares + n) + 1) * NumSamples
      BY <1>6, <1>15, SizeFacts
    <2>2. Unit < (shares + n) + 1
      BY <1>6, <2>1, SizeFacts, CancelFactor
    <2> QED
      BY <1>6, <2>2, SizeFacts
  <1>18. amount * shares <= amount * Unit /\ amount * Unit <= amount * (shares + n)
    <2>1. /\ shares * amount <= Unit * amount
          /\ Unit * amount <= (shares + n) * amount
      BY <1>6, <1>16, <1>17, SizeFacts, ScaleLeq
    <2> QED
      BY <1>6, <2>1, SizeFacts
  <1>19. /\ amount * (shares + n) = amount * shares + n * amount
         /\ n * (Unit + amount) = n * Unit + n * amount
         /\ Unit * (amount - parts) = amount * Unit - Unit * parts
         /\ amount * shares \in Int /\ n * amount \in Int /\ n * Unit \in Int
         /\ amount * Unit \in Int /\ Unit * parts \in Int
    BY <1>6, SizeFacts
  <1>20. Unit * (amount - parts) <= n * (Unit + amount)
    BY <1>13, <1>18, <1>19
  <1>21. parts <= amount
    <2>1. parts * Unit < (amount + 1) * Unit
      <3>1. (amount + 1) * Unit = amount * Unit + Unit /\ parts * Unit = Unit * parts
        BY <1>6, SizeFacts
      <3> QED
        BY <1>12, <1>18, <1>19, <3>1, SizeFacts
    <2>2. parts < amount + 1
      BY <1>6, <2>1, SizeFacts, CancelFactor
    <2> QED
      BY <1>6, <2>2
  <1> QED
    BY <1>6, <1>7, <1>20, <1>21

\* The part of a share of w samples is within the amount the w-th sample asked for.
LEMMA QuotedFacts ==
  ASSUME NEW w \in Column, NEW share \in 0 .. Unit, share * NumSamples <= w * Unit,
         NEW amount \in 1 .. FixedMax
  PROVE  PartOf(share, amount) <= Linspace(amount)[w]
  <1>1. PICK part : part = PartOf(share, amount)
    OBVIOUS
  <1>2. /\ w \in Nat /\ w >= 1 /\ w <= NumSamples /\ amount \in Nat /\ amount > 0
        /\ amount <= FixedMax /\ share \in Nat /\ share <= Unit
    BY SizeFacts DEF Column
  <1>3. /\ part \in Nat /\ Unit * part <= amount * share
    BY <1>1, <1>2, PartFacts
  <1>4. CASE w = NumSamples
    <2>1. Linspace(amount)[w] = amount
      BY <1>4 DEF Linspace, Column
    <2>2. part * Unit < (amount + 1) * Unit
      <3>1. share * amount <= Unit * amount
        BY <1>2, SizeFacts, ScaleLeq
      <3>2. /\ amount * share = share * amount /\ part * Unit = Unit * part
            /\ (amount + 1) * Unit = Unit * amount + Unit
            /\ share * amount \in Int /\ Unit * amount \in Int /\ Unit * part \in Int
        BY <1>2, <1>3, SizeFacts
      <3> QED
        BY <1>3, <3>1, <3>2, SizeFacts
    <2>3. part < amount + 1
      BY <1>2, <1>3, <2>2, SizeFacts, CancelFactor
    <2> QED
      BY <1>1, <1>2, <1>3, <2>1, <2>3
  <1>5. CASE w # NumSamples
    <2>1. PICK all, d, q : /\ all = NumSamples * Unit
                           /\ d = (all * Unit) \div (w * Unit)
                           /\ q = (amount * Unit) \div d
      OBVIOUS
    <2>2. all \in Nat /\ all <= FixedMax /\ w * Unit \in Nat /\ w * Unit > 0
      BY <1>2, <2>1, SizeFacts
    <2>3. /\ d \in Nat /\ d * (w * Unit) <= all * Unit /\ all * Unit < (d + 1) * (w * Unit)
          /\ d <= FixedMax => FxDiv(all, w * Unit) = d
      BY <2>1, <2>2, QuotientFacts
    <2>4. d * w <= all
      <3>1. d * (w * Unit) = (d * w) * Unit /\ (all + 1) * Unit = all * Unit + Unit
            /\ d * w \in Int /\ (d * w) * Unit \in Int /\ all * Unit \in Int
        BY <1>2, <2>2, <2>3, SizeFacts
      <3>2. (d * w) * Unit < (all + 1) * Unit
        BY <2>3, <3>1, SizeFacts
      <3>3. d * w < all + 1
        BY <2>2, <3>1, <3>2, SizeFacts, CancelFactor
      <3> QED
        BY <2>2, <3>1, <3>3
    <2>5. all < (d + 1) * w
      <3>1. (d + 1) * (w * Unit) = ((d + 1) * w) * Unit /\ (d + 1) * w \in Int
        BY <1>2, <2>3, SizeFacts
      <3> QED
        BY <2>2, <2>3, <3>1, SizeFacts, CancelFactor
    <2>6. d >= Unit
      <3> SUFFICES ASSUME d + 1 <= Unit PROVE FALSE
        BY <2>3, SizeFacts
      <3>1. (d + 1) * w <= Unit * w /\ w * Unit <= NumSamples * Unit
        BY <1>2, <2>3, SizeFacts, ScaleLeq
      <3>2. Unit * w = w * Unit /\ (d + 1) * w \in Int /\ w * Unit \in Int
        BY <1>2, <2>3, SizeFacts
      <3> QED
        BY <2>1, <2>2, <2>5, <3>1, <3>2
    <2>7. d <= FixedMax
      <3>1. 1 * d <= w * d /\ w * d = d * w /\ d * w \in Int
        BY <1>2, <2>3, ScaleLeq
      <3> QED
        BY <2>2, <2>3, <2>4, <3>1, SizeFacts
    <2>8. /\ q \in Nat /\ q * d <= amount * Unit /\ amount * Unit < (q + 1) * d
          /\ q <= FixedMax => FxDiv(amount, d) = q
      <3>1. d > 0
        BY <2>3, <2>6, SizeFacts
      <3>2. /\ (amount * Unit) \div d \in Nat
            /\ ((amount * Unit) \div d) * d <= amount * Unit
            /\ amount * Unit < ((amount * Unit) \div d + 1) * d
            /\ (amount * Unit) \div d <= FixedMax => FxDiv(amount, d) = (amount * Unit) \div d
        BY <1>2, <2>3, <3>1, QuotientFacts
      <3> QED
        BY <2>1, <3>2, Zenon
    <2>9. q <= FixedMax
      <3>1. Unit * q <= d * q
        BY <2>3, <2>6, <2>8, SizeFacts, ScaleLeq
      <3>2. /\ d * q = q * d /\ q * Unit = Unit * q /\ (amount + 1) * Unit = amount * Unit + Unit
            /\ d * q \in Int /\ Unit * q \in Int /\ amount * Unit \in Int
        BY <1>2, <2>3, <2>8, SizeFacts
      <3>3. q * Unit < (amount + 1) * Unit
        BY <2>8, <3>1, <3>2, SizeFacts
      <3>4. q < amount + 1
        BY <1>2, <2>8, <3>3, SizeFacts, CancelFactor
      <3> QED
        BY <1>2, <2>8, <3>4, SizeFacts
    <2>10. Linspace(amount)[w] = q
      <3>1. Linspace(amount)[w] = FxDiv(amount, FxDiv(NumSamples * Unit, w * Unit))
        BY <1>2, <1>5 DEF Linspace, Column
      <3>2. FxDiv(NumSamples * Unit, w * Unit) = d
        BY <2>1, <2>3, <2>7
      <3>3. FxDiv(amount, d) = q
        BY <2>8, <2>9
      <3> QED
        BY <3>1, <3>2, <3>3
    <2>11. part * NumSamples <= amount * w
      <3>1. (Unit * part) * NumSamples <= (amount * share) * NumSamples
        <4>1. Unit * part \in Int /\ amount * share \in Int
          BY <1>2, <1>3, SizeFacts
        <4> QED
          BY <1>3, <4>1, SizeFacts, ScaleLeq
      <3>2. (share * NumSamples) * amount <= (w * Unit) * amount
        <4>1. share * NumSamples \in Int /\ w * Unit \in Int
          BY <1>2, SizeFacts
        <4> QED
          BY <1>2, <4>1, ScaleLeq
      <3>3. /\ (amount * share) * NumSamples = (share * NumSamples) * amount
            /\ (w * Unit) * amount = (amount * w) * Unit
            /\ (Unit * part) * NumSamples = (part * NumSamples) * Unit
            /\ (amount * w + 1) * Unit = (amount * w) * Unit + Unit
        BY <1>2, <1>3, SizeFacts
      <3>4. /\ amount * w \in Int /\ part * NumSamples \in Int
            /\ (amount * w) * Unit \in Int /\ (part * NumSamples) * Unit \in Int
            /\ (share * NumSamples) * amount \in Int
        BY <1>2, <1>3, SizeFacts
      <3>5. (part * NumSamples) * Unit < (amount * w + 1) * Unit
        BY <3>1, <3>2, <3>3, <3>4, SizeFacts
      <3>6. part * NumSamples < amount * w + 1
        <4>1. PICK l, r : l = part * NumSamples /\ r = amount * w + 1
          OBVIOUS
        <4>2. l \in Int /\ r \in Int /\ l * Unit < r * Unit
          BY <3>4, <3>5, <4>1
        <4> QED
          BY <4>1, <4>2, SizeFacts, CancelFactor
      <3> QED
        BY <3>4, <3>6
    <2>12. part * d <= amount * Unit
      <3>1. (d * w) * part <= all * part
        <4>1. d * w \in Int
          BY <1>2, <2>3
        <4> QED
          BY <1>3, <2>2, <2>4, <4>1, ScaleLeq
      <3>2. (part * NumSamples) * Unit <= (amount * w) * Unit
        <4>1. part * NumSamples \in Int /\ amount * w \in Int
          BY <1>2, <1>3, SizeFacts
        <4> QED
          BY <2>11, <4>1, SizeFacts, ScaleLeq
      <3>3. /\ (d * w) * part = (part * d) * w
            /\ all * part = (part * NumSamples) * Unit
            /\ (amount * w) * Unit = (amount * Unit) * w
            /\ (amount * Unit + 1) * w = (amount * Unit) * w + w
        BY <1>2, <1>3, <2>1, <2>3, SizeFacts
      <3>4. /\ part * d \in Int /\ amount * Unit \in Int
            /\ (part * d) * w \in Int /\ (amount * Unit) * w \in Int /\ all * part \in Int
        BY <1>2, <1>3, <2>2, <2>3, SizeFacts
      <3>5. (part * d) * w < (amount * Unit + 1) * w
        BY <1>2, <3>1, <3>2, <3>3, <3>4
      <3>6. part * d < amount * Unit + 1
        <4>1. PICK l, r : l = part * d /\ r = amount * Unit + 1
          OBVIOUS
        <4>2. l \in Int /\ r \in Int /\ l * w < r * w
          BY <3>4, <3>5, <4>1
        <4> QED
          BY <1>2, <4>1, <4>2, CancelFactor
      <3> QED
        BY <3>4, <3>6
    <2>13. part < q + 1
      <3>1. part * d < (q + 1) * d
        <4>1. part * d \in Int /\ amount * Unit \in Int /\ (q + 1) * d \in Int
          BY <1>2, <1>3, <2>3, <2>8, SizeFacts
        <4> QED
          BY <2>8, <2>12, <4>1
      <3> QED
        BY <1>3, <2>3, <2>8, <3>1, CancelFactor
    <2> QED
      BY <1>1, <1>3, <2>8, <2>10, <2>13
  <1> QED
    BY <1>4, <1>5

\* The share of w samples is rounded back to w: a share is off by less than half a
\* sample.
LEMMA PartsOfShareFacts ==
  ASSUME NEW w \in Cells
  PROVE  PartsOfShare(FxDiv(w * Unit, NumSamples * Unit)) = w
  <1>1. PICK s : s = FxDiv(w * Unit, NumSamples * Unit)
    OBVIOUS
  <1>2. s \in Nat /\ s * NumSamples <= w * Unit /\ w * Unit < (s + 1) * NumSamples
    BY <1>1, ShareFacts, SizeFacts
  <1>3. PICK q, d : d = 2 * s * NumSamples + Unit /\ q = d \div (2 * Unit)
    OBVIOUS
  <1>4. w \in Nat
    BY SizeFacts DEF Cells
  <1>5. d \in Nat /\ q \in Nat /\ q * (2 * Unit) <= d /\ d < (q + 1) * (2 * Unit)
    <2>1. d \in Nat /\ 2 * Unit \in Nat /\ 2 * Unit > 0
      BY <1>2, <1>3, SizeFacts
    <2> QED
      BY <1>3, <2>1, DivBounds, DivNat
  <1>6. PICK c, v, u : c = s * NumSamples /\ v = w * Unit /\ u = 2 * Unit
    OBVIOUS
  <1>7. /\ c \in Nat /\ v \in Nat /\ u \in Nat /\ u > 0
        /\ (s + 1) * NumSamples = c + NumSamples /\ d = 2 * c + Unit
        /\ w * u = 2 * v /\ (w + 1) * u = 2 * v + 2 * Unit
    BY <1>2, <1>3, <1>4, <1>6, SizeFacts
  <1>8. w * u <= d /\ d < (w + 1) * u
    BY <1>2, <1>6, <1>7, SizeFacts
  <1>9. q < w + 1
    <2>1. q * u < (w + 1) * u
      BY <1>4, <1>5, <1>6, <1>7, <1>8
    <2> QED
      BY <1>4, <1>5, <1>7, <2>1, CancelFactor
  <1>10. w < q + 1
    <2>1. w * u < (q + 1) * u
      BY <1>4, <1>5, <1>6, <1>7, <1>8
    <2> QED
      BY <1>4, <1>5, <1>7, <2>1, CancelFactor
  <1> QED
    BY <1>1, <1>3, <1>4, <1>5, <1>9, <1>10 DEF PartsOfShare

\* Fees added up one by one are their sum, if none of the additions overflows.
LEMMA TotalFeeFacts ==
  ASSUME NEW share, Len(share) \in Nat, NEW costs, NEW f,
         \A i \in 1 .. Len(share) : f[i] \in Nat /\ FeeOf(costs[i], share[i]) = f[i],
         TotalFee(costs, share) # Err
  PROVE  TotalFee(costs, share) = SumFunctionOnSet(f, 1 .. Len(share))
  <1>1. PICK n, S : /\ n = Len(share)
                    /\ S = [i \in 0 .. n |-> SumFunctionOnSet(f, 1 .. i)]
    OBVIOUS
  <1>2. n \in Nat /\ \A i \in 1 .. n : f[i] \in Nat /\ FeeOf(costs[i], share[i]) = f[i]
    BY <1>1
  <1>3. /\ S[0] = 0
        /\ \A i \in 1 .. n : S[i - 1] \in Nat /\ S[i] = S[i - 1] + f[i]
    <2> DEFINE Good == {k \in Nat : k <= n => S[k] \in Nat}
    <2>1. ASSUME NEW k \in Nat, k + 1 <= n
          PROVE  S[k] \in Int /\ S[k + 1] = S[k] + f[k + 1]
      <3>1. k \in 0 .. n /\ k + 1 \in 0 .. n
        BY <1>2, <2>1
      <3>2. S[k] = SumFunctionOnSet(f, 1 .. k) /\ S[k + 1] = SumFunctionOnSet(f, 1 .. (k + 1))
        BY <1>1, <3>1
      <3>3. \A i \in 1 .. (k + 1) : f[i] \in Int
        <4> SUFFICES ASSUME NEW i \in 1 .. (k + 1) PROVE f[i] \in Int
          OBVIOUS
        <4>1. i \in 1 .. n
          BY <1>2, <2>1
        <4> QED
          BY <1>2, <4>1
      <3> QED
        BY <3>2, <3>3, SumNext
    <2>2. S[0] = 0
      <3>1. 0 \in 0 .. n /\ 1 .. 0 = {}
        BY <1>2
      <3> QED
        BY <1>1, <3>1, SumNothing
    <2>3. 0 \in Good
      BY <2>2
    <2>4. ASSUME NEW k \in Nat, k \in Good
          PROVE  k + 1 \in Good
      <3> SUFFICES ASSUME k + 1 <= n PROVE S[k + 1] \in Nat
        OBVIOUS
      <3>1. S[k] \in Nat /\ f[k + 1] \in Nat /\ S[k + 1] = S[k] + f[k + 1]
        BY <1>2, <2>1, <2>4
      <3> QED
        BY <3>1
    <2> HIDE DEF Good
    <2>5. \A k \in Nat : k \in Good
      BY <2>3, <2>4, UpFromZero
    <2>6. ASSUME NEW i \in 1 .. n
          PROVE  S[i - 1] \in Nat /\ S[i] = S[i - 1] + f[i]
      <3>1. i - 1 \in Nat /\ i - 1 <= n /\ (i - 1) + 1 = i /\ (i - 1) + 1 <= n
        BY <1>2
      <3>2. S[i - 1] \in Nat
        BY <2>5, <3>1 DEF Good
      <3> QED
        BY <2>1, <3>1, <3>2
    <2> QED
      BY <2>2, <2>6
  <1> DEFINE Sum(q) == [i \in 0 .. n |-> IF i = 0 THEN 0
                                         ELSE FxAdd(q[i - 1], FeeOf(costs[i], share[i]))]
             capped(i) == IF S[i] <= FixedMax THEN S[i] ELSE Err
  <1>4. ASSUME NEW i \in 1 .. n
        PROVE  FxAdd(capped(i - 1), FeeOf(costs[i], share[i])) = capped(i)
    <2>1. PICK l, r, e : l = S[i - 1] /\ r = S[i] /\ e = f[i]
      OBVIOUS
    <2>2. l \in Nat /\ e \in Nat /\ r = l + e /\ e # Err
      BY <1>2, <1>3, <2>1, ErrAssumption
    <2>3. \A v \in Nat : v # Err /\ (v \in Signed(Modulus) <=> v <= FixedMax)
      BY ErrAssumption, ModulusAssumption DEF Signed, FixedMax
    <2>4. FxAdd(IF l <= FixedMax THEN l ELSE Err, e) = IF r <= FixedMax THEN r ELSE Err
      BY <2>2, <2>3, SizeFacts DEF FxAdd, Checked
    <2> QED
      BY <1>2, <2>1, <2>4
  <1> HIDE DEF capped
  <1>5. capped(0) = 0
    BY <1>3, SizeFacts DEF capped
  <1>6. \E q : q = Sum(q)
    <2>1. PICK q : q = [i \in 0 .. n |-> capped(i)]
      OBVIOUS
    <2>2. \A i \in 0 .. n : q[i] = Sum(q)[i]
      <3> SUFFICES ASSUME NEW i \in 0 .. n PROVE q[i] = Sum(q)[i]
        OBVIOUS
      <3>1. CASE i = 0
        BY <1>5, <2>1, <3>1
      <3>2. CASE i # 0
        <4>1. i \in 1 .. n /\ i - 1 \in 0 .. n
          BY <1>2, <3>2
        <4>2. q[i - 1] = capped(i - 1) /\ q[i] = capped(i)
          BY <2>1, <4>1
        <4>3. FxAdd(q[i - 1], FeeOf(costs[i], share[i])) = q[i]
          BY <1>4, <4>1, <4>2
        <4> QED
          BY <3>2, <4>3
      <3> QED
        BY <3>1, <3>2
    <2>3. q = [i \in 0 .. n |-> q[i]]
      BY <2>1
    <2> QED
      BY <2>2, <2>3
  <1>7. PICK p : p = Sum(p) /\ TotalFee(costs, share) = p[n]
    <2>1. PICK p : p = CHOOSE q : q = Sum(q)
      OBVIOUS
    <2>2. TotalFee(costs, share) = p[n]
      BY <1>1, <2>1 DEF TotalFee
    <2> HIDE DEF Sum
    <2>3. p = Sum(p)
      BY <1>6, <2>1
    <2> QED
      BY <2>2, <2>3
  <1> DEFINE Agree == {k \in Nat : k <= n => p[k] = capped(k)}
  <1>8. 0 \in Agree
    <2>1. p[0] = 0
      BY <1>2, <1>7
    <2> QED
      BY <1>5, <2>1
  <1>9. ASSUME NEW k \in Nat, k \in Agree
        PROVE  k + 1 \in Agree
    <2> SUFFICES ASSUME k + 1 <= n PROVE p[k + 1] = capped(k + 1)
      OBVIOUS
    <2>1. /\ k + 1 \in 1 .. n /\ k + 1 \in 0 .. n /\ k + 1 # 0 /\ (k + 1) - 1 = k
          /\ p[k] = capped(k)
      BY <1>2, <1>9
    <2>2. p[k + 1] = FxAdd(p[k], FeeOf(costs[k + 1], share[k + 1]))
      BY <1>7, <2>1
    <2>3. FxAdd(capped(k), FeeOf(costs[k + 1], share[k + 1])) = capped(k + 1)
      BY <1>4, <2>1
    <2> QED
      BY <2>1, <2>2, <2>3
  <1> HIDE DEF Agree, Sum
  <1>10. p[n] = capped(n)
    <2>1. n \in Agree
      BY <1>2, <1>8, <1>9, UpFromZero
    <2> QED
      BY <1>2, <2>1 DEF Agree
  <1>11. S[n] = SumFunctionOnSet(f, 1 .. n)
    BY <1>1, <1>2
  <1> QED
    BY <1>1, <1>7, <1>10, <1>11 DEF capped

-----------------------------------------------------------------------------
(* The specification.                                                      *)

\* What holds of the sources read so far: the rows are those of the samples, and
\* a trade for a desired input was never quoted more than MaxOutcome.
SplitInv ==
  topic = "aggregation" =>
    /\ desiredInput \in BOOLEAN
    /\ Len(samples) <= MaxSources
    /\ Computed(samples, rows, ~desiredInput)
    /\ desiredInput => \A i \in 1 .. Len(samples) : \A j \in Column : samples[i][j] <= MaxOutcome

\* The samples of a source are worths.
LEMMA SampleFacts ==
  ASSUME NEW quote \in Quotes, NEW forInput \in BOOLEAN
  PROVE  /\ Sample(quote, forInput) \in Samples
         /\ forInput => \A j \in Column : Sample(quote, forInput)[j] <= MaxOutcome
  <1>1. MaxOutcome \in Nat /\ MaxOutcome <= FixedMax
    <2>1. 1 * MaxOutcome <= MaxSources * MaxOutcome
      BY OutcomeAssumption, ScaleLeq
    <2>2. MaxSources * MaxOutcome \in Int
      BY OutcomeAssumption
    <2> QED
      BY <2>1, <2>2, OutcomeAssumption, SizeFacts
  <1>2. PICK col : col = Sample(quote, forInput)
    OBVIOUS
  <1>3. col = [j \in Column |-> IF quote[j] = Err THEN (IF forInput THEN 0 ELSE FixedMax)
                                ELSE quote[j]]
    BY <1>2 DEF Sample, Column
  <1>4. \A j \in Column : quote[j] \in 0 .. MaxOutcome \/ quote[j] = Err
    BY DEF Quotes, Column
  <1>5. ASSUME NEW j \in Column
        PROVE  col[j] \in Worths /\ (forInput => col[j] <= MaxOutcome)
    BY <1>1, <1>3, <1>4, SizeFacts DEF Worths
  <1> QED
    BY <1>2, <1>3, <1>5 DEF Samples

\* Before any source is read, the table of rows is empty.
LEMMA SplitInvInit ==
  ASSUME AlgorithmsInit
  PROVE  SplitInv
  <1> SUFFICES ASSUME topic = "aggregation" PROVE SplitInv
    BY DEF SplitInv
  <1>1. Init
    BY DEF AlgorithmsInit
  <1>2. PICK quote \in Quotes : samples = <<Sample(quote, desiredInput)>>
    BY <1>1 DEF Init
  <1>3. PICK col : col = Sample(quote, desiredInput)
    OBVIOUS
  <1>4. /\ col \in Samples /\ FirstRow(col) \in Rows
        /\ desiredInput => \A j \in Column : col[j] <= MaxOutcome
    BY <1>1, <1>3, SampleFacts, FirstRowFacts DEF Init
  <1>5. /\ samples = <<col>> /\ rows = <<FirstRow(col)>> /\ desiredInput \in BOOLEAN
    BY <1>1, <1>2, <1>3 DEF Init
  <1>6. /\ samples \in Seq(Samples) /\ Len(samples) = 1 /\ samples[1] = col
        /\ rows \in Seq(Rows) /\ Len(rows) = 1 /\ rows[1] = FirstRow(col)
    BY <1>4, <1>5
  <1>7. Computed(samples, rows, ~desiredInput)
    BY <1>6 DEF Computed
  <1>8. 1 <= MaxSources
    BY OutcomeAssumption
  <1> QED
    BY <1>4, <1>5, <1>6, <1>7, <1>8 DEF SplitInv

\* Each round of find_distribution adds the row of the source it has read.
LEMMA SplitInvNext ==
  ASSUME SplitInv, [AlgorithmsNext]_<<vars, topic, inputs>>
  PROVE  SplitInv'
  <1>1. CASE UNCHANGED <<topic, desiredInput, samples, rows>>
    BY <1>1 DEF SplitInv, Computed
  <1>2. CASE AggregateNext
    <2>1. /\ topic = "aggregation" /\ topic' = topic /\ NextSource
          /\ desiredInput' = desiredInput /\ desiredInput \in BOOLEAN
      BY <1>2 DEF AggregateNext, NextSource, SplitInv
    <2>2. PICK quote \in Quotes : samples' = Append(samples, Sample(quote, desiredInput))
      BY <2>1 DEF NextSource
    <2>3. PICK n, col, old, table, row :
             /\ n = Len(samples) /\ col = Sample(quote, desiredInput)
             /\ old = samples /\ table = rows
             /\ row = NextRow(table[n].sum, col, ~desiredInput)
      OBVIOUS
    <2>4. /\ Computed(old, table, ~desiredInput) /\ n = Len(old) /\ n < MaxSources
          /\ desiredInput => \A i \in 1 .. n : \A j \in Column : old[i][j] <= MaxOutcome
      BY <2>1, <2>3 DEF SplitInv, NextSource
    <2>5. /\ old \in Seq(Samples) /\ n \in Nat /\ n >= 1
          /\ table \in Seq(Rows) /\ Len(table) = n
      BY <2>4 DEF Computed
    <2>6. col \in Samples /\ (desiredInput => \A j \in Column : col[j] <= MaxOutcome)
      BY <2>1, <2>3, SampleFacts
    <2>7. table[n].sum \in [Cells -> Worths]
      BY <2>4, <2>5, ComputedFacts
    <2>8. row \in Rows
      <3>1. (~desiredInput) \in BOOLEAN
        OBVIOUS
      <3> QED
        BY <2>3, <2>6, <2>7, <3>1, NextRowFacts
    <2>9. samples' = Append(old, col) /\ rows' = Append(table, row)
      <3>1. samples' = Append(old, col)
        BY <2>2, <2>3
      <3>2. Len(samples') = n + 1 /\ samples'[n + 1] = col
        BY <2>5, <2>3, <3>1, <2>6
      <3>3. rows' = Append(rows, NextRow(rows[Len(rows)].sum, samples'[Len(samples')], ~desiredInput))
        BY <2>1 DEF NextSource
      <3> QED
        BY <2>3, <2>5, <3>1, <3>2, <3>3
    <2>10. PICK new, grown : new = Append(old, col) /\ grown = Append(table, row)
      OBVIOUS
    <2>11. /\ new \in Seq(Samples) /\ Len(new) = n + 1
           /\ grown \in Seq(Rows) /\ Len(grown) = n + 1
           /\ \A i \in 1 .. n : new[i] = old[i] /\ grown[i] = table[i]
           /\ new[n + 1] = col /\ grown[n + 1] = row
      <3>1. /\ new \in Seq(Samples) /\ Len(new) = n + 1
            /\ \A i \in 1 .. n : new[i] = old[i]
            /\ new[n + 1] = col
        BY <2>3, <2>5, <2>6, <2>10
      <3>2. /\ grown \in Seq(Rows) /\ Len(grown) = n + 1
            /\ \A i \in 1 .. n : grown[i] = table[i]
            /\ grown[n + 1] = row
        BY <2>5, <2>8, <2>10
      <3> QED
        BY <3>1, <3>2
    <2>12. Computed(new, grown, ~desiredInput)
      <3>1. grown[1] = FirstRow(new[1])
        <4>1. 1 \in 1 .. n /\ table[1] = FirstRow(old[1])
          BY <2>4, <2>5 DEF Computed
        <4> QED
          BY <2>11, <4>1
      <3>2. ASSUME NEW i \in 2 .. (n + 1)
            PROVE  grown[i] = NextRow(grown[i - 1].sum, new[i], ~desiredInput)
        <4>1. i - 1 \in 1 .. n /\ grown[i - 1] = table[i - 1]
          BY <2>5, <2>11
        <4>2. CASE i = n + 1
          BY <2>3, <2>5, <2>11, <4>1, <4>2
        <4>3. CASE i # n + 1
          <5>1. i \in 2 .. n /\ i \in 1 .. n
            BY <2>5, <4>3
          <5>2. table[i] = NextRow(table[i - 1].sum, old[i], ~desiredInput)
            BY <2>3, <2>4, <5>1 DEF Computed
          <5> QED
            BY <2>11, <4>1, <5>1, <5>2
        <4> QED
          BY <4>2, <4>3
      <3> QED
        BY <2>5, <2>11, <3>1, <3>2 DEF Computed
    <2>13. n + 1 <= MaxSources
      BY <2>4, <2>5, OutcomeAssumption
    <2>14. desiredInput =>
              \A i \in 1 .. Len(new) : \A j \in Column : new[i][j] <= MaxOutcome
      <3> SUFFICES ASSUME desiredInput, NEW i \in 1 .. (n + 1), NEW j \in Column
                   PROVE  new[i][j] <= MaxOutcome
        BY <2>11
      <3>1. CASE i = n + 1
        BY <2>6, <2>11, <3>1
      <3>2. CASE i # n + 1
        <4>1. i \in 1 .. n
          BY <2>5, <3>2
        <4> QED
          BY <2>4, <2>11, <4>1
      <3> QED
        BY <3>1, <3>2
    <2>15. samples' = new /\ rows' = grown
      BY <2>9, <2>10
    <2> QED
      BY <2>1, <2>11, <2>12, <2>13, <2>14, <2>15 DEF SplitInv
  <1>3. CASE GrowReserve
    BY <1>1, <1>3 DEF GrowReserve
  <1>4. CASE UNCHANGED <<vars, topic, inputs>>
    BY <1>1, <1>4 DEF vars
  <1> QED
    BY <1>2, <1>3, <1>4 DEF AlgorithmsNext

\* The rows are always those of the samples read so far, one per source, and nothing
\* else writes to them.
THEOREM SplitIsKept == AlgorithmsSpec => []SplitInv
  <1>1. AlgorithmsInit => SplitInv
    BY SplitInvInit
  <1>2. SplitInv /\ [AlgorithmsNext]_<<vars, topic, inputs>> => SplitInv'
    BY SplitInvNext
  <1> QED
    BY <1>1, <1>2, PTL DEF AlgorithmsSpec

\* find_distribution hands out all parts, returns the worth of what it found and
\* misses nothing better, whatever was quoted.
THEOREM SplitsAreOptimal == AlgorithmsSpec => []SplitIsOptimal
  <1>1. ASSUME SplitInv, topic = "aggregation"
        PROVE  DistributionIsOptimal
    <2>1. PICK n, found : n = Len(samples) /\ found = FindDistribution(rows)
      OBVIOUS
    <2>2. PICK inversed \in BOOLEAN : inversed = ~desiredInput
      OBVIOUS
    <2>3. /\ Computed(samples, rows, inversed) /\ n <= MaxSources
          /\ ~inversed => \A i \in 1 .. n : \A j \in Column : samples[i][j] <= MaxOutcome
      BY <1>1, <2>1, <2>2 DEF SplitInv
    <2>4. n \in Nat
      BY <2>1, <2>3, ComputedFacts
    <2>5. /\ found.weight \in [1 .. n -> Cells] /\ SumFunction(found.weight) = NumSamples
          /\ Worth(samples, found.weight) = found.best
          /\ found.best = rows[n].sum[NumSamples]
      BY <2>1, <2>3, FoundFacts
    <2>6. Assignments = {w \in [1 .. n -> Cells] : SumFunction(w) = NumSamples}
      BY <2>1 DEF Assignments, Cells
    <2>7. ASSUME NEW w \in Assignments, Worth(samples, w) <= FixedMax
          PROVE  ~Better(Worth(samples, w), found.best, inversed)
      <3>1. w \in [1 .. n -> Cells] /\ SumFunction(w) = NumSamples
        BY <2>6
      <3>2. ~Better(Worth(samples, w), rows[n].sum[NumSamples], inversed)
        BY <2>1, <2>3, <2>7, <3>1, NothingIsBetter
      <3> QED
        BY <2>5, <3>2
    <2> QED
      BY <2>1, <2>2, <2>5, <2>6, <2>7 DEF DistributionIsOptimal
  <1>2. SplitInv => SplitIsOptimal
    BY <1>1 DEF SplitIsOptimal
  <1> QED
    BY <1>2, SplitIsKept, PTL

\* What the theorems below need of the distribution.
LEMMA DistributionFacts ==
  ASSUME SplitInv, topic = "aggregation"
  PROVE  LET found == FindDistribution(rows)
         IN  \E n \in Nat :
               /\ n = Len(samples)
               /\ found.weight \in [1 .. n -> Cells]
               /\ SumFunction(found.weight) = NumSamples
               /\ found.share = [i \in 1 .. n |->
                                    FxDiv(found.weight[i] * Unit, NumSamples * Unit)]
  <1>1. PICK inversed \in BOOLEAN : inversed = ~desiredInput
    OBVIOUS
  <1>2. Computed(samples, rows, inversed)
    BY <1>1 DEF SplitInv
  <1>3. Len(samples) \in Nat
    BY <1>2, ComputedFacts
  <1> QED
    BY <1>2, <1>3, FoundFacts

\* The parts that exchange_single sends out never exceed the trade, and lose at most
\* two roundings per source.
THEOREM TradesAreNotExceeded == AlgorithmsSpec => []PartsStayWithinTrade
  <1>1. ASSUME SplitInv, topic = "aggregation"
        PROVE  TradeIsNotExceeded
    <2>1. PICK found : found = FindDistribution(rows)
      OBVIOUS
    <2>2. PICK n \in Nat :
            /\ found.weight \in [1 .. n -> Cells] /\ SumFunction(found.weight) = NumSamples
            /\ found.share = [i \in 1 .. n |->
                                 FxDiv(found.weight[i] * Unit, NumSamples * Unit)]
      BY <1>1, <2>1, DistributionFacts
    <2>3. PICK share, weight : share = found.share /\ weight = found.weight
      OBVIOUS
    <2>4. /\ weight \in [1 .. n -> Cells] /\ SumFunction(weight) = NumSamples
          /\ share = [i \in 1 .. n |-> FxDiv(weight[i] * Unit, NumSamples * Unit)]
      BY <2>2, <2>3
    <2>5. Len(share) = n
      BY <2>4
    <2>6. ASSUME NEW amount \in 1 .. MaxAmount
          PROVE  /\ amount - SumFunction(ExchangeParts(share, amount)) >= 0
                 /\ Unit * (amount - SumFunction(ExchangeParts(share, amount)))
                      <= Len(share) * (Unit + amount)
      <3>1. amount \in Nat
        BY TradeAssumption, SizeFacts
      <3> QED
        BY <2>4, <2>5, <3>1, TradePartsFacts
    <2> QED
      BY <2>1, <2>3, <2>6 DEF TradeIsNotExceeded
  <1>2. SplitInv => PartsStayWithinTrade
    BY <1>1 DEF PartsStayWithinTrade
  <1> QED
    BY <1>2, SplitIsKept, PTL

\* No source is sent more than it was asked a quote for.
THEOREM ExchangesWereQuoted == AlgorithmsSpec => []PartsWereQuoted
  <1>1. ASSUME SplitInv, topic = "aggregation"
        PROVE  ExchangeWasQuoted
    <2>1. PICK found : found = FindDistribution(rows)
      OBVIOUS
    <2>2. PICK n \in Nat :
            /\ found.weight \in [1 .. n -> Cells]
            /\ found.share = [i \in 1 .. n |->
                                 FxDiv(found.weight[i] * Unit, NumSamples * Unit)]
      BY <1>1, <2>1, DistributionFacts
    <2>3. ASSUME NEW amount \in 1 .. MaxAmount, NEW i \in DOMAIN found.share, found.share[i] > 0
          PROVE  PartOf(found.share[i], amount) <= Linspace(amount)[found.weight[i]]
      <3>1. PICK w, share : w = found.weight[i] /\ share = found.share[i]
        OBVIOUS
      <3>2. i \in 1 .. n
        BY <2>2
      <3>3. w \in Cells /\ share = FxDiv(w * Unit, NumSamples * Unit)
        BY <2>2, <3>1, <3>2
      <3>4. share \in 0 .. Unit /\ share * NumSamples <= w * Unit
        BY <3>3, ShareFacts
      <3>5. w \in Column
        <4>1. w # 0
          <5> SUFFICES ASSUME w = 0 PROVE FALSE
            OBVIOUS
          <5>1. share \in Nat /\ share > 0 /\ share * NumSamples <= 0
            BY <2>3, <3>1, <3>4, SizeFacts
          <5>2. share * NumSamples > 0
            BY <5>1, SizeFacts
          <5>3. share * NumSamples \in Int
            BY <5>1, SizeFacts
          <5> QED
            BY <5>1, <5>2, <5>3
        <4> QED
          BY <3>3, <4>1, SizeFacts DEF Cells, Column
      <3>6. amount \in 1 .. FixedMax
        BY TradeAssumption, SizeFacts
      <3>7. PartOf(share, amount) <= Linspace(amount)[w]
        BY <3>4, <3>5, <3>6, QuotedFacts
      <3> QED
        BY <3>1, <3>7
    <2> QED
      BY <2>1, <2>3 DEF ExchangeWasQuoted, ExchangeParts
  <1>2. SplitInv => PartsWereQuoted
    BY <1>1 DEF PartsWereQuoted
  <1> QED
    BY <1>2, SplitIsKept, PTL

\* The fee of a split is that of the samples it chose, found back from their shares.
THEOREM FeesAreConsistent == AlgorithmsSpec => []FeesAreOfSamples
  <1>1. ASSUME SplitInv, topic = "aggregation"
        PROVE  FeeIsConsistent
    <2>1. PICK found, costs : found = FindDistribution(rows) /\ costs = fees
      OBVIOUS
    <2>2. PICK n \in Nat :
            /\ n = Len(samples)
            /\ found.weight \in [1 .. n -> Cells]
            /\ found.share = [i \in 1 .. n |->
                                 FxDiv(found.weight[i] * Unit, NumSamples * Unit)]
      BY <1>1, <2>1, DistributionFacts
    <2>3. PICK share, weight, f :
            /\ share = found.share /\ weight = found.weight
            /\ f = [i \in 1 .. n |-> IF weight[i] = 0 THEN 0 ELSE costs[i][weight[i]]]
      OBVIOUS
    <2>4. /\ weight \in [1 .. n -> Cells]
          /\ share = [i \in 1 .. n |-> FxDiv(weight[i] * Unit, NumSamples * Unit)]
      BY <2>2, <2>3
    <2>5. /\ costs = [i \in 1 .. n |-> [j \in Column |-> i * NumSamples + j]]
          /\ Len(costs) = n /\ Len(share) = n
      BY <2>1, <2>2, <2>4 DEF fees, Column
    <2>6. ASSUME NEW i \in 1 .. n
          PROVE  f[i] \in Nat /\ FeeOf(costs[i], share[i]) = f[i]
      <3>1. PICK w : w = weight[i] /\ w \in Cells
        BY <2>4
      <3>2. PartsOfShare(share[i]) = w
        BY <2>4, <3>1, PartsOfShareFacts
      <3>3. FeeOf(costs[i], share[i]) = IF w = 0 THEN 0 ELSE costs[i][w]
        BY <3>2 DEF FeeOf
      <3>4. f[i] = IF w = 0 THEN 0 ELSE costs[i][w]
        BY <2>3, <3>1
      <3>5. w # 0 => costs[i][w] \in Nat
        <4> SUFFICES ASSUME w # 0 PROVE costs[i][w] \in Nat
          OBVIOUS
        <4>1. w \in Column /\ w \in Nat
          BY <3>1, SizeFacts DEF Cells, Column
        <4>2. costs[i][w] = i * NumSamples + w
          BY <2>5, <4>1
        <4> QED
          BY <4>1, <4>2, SizeFacts
      <3> QED
        BY <3>3, <3>4, <3>5
    <2>7. TotalFee(costs, share) # Err => TotalFee(costs, share) = Worth(costs, weight)
      <3> SUFFICES ASSUME TotalFee(costs, share) # Err
                   PROVE  TotalFee(costs, share) = Worth(costs, weight)
        OBVIOUS
      <3>1. TotalFee(costs, share) = SumFunctionOnSet(f, 1 .. Len(share))
        BY <2>5, <2>6, TotalFeeFacts
      <3>2. Worth(costs, weight) = SumFunction(f)
        BY <2>3, <2>5 DEF Worth
      <3>3. DOMAIN f = 1 .. n
        BY <2>3
      <3> QED
        BY <2>5, <3>1, <3>2, <3>3 DEF SumFunction
    <2>8. GenericSplit(rows, fees) # Err =>
             /\ GenericSplit(rows, fees).fee = TotalFee(costs, share)
             /\ TotalFee(costs, share) # Err
      BY <2>1, <2>3 DEF GenericSplit
    <2> QED
      BY <2>1, <2>3, <2>7, <2>8 DEF FeeIsConsistent
  <1>2. SplitInv => FeesAreOfSamples
    BY <1>1 DEF FeesAreOfSamples
  <1> QED
    BY <1>2, SplitIsKept, PTL

-----------------------------------------------------------------------------
(* The formulas of the pools: the theorems of XykMathProofs, in the width  *)
(* of this module and with its own unit.                                   *)

XP == INSTANCE XykMathProofs WITH Unit <- PoolUnit

\* What the theorems of the instance take for granted.
LEMMA PoolSizes ==
  /\ PoolUnit \in Nat \ {0}
  /\ Modulus \in Nat /\ Modulus > 2 * PoolUnit
  /\ Err \notin Int
  /\ FeeNum \in Nat /\ FeeDen \in Nat /\ FeeNum < FeeDen
  /\ MinLiquidity \in Nat \ {0} /\ PriceGuard \in Nat \ {0}
  BY PoolAssumption, ModulusAssumption, ErrAssumption

\* Both instances compute the same.
LEMMA SameArithmetic ==
  /\ Xyk!Balance = XP!Balance
  /\ \A v : /\ Xyk!FromBalance(v) = XP!FromBalance(v)
            /\ Xyk!ToBalance(v) = XP!ToBalance(v)
  /\ \A v, w : /\ Xyk!FxAdd(v, w) = XP!FxAdd(v, w)
               /\ Xyk!FxSub(v, w) = XP!FxSub(v, w)
               /\ Xyk!FxMul(v, w) = XP!FxMul(v, w)
               /\ Xyk!FxDiv(v, w) = XP!FxDiv(v, w)
               /\ Xyk!WrapSub(v, w) = XP!WrapSub(v, w)
  <1>1. \A v : Xyk!Checked(v) = XP!Checked(v)
    BY DEF Xyk!Checked, XP!Checked, Xyk!Signed, XP!Signed
  <1> QED
    BY <1>1 DEF Xyk!Balance, XP!Balance, Xyk!FromBalance, XP!FromBalance,
                Xyk!ToBalance, XP!ToBalance, Xyk!FxAdd, XP!FxAdd, Xyk!FxSub, XP!FxSub,
                Xyk!FxMul, XP!FxMul, Xyk!FxDiv, XP!FxDiv, Xyk!FloorDiv, XP!FloorDiv,
                Xyk!WrapSub, XP!WrapSub

\* The fee of a pool's swap is the same in both instances.
LEMMA SameFee == \A v : Xyk!FeeOf(v) = XP!FeeOf(v)
  BY SameArithmetic, Zenon DEF Xyk!FeeOf, XP!FeeOf

\* What an exact-input quote keeps of the product is so in both instances.
LEMMA SameExactInput ==
  ASSUME NEW rx, NEW ry, NEW in, NEW byDestination \in BOOLEAN,
         XP!ExactInputLoss(byDestination, rx, ry, in)
  PROVE  Xyk!ExactInputLoss(byDestination, rx, ry, in)
  <1>1. \A part : Xyk!OutputFor(rx, ry, part) = XP!OutputFor(rx, ry, part)
    BY SameArithmetic, Zenon DEF Xyk!OutputFor, XP!OutputFor
  <1>2. Xyk!CalcOutputForExactInput(byDestination, rx, ry, in)
          = XP!CalcOutputForExactInput(byDestination, rx, ry, in)
    <2> DEFINE Both(v, outFee, fee) ==
                 IF byDestination
                 THEN IF v = Err \/ outFee = Err THEN Err ELSE [amount |-> v, fee |-> outFee]
                 ELSE IF fee = Err \/ v = Err THEN Err ELSE [amount |-> v, fee |-> fee]
    <2>1. PICK fee, part, v :
             /\ fee = XP!FeeOf(in)
             /\ part = IF byDestination THEN XP!FromBalance(in)
                       ELSE XP!FxSub(XP!FromBalance(in), XP!FromBalance(fee))
             /\ v = XP!OutputFor(rx, ry, part)
      OBVIOUS
    <2>2. XP!CalcOutputForExactInput(byDestination, rx, ry, in) = Both(v, XP!FeeOf(v), fee)
      BY <2>1 DEF XP!CalcOutputForExactInput
    <2>3. /\ fee = Xyk!FeeOf(in)
          /\ part = IF byDestination THEN Xyk!FromBalance(in)
                    ELSE Xyk!FxSub(Xyk!FromBalance(in), Xyk!FromBalance(fee))
          /\ v = Xyk!OutputFor(rx, ry, part)
      BY <1>1, <2>1, SameArithmetic, SameFee
    <2>4. Xyk!CalcOutputForExactInput(byDestination, rx, ry, in) = Both(v, Xyk!FeeOf(v), fee)
      BY <2>3 DEF Xyk!CalcOutputForExactInput
    <2> QED
      BY <2>2, <2>4, SameFee
  <1> QED
    BY <1>2, Zenon DEF Xyk!ExactInputLoss, XP!ExactInputLoss, Xyk!PaidIn, XP!PaidIn

\* What an exact-output quote charges is so in both instances.
LEMMA SameExactOutput ==
  ASSUME NEW rx, NEW ry, NEW out, NEW byDestination \in BOOLEAN,
         XP!ExactOutputLoss(byDestination, rx, ry, out)
  PROVE  Xyk!ExactOutputLoss(byDestination, rx, ry, out)
  <1>1. Xyk!InputWithDestinationFee(rx, ry, out) = XP!InputWithDestinationFee(rx, ry, out)
    BY SameArithmetic, SameFee, Zenon
       DEF Xyk!InputWithDestinationFee, XP!InputWithDestinationFee
  <1>2. Xyk!InputWithSourceFee(rx, ry, out) = XP!InputWithSourceFee(rx, ry, out)
    BY SameArithmetic, SameFee, Zenon
       DEF Xyk!InputWithSourceFee, XP!InputWithSourceFee
  <1>3. Xyk!CalcInputForExactOutput(byDestination, rx, ry, out)
          = XP!CalcInputForExactOutput(byDestination, rx, ry, out)
    BY <1>1, <1>2, Zenon
       DEF Xyk!CalcInputForExactOutput, XP!CalcInputForExactOutput
  <1> QED
    BY <1>3, SameFee, Zenon DEF Xyk!ExactOutputLoss, XP!ExactOutputLoss

\* Shares of deposits and withdrawals are the same in both instances.
LEMMA SameDeposits ==
  /\ \A amount, reserve, supply :
        Xyk!MarkerFor(amount, reserve, supply) = XP!MarkerFor(amount, reserve, supply)
  /\ \A reserve, k, supply :
        Xyk!WithdrawShare(reserve, k, supply) = XP!WithdrawShare(reserve, k, supply)
  /\ \A ra, rb, da, db, am, bm :
        Xyk!CalculateOptimalDeposit(ra, rb, da, db, am, bm)
          = XP!CalculateOptimalDeposit(ra, rb, da, db, am, bm)
  <1>1. \A amount, ra, rb :
           Xyk!CalculateQuote(amount, ra, rb) = XP!CalculateQuote(amount, ra, rb)
    BY SameArithmetic, Zenon DEF Xyk!CalculateQuote, XP!CalculateQuote
  <1>2. ASSUME NEW amount, NEW reserve, NEW supply
        PROVE  Xyk!MarkerFor(amount, reserve, supply) = XP!MarkerFor(amount, reserve, supply)
    BY SameArithmetic, Zenon DEF Xyk!MarkerFor, XP!MarkerFor
  <1>3. ASSUME NEW reserve, NEW k, NEW supply
        PROVE  Xyk!WithdrawShare(reserve, k, supply) = XP!WithdrawShare(reserve, k, supply)
    BY SameArithmetic, Zenon DEF Xyk!WithdrawShare, XP!WithdrawShare
  <1>4. ASSUME NEW ra, NEW rb, NEW da, NEW db, NEW am, NEW bm
        PROVE  Xyk!CalculateOptimalDeposit(ra, rb, da, db, am, bm)
                 = XP!CalculateOptimalDeposit(ra, rb, da, db, am, bm)
    BY <1>1, Zenon DEF Xyk!CalculateOptimalDeposit, XP!CalculateOptimalDeposit
  <1> QED
    BY <1>2, <1>3, <1>4, Zenon

\* That a deposit and its withdrawal gain nothing is so in both instances.
LEMMA SameRoundTrip ==
  ASSUME NEW ra, NEW rb, NEW supply, NEW da, NEW db,
         XP!RoundTripIsNoGain(ra, rb, supply, da, db)
  PROVE  Xyk!RoundTripIsNoGain(ra, rb, supply, da, db)
  <1>1. Xyk!CalcDepositLiquidity(supply, ra, rb, da, db, 0, 0)
          = XP!CalcDepositLiquidity(supply, ra, rb, da, db, 0, 0)
    BY SameDeposits, Zenon DEF Xyk!CalcDepositLiquidity, XP!CalcDepositLiquidity
  <1>2. Xyk!RoundTripGain(ra, rb, supply, da, db) = XP!RoundTripGain(ra, rb, supply, da, db)
    BY <1>1, SameDeposits, Zenon DEF Xyk!RoundTripGain, XP!RoundTripGain
  <1> QED
    BY <1>2, Zenon DEF Xyk!RoundTripIsNoGain, XP!RoundTripIsNoGain

\* The inputs stay in their ranges while the reserve x grows.
InputsInv ==
  /\ topic = "pool" =>
        /\ x \in 1 .. MaxReserve /\ y \in 1 .. MaxReserve /\ t \in 0 .. MaxSupply
        /\ a \in 1 .. MaxPoolAmount /\ b \in 1 .. MaxPoolAmount
  /\ topic = "split" =>
        /\ x \in 1 .. MaxSplitReserve /\ y \in 1 .. MaxSplitReserve
        /\ t \in SplitPrices /\ a \in SplitAmounts /\ b \in SplitReserves
  /\ topic = "path" =>
        /\ x \in 1 .. (PathModulus - 1) /\ y \in PathReserves
        /\ t \in PathReserves /\ b \in PathReserves /\ a \in PathOutputs

\* The inputs of the calculations stay in the ranges that the code is called with.
THEOREM InputsAreKept == AlgorithmsSpec => []InputsInv
  <1>1. MaxReserve \in Nat /\ MaxSplitReserve \in Nat
        /\ MaxPathReserve \in 0 .. (PathModulus - 1) /\ PathModulus \in Nat /\ PathModulus > 2
    BY PoolAssumption, SplitAssumption, PathAssumption, SizeFacts DEF Balance
  <1>2. ASSUME AlgorithmsInit PROVE InputsInv
    BY <1>1, <1>2 DEF AlgorithmsInit, InputsInv
  <1>3. ASSUME InputsInv, [AlgorithmsNext]_<<vars, topic, inputs>> PROVE InputsInv'
    <2>1. CASE GrowReserve
      <3>1. topic = "pool" => x < MaxReserve
        BY <2>1 DEF GrowReserve
      <3>2. topic = "split" => x < MaxSplitReserve
        BY <2>1 DEF GrowReserve
      <3>3. topic = "path" => x < MaxPathReserve
        BY <2>1 DEF GrowReserve
      <3> QED
        BY <1>1, <1>3, <2>1, <3>1, <3>2, <3>3 DEF GrowReserve, InputsInv
    <2>2. CASE AggregateNext
      BY <1>3, <2>2 DEF AggregateNext, InputsInv
    <2>3. CASE UNCHANGED <<vars, topic, inputs>>
      BY <1>3, <2>3 DEF InputsInv, inputs
    <2> QED
      BY <1>3, <2>1, <2>2, <2>3 DEF AlgorithmsNext
  <1> QED
    BY <1>2, <1>3, PTL DEF AlgorithmsSpec

\* The inputs of the pools' formulas are balances, the reserves positive.
LEMMA PoolInputs ==
  ASSUME InputsInv, topic = "pool"
  PROVE  /\ x \in Nat /\ x > 0 /\ x \in XP!Balance /\ y \in Nat /\ y \in XP!Balance
         /\ t \in Nat /\ a \in Nat /\ a \in XP!Balance /\ b \in Nat
  BY PoolAssumption, ModulusAssumption DEF InputsInv, Balance, XP!Balance

\* Exact-input swaps keep the product of the reserves but for one division's error.
THEOREM ExactInputIsKept == AlgorithmsSpec => []ExactInput
  <1>1. ASSUME InputsInv, topic = "pool", NEW byDestination \in BOOLEAN
        PROVE  Xyk!ExactInputLoss(byDestination, x, y, a)
    <2>1. XP!ExactInputLoss(byDestination, x, y, a)
      BY <1>1, PoolInputs, PoolSizes, XP!ExactInputKeepsProduct
    <2> QED
      BY <2>1, SameExactInput
  <1>2. InputsInv => ExactInput
    BY <1>1 DEF ExactInput
  <1> QED
    BY <1>2, InputsAreKept, PTL

\* Exact-output swaps pay for what leaves the reserve, but for one unit of the input.
THEOREM ExactOutputIsKept == AlgorithmsSpec => []ExactOutput
  <1>1. ASSUME InputsInv, topic = "pool", NEW byDestination \in BOOLEAN
        PROVE  Xyk!ExactOutputLoss(byDestination, x, y, a)
    <2>1. XP!ExactOutputLoss(byDestination, x, y, a)
      BY <1>1, PoolInputs, PoolSizes, XP!ExactOutputIsPaidFor
    <2> QED
      BY <2>1, SameExactOutput
  <1>2. InputsInv => ExactOutput
    BY <1>1 DEF ExactOutput
  <1> QED
    BY <1>2, InputsAreKept, PTL

\* Deposits stay between the minimums and the desired amounts.
THEOREM DepositRangeIsKept == AlgorithmsSpec => []DepositRange
  <1>1. ASSUME InputsInv, topic = "pool", NEW am \in 0 .. a, NEW bm \in 0 .. b
        PROVE  Xyk!DepositWithinRange(x, y, a, b, am, bm)
    <2>1. am \in Nat /\ bm \in Nat
      BY <1>1, PoolInputs
    <2>2. XP!DepositWithinRange(x, y, a, b, am, bm)
      BY <1>1, <2>1, PoolInputs, PoolSizes, XP!DepositStaysWithinRange
    <2> QED
      BY <2>2, SameDeposits, Zenon DEF Xyk!DepositWithinRange, XP!DepositWithinRange
  <1>2. InputsInv => DepositRange
    BY <1>1 DEF DepositRange
  <1> QED
    BY <1>2, InputsAreKept, PTL

\* Deposits mint and withdrawals pay at most a proportional share.
THEOREM SharesAreKept == AlgorithmsSpec => []Shares
  <1>1. ASSUME InputsInv, topic = "pool"
        PROVE  Xyk!MarkerIsAtMostShare(a, x, t)
    <2>1. XP!MarkerIsAtMostShare(a, x, t)
      BY <1>1, PoolInputs, PoolSizes, XP!MarkerIsAtMostTheShare
    <2> QED
      BY <2>1, SameDeposits, Zenon DEF Xyk!MarkerIsAtMostShare, XP!MarkerIsAtMostShare
  <1>2. ASSUME InputsInv, topic = "pool", NEW k \in 1 .. t
        PROVE  Xyk!WithdrawIsAtMostShare(x, k, t)
    <2>1. k \in Nat
      BY <1>2, PoolInputs
    <2>2. XP!WithdrawIsAtMostShare(x, k, t)
      BY <1>2, <2>1, PoolInputs, PoolSizes, XP!WithdrawIsAtMostTheShare
    <2> QED
      BY <2>2, SameDeposits, Zenon DEF Xyk!WithdrawIsAtMostShare, XP!WithdrawIsAtMostShare
  <1>3. InputsInv => Shares
    BY <1>1, <1>2 DEF Shares
  <1> QED
    BY <1>3, InputsAreKept, PTL

\* A deposit redeemed at once is not profitable in either asset.
THEOREM RoundTripsGainNothing == AlgorithmsSpec => []NoRoundTripGain
  <1>1. ASSUME InputsInv, topic = "pool"
        PROVE  Xyk!RoundTripIsNoGain(x, y, t, a, b) /\ Xyk!RoundTripIsNoGain(y, x, t, b, a)
    <2>1. XP!RoundTripIsNoGain(x, y, t, a, b)
      BY <1>1, PoolInputs, PoolSizes, XP!RoundTripGainsNothing
    <2>2. XP!RoundTripIsNoGain(y, x, t, b, a)
      BY <1>1, PoolInputs, PoolSizes, XP!RoundTripGainsNothing
    <2> QED
      BY <2>1, <2>2, SameRoundTrip
  <1>2. InputsInv => NoRoundTripGain
    BY <1>1 DEF NoRoundTripGain
  <1> QED
    BY <1>2, InputsAreKept, PTL

-----------------------------------------------------------------------------
(* The arithmetic of the mock source and of the fast split.                *)

Reserves == 1 .. FixedMax
FixedOrErr == Fixed \cup {Err}

\* The numbers of the fixed point are the integers up to FixedMax, and Err is none.
LEMMA FixedRange ==
  /\ Fixed \subseteq Int /\ FixedMax \in Nat /\ PoolUnit \in Nat /\ PoolUnit > 0
  /\ \A v \in Int : v \in Fixed => v <= FixedMax
  /\ \A v \in Nat : v <= FixedMax => v \in Fixed
  /\ Err \notin Int
  BY PoolSizes, SizeFacts DEF Fixed, FixedMax, Signed

\* What does not fail is exact, or rounded down for a nonnegative result.
LEMMA Exact ==
  ASSUME NEW v, NEW w
  PROVE  /\ Mock!FxAdd(v, w) \in FixedOrErr /\ Mock!FxSub(v, w) \in FixedOrErr
         /\ Mock!FxMul(v, w) \in FixedOrErr /\ Mock!FxDiv(v, w) \in FixedOrErr
         /\ Mock!FxAdd(v, w) # Err => v # Err /\ w # Err /\ Mock!FxAdd(v, w) = v + w
         /\ Mock!FxSub(v, w) # Err => v # Err /\ w # Err /\ Mock!FxSub(v, w) = v - w
         /\ Mock!FxMul(v, w) # Err => /\ v # Err /\ w # Err
                                      /\ Mock!FxMul(v, w) = (v * w) \div PoolUnit
         /\ Mock!FxDiv(v, w) # Err =>
               /\ v # Err /\ w # Err /\ w # 0
               /\ Mock!FxDiv(v, w) = IF w > 0 THEN (v * PoolUnit) \div w
                                     ELSE (-(v * PoolUnit)) \div (-w)
  <1>1. \A u : /\ Mock!Checked(u) \in FixedOrErr
               /\ Mock!Checked(u) # Err => Mock!Checked(u) = u
    BY DEF Mock!Checked, Mock!Signed, FixedOrErr, Fixed, Signed
  <1> QED
    BY <1>1 DEF Mock!FxAdd, Mock!FxSub, Mock!FxMul, Mock!FxDiv, Mock!FloorDiv, FixedOrErr

\* A product of natural numbers, rounded down.
LEMMA ProductFacts ==
  ASSUME NEW v \in Nat, NEW w \in Nat, NEW p, p = Mock!FxMul(v, w), p # Err
  PROVE  /\ p \in Nat /\ p <= FixedMax
         /\ p * PoolUnit <= v * w /\ v * w < (p + 1) * PoolUnit
  <1>1. PICK c : c = v * w
    OBVIOUS
  <1>2. c \in Nat /\ p = c \div PoolUnit /\ p \in FixedOrErr
    BY <1>1, Exact
  <1>3. p \in Nat /\ p * PoolUnit <= c /\ c < (p + 1) * PoolUnit
    BY <1>2, FixedRange, DivBounds, DivNat
  <1>4. p <= FixedMax
    BY <1>2, <1>3, FixedRange DEF FixedOrErr
  <1> QED
    BY <1>1, <1>3, <1>4

\* A quotient of natural numbers, rounded down.
LEMMA RatioFacts ==
  ASSUME NEW v \in Nat, NEW w \in Nat, w > 0, NEW q, q = Mock!FxDiv(v, w), q # Err
  PROVE  /\ q \in Nat /\ q <= FixedMax
         /\ q * w <= v * PoolUnit /\ v * PoolUnit < (q + 1) * w
  <1>1. PICK c : c = v * PoolUnit
    OBVIOUS
  <1>2. c \in Nat /\ q = c \div w /\ q \in FixedOrErr
    BY <1>1, Exact, FixedRange
  <1>3. q \in Nat /\ q * w <= c /\ c < (q + 1) * w
    BY <1>2, DivBounds, DivNat
  <1>4. q <= FixedMax
    BY <1>2, <1>3, FixedRange DEF FixedOrErr
  <1> QED
    BY <1>1, <1>3, <1>4

\* The quotient of a natural number by a negative one is not positive.
LEMMA NegativeRatio ==
  ASSUME NEW v \in Nat, NEW w \in Int, w < 0, NEW q, q = Mock!FxDiv(v, w), q # Err
  PROVE  q <= 0
  <1>1. PICK c, d : c = -(v * PoolUnit) /\ d = -w
    OBVIOUS
  <1>2. c \in Int /\ c <= 0 /\ d \in Int /\ d > 0
    BY <1>1, FixedRange
  <1>3. q = c \div d
    BY <1>1, Exact
  <1>4. q \in Int /\ q * d <= c
    BY <1>2, <1>3, DivBounds
  <1>5. q < 1
    <2>1. q * d < 1 * d
      BY <1>2, <1>4
    <2>2. d \in Nat
      BY <1>2
    <2> QED
      BY <1>4, <2>1, <2>2, CancelFactor
  <1> QED
    BY <1>4, <1>5

\* A share of a natural number is a part of it.
LEMMA FeePart ==
  ASSUME NEW v \in Nat, NEW c \in 0 .. PoolUnit, NEW fee, fee = Mock!FxMul(v, c), fee # Err
  PROVE  fee \in Nat /\ fee <= v
  <1>1. c \in Nat /\ c <= PoolUnit
    BY FixedRange
  <1>2. fee \in Nat /\ fee * PoolUnit <= v * c
    BY <1>1, ProductFacts
  <1>3. c * v <= PoolUnit * v
    BY <1>1, FixedRange, ScaleLeq
  <1>4. fee * PoolUnit < (v + 1) * PoolUnit
    <2>1. /\ v * c = c * v /\ (v + 1) * PoolUnit = PoolUnit * v + PoolUnit
          /\ c * v \in Int /\ PoolUnit * v \in Int /\ fee * PoolUnit \in Int
      BY <1>1, <1>2, FixedRange
    <2> QED
      BY <1>2, <1>3, <2>1, FixedRange
  <1>5. fee < v + 1
    BY <1>2, <1>4, FixedRange, CancelFactor
  <1> QED
    BY <1>2, <1>5

\* The output of a constant product is at most what keeps it.
LEMMA OutputFacts ==
  ASSUME NEW v \in Nat, NEW in \in Reserves, NEW out \in Reserves,
         NEW r, r = Mock!OutputFor(v, in, out), r # Err
  PROVE  r \in Nat /\ r * (in + v) <= v * out
  <1>1. in \in Nat /\ in > 0 /\ out \in Nat
    BY FixedRange DEF Reserves
  <1>2. PICK p, s : p = Mock!FxMul(v, out) /\ s = Mock!FxAdd(in, v)
    OBVIOUS
  <1>3. r = Mock!FxDiv(p, s)
    BY <1>2 DEF Mock!OutputFor
  <1>4. p # Err /\ s # Err /\ s = in + v
    BY <1>2, <1>3, Exact
  <1>5. p \in Nat /\ p * PoolUnit <= v * out
    BY <1>1, <1>2, <1>4, ProductFacts
  <1>6. s \in Nat /\ s > 0
    BY <1>1, <1>4
  <1>7. r \in Nat /\ r * s <= p * PoolUnit
    BY <1>3, <1>5, <1>6, RatioFacts
  <1>8. r * s \in Int /\ p * PoolUnit \in Int /\ v * out \in Int
    BY <1>1, <1>5, <1>6, <1>7, FixedRange
  <1>9. r * s <= v * out
    BY <1>5, <1>7, <1>8
  <1> QED
    BY <1>4, <1>7, <1>9

\* An input that is charged at all is one the reserve can be paid from, and is
\* short of what keeps the product by less than two roundings.
LEMMA InputFacts ==
  ASSUME NEW v \in Nat, NEW in \in Reserves, NEW out \in Reserves,
         NEW r, r = Mock!InputFor(v, in, out), r # Err, r > 0
  PROVE  /\ r \in Nat /\ v < out
         /\ in * v < r * (out - v) + (out - v) + PoolUnit
  <1>1. in \in Nat /\ in > 0 /\ out \in Nat
    BY FixedRange DEF Reserves
  <1>2. PICK p, s : p = Mock!FxMul(in, v) /\ s = Mock!FxSub(out, v)
    OBVIOUS
  <1>3. r = Mock!FxDiv(p, s)
    BY <1>2 DEF Mock!InputFor
  <1>4. p # Err /\ s # Err /\ s = out - v /\ s # 0
    BY <1>2, <1>3, Exact
  <1>5. p \in Nat /\ in * v < (p + 1) * PoolUnit
    BY <1>1, <1>2, <1>4, ProductFacts
  <1>6. s \in Int /\ ~(s < 0)
    <2>1. s \in Int
      BY <1>1, <1>4
    <2>2. s < 0 => r <= 0
      BY <1>3, <1>5, <2>1, NegativeRatio
    <2>3. r \in Int
      <3>1. r \in FixedOrErr
        BY <1>3, Exact
      <3> QED
        BY <3>1, FixedRange DEF FixedOrErr
    <2> QED
      BY <2>1, <2>2, <2>3
  <1>7. s \in Nat /\ s > 0
    BY <1>4, <1>6
  <1>8. r \in Nat /\ p * PoolUnit < (r + 1) * s
    BY <1>3, <1>5, <1>7, RatioFacts
  <1>9. /\ (p + 1) * PoolUnit = p * PoolUnit + PoolUnit /\ (r + 1) * s = r * s + s
        /\ in * v \in Int /\ p * PoolUnit \in Int /\ r * s \in Int
    BY <1>1, <1>5, <1>7, <1>8, FixedRange
  <1>10. in * v < r * s + s + PoolUnit
    BY <1>5, <1>7, <1>8, <1>9, FixedRange
  <1> QED
    BY <1>1, <1>4, <1>7, <1>8, <1>10

\* An amount raised by the fee.
LEMMA RaisedFacts ==
  ASSUME NEW v, NEW w, w = Mock!FxDiv(v, PoolUnit - Fee), w # Err, w > 0, v \in FixedOrErr
  PROVE  v \in Nat /\ v > 0 /\ w \in Nat /\ v <= w /\ w <= FixedMax
  <1>1. PICK d : d = PoolUnit - Fee
    OBVIOUS
  <1>2. d \in Nat /\ d <= PoolUnit /\ w = Mock!FxDiv(v, d)
    BY <1>1, SplitAssumption, FixedRange
  <1>3. v # Err /\ d # 0 /\ v \in Int /\ w \in Int
    <2>1. v # Err /\ d # 0 /\ w \in FixedOrErr
      BY <1>2, Exact
    <2> QED
      BY <2>1, FixedRange DEF FixedOrErr
  <1>4. d > 0
    BY <1>2, <1>3
  <1>5. v > 0
    <2> SUFFICES ASSUME v <= 0 PROVE FALSE
      BY <1>3
    <2>1. PICK c : c = v * PoolUnit
      OBVIOUS
    <2>2. c \in Int /\ c <= 0
      BY <1>3, <2>1, FixedRange
    <2>3. w = c \div d
      BY <1>2, <1>4, <2>1, Exact
    <2>4. w * d <= c
      BY <1>2, <1>4, <2>2, <2>3, DivBounds
    <2>5. w * d > 0
      BY <1>2, <1>3, <1>4
    <2>6. w * d \in Int
      BY <1>2, <1>3
    <2> QED
      BY <2>2, <2>4, <2>5, <2>6
  <1>6. w \in Nat /\ w <= FixedMax /\ v * PoolUnit < (w + 1) * d
    BY <1>2, <1>3, <1>4, <1>5, RatioFacts
  <1>7. v < w + 1
    <2>1. d * (w + 1) <= PoolUnit * (w + 1)
      BY <1>2, <1>6, FixedRange, ScaleLeq
    <2>2. /\ d * (w + 1) = (w + 1) * d /\ PoolUnit * (w + 1) = (w + 1) * PoolUnit
          /\ d * (w + 1) \in Int /\ PoolUnit * (w + 1) \in Int /\ v * PoolUnit \in Int
      BY <1>2, <1>3, <1>6, FixedRange
    <2>3. v * PoolUnit < (w + 1) * PoolUnit
      BY <1>6, <2>1, <2>2
    <2> QED
      BY <1>3, <1>6, <2>3, FixedRange, CancelFactor
  <1> QED
    BY <1>3, <1>5, <1>6, <1>7

-----------------------------------------------------------------------------
(* The quotes of the mock source.                                          *)

\* Selling the base asset: part of the input reaches the product.
LEMMA TargetOutFacts ==
  ASSUME NEW v \in FixedOrErr, NEW rx \in Reserves, NEW ry \in Reserves,
         NEW q, q = Mock!TargetAmountOut(v, rx, ry), q # Err
  PROVE  /\ v \in Nat /\ v > 0 /\ q.amount \in Nat
         /\ \E net \in 0 .. v : q.amount * (rx + net) <= net * ry
  <1>1. v # Err /\ v > 0
    BY DEF Mock!TargetAmountOut, Mock!CanCompute
  <1>2. v \in Nat
    BY <1>1, FixedRange DEF FixedOrErr
  <1>3. PICK fee, net, out : /\ fee = Mock!FxMul(v, Fee) /\ net = Mock!FxSub(v, fee)
                             /\ out = Mock!OutputFor(net, rx, ry)
    OBVIOUS
  <1>4. q = Mock!Outcome(out, fee)
    BY <1>3 DEF Mock!TargetAmountOut
  <1>5. out # Err /\ fee # Err /\ q = [amount |-> out, fee |-> fee]
    BY <1>4 DEF Mock!Outcome
  <1>6. fee \in Nat /\ fee <= v
    BY <1>2, <1>3, <1>5, SplitAssumption, FeePart
  <1>7. net # Err
    <2>1. PICK p, s : p = Mock!FxMul(net, ry) /\ s = Mock!FxAdd(rx, net)
      OBVIOUS
    <2>2. out = Mock!FxDiv(p, s)
      BY <1>3, <2>1 DEF Mock!OutputFor
    <2>3. s # Err
      BY <1>5, <2>2, Exact
    <2> QED
      BY <2>1, <2>3, Exact
  <1>8. net = v - fee
    BY <1>3, <1>7, Exact
  <1>9. net \in Nat /\ net \in 0 .. v
    BY <1>2, <1>6, <1>8
  <1>10. out \in Nat /\ out * (rx + net) <= net * ry
    BY <1>3, <1>5, <1>9, OutputFacts
  <1> QED
    BY <1>1, <1>2, <1>5, <1>9, <1>10

\* Buying the base asset: part of the output reaches the trader.
LEMMA BaseOutFacts ==
  ASSUME NEW v \in FixedOrErr, NEW rx \in Reserves, NEW ry \in Reserves,
         NEW q, q = Mock!BaseAmountOut(v, rx, ry), q # Err
  PROVE  /\ v \in Nat /\ v > 0 /\ q.amount \in FixedOrErr
         /\ \E out \in Nat : q.amount \in 0 .. out /\ out * (ry + v) <= v * rx
  <1>1. v # Err /\ v > 0
    BY DEF Mock!BaseAmountOut, Mock!CanCompute
  <1>2. v \in Nat
    BY <1>1, FixedRange DEF FixedOrErr
  <1>3. PICK out, fee, net : /\ out = Mock!OutputFor(v, ry, rx)
                             /\ fee = Mock!FxMul(out, Fee) /\ net = Mock!FxSub(out, fee)
    OBVIOUS
  <1>4. q = Mock!Outcome(net, fee)
    BY <1>1, <1>3 DEF Mock!BaseAmountOut
  <1>5. net # Err /\ fee # Err /\ q = [amount |-> net, fee |-> fee]
    BY <1>4 DEF Mock!Outcome
  <1>6. out # Err /\ net = out - fee /\ net \in FixedOrErr
    BY <1>3, <1>5, Exact
  <1>7. out \in Nat /\ out * (ry + v) <= v * rx
    BY <1>2, <1>3, <1>6, OutputFacts
  <1>8. fee \in Nat /\ fee <= out
    BY <1>3, <1>5, <1>7, SplitAssumption, FeePart
  <1>9. net \in 0 .. out
    BY <1>6, <1>7, <1>8
  <1> QED
    BY <1>1, <1>2, <1>5, <1>6, <1>7, <1>9

\* An amount that was corrected is no smaller.
LEMMA CorrectedFacts ==
  ASSUME NEW v \in Nat, NEW forward, NEW desired, NEW c,
         c = Mock!Corrected(v, forward, desired), c # Err
  PROVE  c \in Nat /\ v <= c
  <1>1. CASE c = v
    BY <1>1
  <1>2. CASE c = Mock!FxAdd(v, 1)
    <2>1. c = v + 1
      BY <1>2, Exact
    <2> QED
      BY <2>1
  <1> QED
    BY <1>1, <1>2 DEF Mock!Corrected

\* Selling for a desired output: the base asset that is asked for it.
LEMMA BaseInFacts ==
  ASSUME NEW v \in Nat, NEW rx \in Reserves, NEW ry \in Reserves,
         NEW q, q = Mock!BaseAmountIn(v, rx, ry), q # Err
  PROVE  /\ v < ry /\ q.amount \in Nat
         /\ rx * v < q.amount * (ry - v) + (ry - v) + PoolUnit
  <1>1. PICK in, raised, forward, paid :
           /\ in = Mock!InputFor(v, rx, ry) /\ raised = Mock!FxDiv(in, PoolUnit - Fee)
           /\ forward = Mock!TargetAmountOut(raised, rx, ry)
           /\ paid = Mock!Corrected(raised, forward, v)
    OBVIOUS
  <1>2. forward # Err /\ q = Mock!Outcome(paid, Mock!FxSub(raised, in))
    BY <1>1 DEF Mock!BaseAmountIn
  <1>3. paid # Err /\ q.amount = paid
    BY <1>2 DEF Mock!Outcome
  <1>4. in \in FixedOrErr /\ raised \in FixedOrErr
    BY <1>1, Exact DEF Mock!InputFor
  <1>5. raised \in Nat /\ raised > 0
    BY <1>1, <1>2, <1>4, TargetOutFacts
  <1>6. in \in Nat /\ in > 0 /\ in <= raised
    BY <1>1, <1>4, <1>5, FixedRange, RaisedFacts
  <1>7. paid \in Nat /\ raised <= paid
    BY <1>1, <1>3, <1>5, CorrectedFacts
  <1>8. v < ry /\ rx * v < in * (ry - v) + (ry - v) + PoolUnit
    BY <1>1, <1>6, FixedRange, InputFacts
  <1>9. PICK s : s = ry - v
    OBVIOUS
  <1>10. s \in Nat /\ rx \in Int
    BY <1>8, <1>9, FixedRange DEF Reserves
  <1>11. in * s <= paid * s
    <2>1. in <= paid
      BY <1>5, <1>6, <1>7
    <2> QED
      BY <1>6, <1>7, <1>10, <2>1, ScaleLeq
  <1>12. in * s \in Int /\ paid * s \in Int /\ rx * v \in Int
    BY <1>6, <1>7, <1>10
  <1>13. rx * v < paid * s + s + PoolUnit
    BY <1>8, <1>9, <1>10, <1>11, <1>12, FixedRange
  <1> QED
    BY <1>3, <1>7, <1>8, <1>9, <1>13

\* Buying a desired amount of the base asset: the target that is asked for it.
LEMMA TargetInFacts ==
  ASSUME NEW v \in 1 .. FixedMax, NEW rx \in Reserves, NEW ry \in Reserves,
         NEW q, q = Mock!TargetAmountIn(v, rx, ry), q # Err
  PROVE  \E raised \in Nat :
            /\ v <= raised /\ raised < rx /\ q.amount \in Nat
            /\ ry * raised < q.amount * (rx - raised) + (rx - raised) + PoolUnit
  <1>1. PICK raised, in, forward, paid :
           /\ raised = Mock!FxDiv(v, PoolUnit - Fee) /\ in = Mock!InputFor(raised, ry, rx)
           /\ forward = Mock!BaseAmountOut(in, rx, ry)
           /\ paid = Mock!Corrected(in, forward, v)
    OBVIOUS
  <1>2. forward # Err /\ q = Mock!Outcome(paid, Mock!FxSub(raised, v))
    BY <1>1 DEF Mock!TargetAmountIn
  <1>3. paid # Err /\ q.amount = paid
    BY <1>2 DEF Mock!Outcome
  <1>4. in \in FixedOrErr
    BY <1>1, Exact DEF Mock!InputFor
  <1>5. in \in Nat /\ in > 0
    BY <1>1, <1>2, <1>4, BaseOutFacts
  <1>6. v \in Nat /\ v > 0 /\ v \in FixedOrErr
    BY FixedRange DEF FixedOrErr
  <1>7. raised # Err
    <2>1. PICK p, s : p = Mock!FxMul(ry, raised) /\ s = Mock!FxSub(rx, raised)
      OBVIOUS
    <2>2. in = Mock!FxDiv(p, s) /\ in # Err
      BY <1>1, <1>5, <2>1, FixedRange DEF Mock!InputFor
    <2>3. s # Err
      BY <2>2, Exact
    <2> QED
      BY <2>1, <2>3, Exact
  <1>8. raised \in Nat /\ v <= raised
    <2>1. PICK d : d = PoolUnit - Fee
      OBVIOUS
    <2>2. d \in Nat /\ raised = Mock!FxDiv(v, d)
      BY <1>1, <2>1, SplitAssumption, FixedRange
    <2>3. d # 0
      BY <1>7, <2>2, Exact
    <2>4. raised \in Nat
      BY <1>6, <1>7, <2>2, <2>3, RatioFacts
    <2>5. raised > 0
      <3> SUFFICES ASSUME raised = 0 PROVE FALSE
        BY <2>4
      <3>1. v * PoolUnit < (raised + 1) * d
        BY <1>6, <1>7, <2>2, <2>3, RatioFacts
      <3>2. v * PoolUnit < d /\ d <= PoolUnit
        <4>1. (raised + 1) * d = d
          BY <2>2
        <4>2. d <= PoolUnit
          BY <2>1, SplitAssumption, FixedRange
        <4> QED
          BY <3>1, <4>1, <4>2
      <3>3. 1 * PoolUnit <= v * PoolUnit
        BY <1>6, FixedRange, ScaleLeq
      <3>4. v * PoolUnit \in Int
        BY <1>6, FixedRange
      <3> QED
        BY <2>2, <3>2, <3>3, <3>4, FixedRange
    <2> QED
      BY <1>1, <1>6, <1>7, <2>4, <2>5, RaisedFacts
  <1>9. raised < rx /\ ry * raised < in * (rx - raised) + (rx - raised) + PoolUnit
    <2>1. in # Err
      BY <1>5, FixedRange
    <2> QED
      BY <1>1, <1>5, <1>8, <2>1, InputFacts
  <1>10. paid \in Nat /\ in <= paid
    BY <1>1, <1>3, <1>5, CorrectedFacts
  <1>11. PICK s : s = rx - raised
    OBVIOUS
  <1>12. s \in Nat /\ ry \in Int
    BY <1>8, <1>9, <1>11, FixedRange DEF Reserves
  <1>13. in * s <= paid * s
    BY <1>5, <1>10, <1>12, ScaleLeq
  <1>14. in * s \in Int /\ paid * s \in Int /\ ry * raised \in Int
    BY <1>5, <1>8, <1>10, <1>12
  <1>15. ry * raised < paid * s + s + PoolUnit
    BY <1>9, <1>11, <1>12, <1>13, <1>14, FixedRange
  <1> QED
    BY <1>3, <1>8, <1>9, <1>10, <1>11, <1>15

\* An output that keeps the product does so whatever more was paid in.
LEMMA KeptByOutput ==
  ASSUME NEW in \in Reserves, NEW out \in Reserves, NEW paid \in Nat, NEW net \in 0 .. paid,
         NEW got \in Nat, got * (in + net) <= net * out
  PROVE  got < out /\ Mock!KeepsProduct(in, out, paid, got, TRUE)
  <1>1. in \in Nat /\ in > 0 /\ out \in Nat /\ out > 0 /\ net \in Nat /\ net <= paid
    BY FixedRange DEF Reserves
  <1>2. got < out
    <2> SUFFICES ASSUME out <= got PROVE FALSE
      BY <1>1
    <2>1. PICK s : s = in + net
      OBVIOUS
    <2>2. s \in Nat /\ net + 1 <= s
      BY <1>1, <2>1
    <2>3. out * s <= got * s
      BY <1>1, <2>2, ScaleLeq
    <2>4. (net + 1) * out <= s * out
      BY <1>1, <2>2, ScaleLeq
    <2>5. /\ (net + 1) * out = net * out + out /\ s * out = out * s
          /\ net * out \in Int /\ out * s \in Int /\ got * s \in Int
      BY <1>1, <2>2
    <2> QED
      BY <1>1, <2>1, <2>3, <2>4, <2>5
  <1>3. (in + paid) * (out - got) >= in * out
    <2>1. PICK left : left = out - got
      OBVIOUS
    <2>2. left \in Nat
      BY <1>1, <1>2, <2>1
    <2>3. (in + net) * left <= (in + paid) * left
      <3>1. in + net \in Int /\ in + paid \in Int /\ in + net <= in + paid
        BY <1>1
      <3> QED
        BY <2>2, <3>1, ScaleLeq
    <2>4. (in + net) * left = in * out + net * out - got * (in + net)
      <3>1. (in + net) * (out - got) = in * out + net * out - got * (in + net)
        BY <1>1
      <3> QED
        BY <2>1, <3>1
    <2>5. /\ in * out \in Int /\ net * out \in Int /\ got * (in + net) \in Int
          /\ (in + net) * left \in Int /\ (in + paid) * left \in Int
      BY <1>1, <2>2
    <2>6. in * out <= (in + paid) * left
      BY <2>3, <2>4, <2>5
    <2> QED
      BY <2>1, <2>5, <2>6
  <1>4. (in + paid) * (out - got) \in Int /\ in * out \in Int
    BY <1>1
  <1> QED
    BY <1>2, <1>3, <1>4 DEF Mock!KeepsProduct

\* An input that is short by less than two roundings keeps the product up to those,
\* also when the output it was computed for was raised by the fee.
LEMMA KeptByInput ==
  ASSUME NEW in \in Reserves, NEW out \in Reserves, NEW paid \in Nat, NEW got \in Nat,
         NEW raised \in Nat, got <= raised, raised < out,
         in * raised < paid * (out - raised) + (out - raised) + PoolUnit
  PROVE  got < out /\ Mock!KeepsProduct(in, out, paid, got, FALSE)
  <1>1. in \in Nat /\ out \in Nat
    BY FixedRange DEF Reserves
  <1>2. got < out
    BY <1>1
  <1>3. PICK s, l : s = out - raised /\ l = out - got
    OBVIOUS
  <1>4. s \in Nat /\ l \in Nat /\ s <= l
    BY <1>1, <1>2, <1>3
  <1>5. in * raised < paid * s + s + PoolUnit
    BY <1>3
  <1>6. in * s = in * out - in * raised
    <2>1. in * (out - raised) = in * out - in * raised
      BY <1>1
    <2> QED
      BY <1>3, <2>1
  <1>7. s * (in + paid) <= l * (in + paid)
    <2>1. in + paid \in Nat
      BY <1>1
    <2> QED
      BY <1>4, <2>1, ScaleLeq
  <1>8. /\ s * (in + paid) = in * s + paid * s /\ l * (in + paid) = (in + paid) * l
        /\ in * out \in Int /\ in * raised \in Int /\ in * s \in Int /\ paid * s \in Int
        /\ (in + paid) * l \in Int
    BY <1>1, <1>4
  <1>9. (in + paid) * l >= in * out - (l + PoolUnit)
    <2>1. in * s + paid * s > in * out - s - PoolUnit
      BY <1>4, <1>5, <1>6, <1>8, FixedRange
    <2> QED
      BY <1>4, <1>7, <1>8, <2>1, FixedRange
  <1> QED
    BY <1>2, <1>3, <1>9 DEF Mock!KeepsProduct

\* The inputs of the fast split and the mock are positive reserves and amounts.
LEMMA SplitInputs ==
  ASSUME InputsInv, topic = "split"
  PROVE  /\ x \in Reserves /\ y \in Reserves /\ a \in 1 .. FixedMax /\ a \in Nat
         /\ a \in FixedOrErr /\ t \in 0 .. FixedMax /\ b \in 0 .. FixedMax
  <1>1. MaxSplitReserve \in Nat /\ MaxSplitReserve <= FixedMax
    BY SplitAssumption, SizeFacts
  <1>2. /\ x \in 1 .. MaxSplitReserve /\ y \in 1 .. MaxSplitReserve
        /\ t \in SplitPrices /\ a \in SplitAmounts /\ b \in SplitReserves
    BY DEF InputsInv
  <1>3. x \in Reserves /\ y \in Reserves
    BY <1>1, <1>2, SizeFacts DEF Reserves
  <1>4. a \in 1 .. FixedMax /\ t \in 0 .. FixedMax /\ b \in 0 .. FixedMax
    BY <1>2, SplitAssumption
  <1> QED
    BY <1>3, <1>4, FixedRange DEF FixedOrErr

\* The quotes of the mock source keep the product of the reserves, and its path back
\* to where it began promises no gain.
THEOREM MockProductIsKept == AlgorithmsSpec => []MockKeepsProduct
  <1>1. ASSUME NEW rx \in Reserves, NEW ry \in Reserves, NEW v \in 1 .. FixedMax
        PROVE  Mock!QuoteKeepsProduct(rx, ry, v) /\ Mock!PathIsNoGain(rx, ry, v)
    <2>1. PICK none, pool : none = [x |-> 0, y |-> 0] /\ pool = [x |-> rx, y |-> ry]
      OBVIOUS
    <2>2. pool.x = rx /\ pool.y = ry /\ pool # none /\ v \in Nat /\ v \in FixedOrErr
      BY <2>1, FixedRange DEF Reserves, FixedOrErr
    <2>3. /\ Mock!Quote(none, pool, none, TRUE, v) = Mock!TargetAmountOut(v, rx, ry)
          /\ Mock!Quote(none, pool, none, FALSE, v) = Mock!BaseAmountIn(v, rx, ry)
          /\ Mock!Quote(pool, none, none, TRUE, v) = Mock!BaseAmountOut(v, rx, ry)
          /\ Mock!Quote(pool, none, none, FALSE, v) = Mock!TargetAmountIn(v, rx, ry)
      BY <2>2 DEF Mock!Quote
    <2>4. ASSUME NEW q, q = Mock!TargetAmountOut(v, rx, ry), q # Err
          PROVE  q.amount < ry /\ Mock!KeepsProduct(rx, ry, v, q.amount, TRUE)
      <3>1. PICK net \in 0 .. v : q.amount \in Nat /\ q.amount * (rx + net) <= net * ry
        BY <2>2, <2>4, TargetOutFacts
      <3> QED
        BY <2>2, <3>1, KeptByOutput
    <2>5. ASSUME NEW q, q = Mock!BaseAmountOut(v, rx, ry), q # Err
          PROVE  q.amount < rx /\ Mock!KeepsProduct(ry, rx, v, q.amount, TRUE)
      <3>1. PICK out \in Nat : q.amount \in 0 .. out /\ out * (ry + v) <= v * rx
        BY <2>2, <2>5, BaseOutFacts
      <3>2. PICK got, s : got = q.amount /\ s = ry + v
        OBVIOUS
      <3>3. got \in Nat /\ got <= out /\ s \in Nat /\ out * s <= v * rx
        BY <2>2, <3>1, <3>2 DEF Reserves
      <3>4. got * s <= out * s
        BY <3>3, ScaleLeq
      <3>5. got * s \in Int /\ out * s \in Int /\ v * rx \in Int
        BY <2>2, <3>3 DEF Reserves
      <3>6. got * (ry + v) <= v * rx
        BY <3>2, <3>3, <3>4, <3>5
      <3>7. v \in 0 .. v
        BY <2>2
      <3> QED
        BY <2>2, <3>2, <3>3, <3>6, <3>7, KeptByOutput
    <2>6. ASSUME NEW q, q = Mock!BaseAmountIn(v, rx, ry), q # Err
          PROVE  v < ry /\ Mock!KeepsProduct(rx, ry, q.amount, v, FALSE)
      <3>1. /\ v < ry /\ q.amount \in Nat
            /\ rx * v < q.amount * (ry - v) + (ry - v) + PoolUnit
        BY <2>2, <2>6, BaseInFacts
      <3>2. v <= v
        BY <2>2
      <3> QED
        BY <2>2, <3>1, <3>2, KeptByInput
    <2>7. ASSUME NEW q, q = Mock!TargetAmountIn(v, rx, ry), q # Err
          PROVE  v < rx /\ Mock!KeepsProduct(ry, rx, q.amount, v, FALSE)
      <3>1. PICK raised \in Nat :
               /\ v <= raised /\ raised < rx /\ q.amount \in Nat
               /\ ry * raised < q.amount * (rx - raised) + (rx - raised) + PoolUnit
        BY <2>7, TargetInFacts
      <3> QED
        BY <2>2, <3>1, KeptByInput
    <2>8. Mock!QuoteKeepsProduct(rx, ry, v)
      <3>1. ASSUME NEW byInput \in BOOLEAN, byInput,
                   NEW sold, sold = Mock!Quote(none, pool, none, byInput, v),
                   NEW bought, bought = Mock!Quote(pool, none, none, byInput, v)
            PROVE  /\ sold # Err => /\ sold.amount < ry
                                    /\ Mock!KeepsProduct(rx, ry, v, sold.amount, byInput)
                   /\ bought # Err => /\ bought.amount < rx
                                      /\ Mock!KeepsProduct(ry, rx, v, bought.amount, byInput)
        <4>1. byInput = TRUE
          BY <3>1
        <4> QED
          BY <2>3, <2>4, <2>5, <3>1, <4>1
      <3>2. ASSUME NEW byInput \in BOOLEAN, ~byInput,
                   NEW sold, sold = Mock!Quote(none, pool, none, byInput, v),
                   NEW bought, bought = Mock!Quote(pool, none, none, byInput, v)
            PROVE  /\ sold # Err => /\ v < ry
                                    /\ Mock!KeepsProduct(rx, ry, sold.amount, v, byInput)
                   /\ bought # Err => /\ v < rx
                                      /\ Mock!KeepsProduct(ry, rx, bought.amount, v, byInput)
        <4>1. byInput = FALSE
          BY <3>2
        <4> QED
          BY <2>3, <2>6, <2>7, <3>2, <4>1
      <3> QED
        BY <2>1, <3>1, <3>2 DEF Mock!QuoteKeepsProduct
    <2>9. Mock!PathIsNoGain(rx, ry, v)
      <3>1. PICK sold, last, path :
               /\ sold = Mock!BaseAmountOut(v, rx, ry)
               /\ last = Mock!TargetAmountOut(Mock!AmountOf(sold), rx, ry)
               /\ path = Mock!Quote(pool, pool, none, TRUE, v)
        OBVIOUS
      <3>2. path = Mock!Then(sold, last)
        BY <2>2, <3>1 DEF Mock!Quote
      <3> SUFFICES ASSUME path # Err PROVE path.amount <= v
        BY <2>1, <3>1 DEF Mock!PathIsNoGain
      <3>3. sold # Err /\ last # Err /\ path.amount = last.amount
        BY <3>2 DEF Mock!Then, Mock!Outcome
      <3>4. PICK out \in Nat : sold.amount \in 0 .. out /\ out * (ry + v) <= v * rx
        BY <2>2, <3>1, <3>3, BaseOutFacts
      <3>5. PICK mid : mid = sold.amount
        OBVIOUS
      <3>6. mid \in FixedOrErr /\ mid \in Nat /\ mid <= out
        BY <2>2, <3>1, <3>3, <3>4, <3>5, BaseOutFacts
      <3>7. last = Mock!TargetAmountOut(mid, rx, ry)
        BY <3>1, <3>3, <3>5 DEF Mock!AmountOf
      <3>8. PICK got, net : /\ got = last.amount /\ got \in Nat
                            /\ net \in 0 .. mid /\ got * (rx + net) <= net * ry
        BY <3>3, <3>6, <3>7, TargetOutFacts
      <3>9. rx \in Nat /\ rx > 0 /\ ry \in Nat /\ net \in Nat /\ net <= out
        BY <3>6, <3>8 DEF Reserves
      <3>10. net * ry <= out * ry
        BY <3>9, ScaleLeq
      <3>11. /\ out * (ry + v) = out * ry + out * v /\ v * (rx + net) = v * rx + v * net
             /\ out * ry \in Int /\ net * ry \in Int /\ out * v \in Nat /\ v * net \in Nat
             /\ v * rx \in Int /\ got * (rx + net) \in Int
        BY <2>2, <3>8, <3>9
      <3>12. PICK s : s = rx + net
        OBVIOUS
      <3>13. s \in Nat /\ s > 0
        BY <3>9, <3>12
      <3>14. got * s <= v * s
        BY <3>4, <3>8, <3>10, <3>11, <3>12
      <3>15. got * s < (v + 1) * s
        <4>1. (v + 1) * s = v * s + s /\ got * s \in Int /\ v * s \in Int
          BY <2>2, <3>8, <3>13
        <4> QED
          BY <3>13, <3>14, <4>1
      <3>16. got < v + 1
        BY <2>2, <3>8, <3>13, <3>15, CancelFactor
      <3> QED
        BY <2>2, <3>3, <3>8, <3>16
    <2> QED
      BY <2>8, <2>9
  <1>2. InputsInv => MockKeepsProduct
    BY <1>1, SplitInputs DEF MockKeepsProduct
  <1> QED
    BY <1>2, InputsAreKept, PTL

-----------------------------------------------------------------------------
(* The fast split.                                                         *)

\* The fast split and the mock calculate with the same fixed point.
LEMMA SameSplitArithmetic ==
  \A v, w : /\ Split!FxAdd(v, w) = Mock!FxAdd(v, w) /\ Split!FxSub(v, w) = Mock!FxSub(v, w)
            /\ Split!FxMul(v, w) = Mock!FxMul(v, w) /\ Split!FxDiv(v, w) = Mock!FxDiv(v, w)
  <1>1. \A v : Split!Checked(v) = Mock!Checked(v)
    BY DEF Split!Checked, Mock!Checked, Split!Signed, Mock!Signed
  <1> QED
    BY <1>1 DEF Split!FxAdd, Mock!FxAdd, Split!FxSub, Mock!FxSub, Split!FxMul, Mock!FxMul,
                Split!FxDiv, Mock!FxDiv, Split!FloorDiv, Mock!FloorDiv

\* The part of a fraction is always there, and rounded down.
LEMMA FractionFacts ==
  ASSUME NEW v \in 1 .. FixedMax, NEW f \in 0 .. PoolUnit
  PROVE  LET p == Split!PartOf(v, f)
         IN  /\ p = Split!FxMul(v, f) /\ p # Err
             /\ p \in Nat /\ p <= v /\ p * PoolUnit <= v * f /\ v * f < (p + 1) * PoolUnit
  <1>1. v \in Nat /\ v <= FixedMax /\ f \in Nat /\ f <= PoolUnit
    BY FixedRange
  <1>2. PICK c, q : c = v * f /\ q = c \div PoolUnit
    OBVIOUS
  <1>3. c \in Nat /\ q \in Nat /\ q * PoolUnit <= c /\ c < (q + 1) * PoolUnit
    <2>1. c \in Nat
      BY <1>1, <1>2
    <2> QED
      BY <1>2, <2>1, FixedRange, DivBounds, DivNat
  <1>4. q < v + 1
    <2>1. f * v <= PoolUnit * v
      BY <1>1, FixedRange, ScaleLeq
    <2>2. /\ c = f * v /\ PoolUnit * v = v * PoolUnit /\ (v + 1) * PoolUnit = v * PoolUnit + PoolUnit
          /\ v * PoolUnit \in Int /\ q * PoolUnit \in Int
      BY <1>1, <1>2, <1>3, FixedRange
    <2>3. q * PoolUnit < (v + 1) * PoolUnit
      BY <1>3, <2>1, <2>2, FixedRange
    <2> QED
      BY <1>1, <1>3, <2>3, FixedRange, CancelFactor
  <1>5. q \in Split!Signed(Modulus)
    <2>1. q <= FixedMax
      BY <1>1, <1>3, <1>4, FixedRange
    <2>2. q \in Fixed
      BY <1>3, <2>1, FixedRange
    <2> QED
      BY <2>2 DEF Fixed, Signed, Split!Signed
  <1>6. Split!FxMul(v, f) = q
    <2>1. v # Err /\ f # Err
      BY <1>1, FixedRange
    <2> QED
      BY <1>2, <1>5, <2>1 DEF Split!FxMul, Split!Checked
  <1>7. q # Err /\ Split!PartOf(v, f) = q
    <2>1. q # Err /\ ~(q < 0)
      BY <1>3, FixedRange
    <2> QED
      BY <1>6, <2>1 DEF Split!PartOf, Split!ToBalance
  <1> QED
    BY <1>1, <1>2, <1>3, <1>4, <1>6, <1>7

\* The parts of two fractions that make up one make up the amount, but for a rounding.
LEMMA TwoParts ==
  ASSUME NEW v \in 1 .. FixedMax, NEW f \in 0 .. PoolUnit, NEW g \in 0 .. PoolUnit,
         f + g = PoolUnit
  PROVE  v - Split!PartOf(v, f) - Split!PartOf(v, g) \in 0 .. 1
  <1>1. PICK p, q : p = Split!PartOf(v, f) /\ q = Split!PartOf(v, g)
    OBVIOUS
  <1>2. v \in Nat /\ f \in Nat /\ g \in Nat
    BY FixedRange
  <1>3. /\ p \in Nat /\ p * PoolUnit <= v * f /\ v * f < (p + 1) * PoolUnit
        /\ q \in Nat /\ q * PoolUnit <= v * g /\ v * g < (q + 1) * PoolUnit
    BY <1>1, FractionFacts
  <1>4. v * f + v * g = v * PoolUnit
    <2>1. v * (f + g) = v * f + v * g
      BY <1>2
    <2> QED
      BY <2>1
  <1>5. /\ (p + 1) * PoolUnit = p * PoolUnit + PoolUnit
        /\ (q + 1) * PoolUnit = q * PoolUnit + PoolUnit
        /\ (p + q) * PoolUnit = p * PoolUnit + q * PoolUnit
        /\ (p + q + 2) * PoolUnit = p * PoolUnit + q * PoolUnit + 2 * PoolUnit
        /\ (v + 1) * PoolUnit = v * PoolUnit + PoolUnit
        /\ v * f \in Int /\ v * g \in Int /\ v * PoolUnit \in Int
        /\ p * PoolUnit \in Int /\ q * PoolUnit \in Int
    BY <1>2, <1>3, FixedRange
  <1>6. p + q < v + 1
    <2>1. (p + q) * PoolUnit < (v + 1) * PoolUnit
      BY <1>3, <1>4, <1>5, FixedRange
    <2> QED
      BY <1>2, <1>3, <2>1, FixedRange, CancelFactor
  <1>7. v < p + q + 2
    <2>1. v * PoolUnit < (p + q + 2) * PoolUnit
      BY <1>3, <1>4, <1>5, FixedRange
    <2> QED
      BY <1>2, <1>3, <2>1, FixedRange, CancelFactor
  <1> QED
    BY <1>1, <1>2, <1>3, <1>6, <1>7

\* A split whose primary part is lowered leaves the rest to the secondary market.
LEMMA ReweighFacts ==
  ASSUME NEW v \in 1 .. FixedMax, NEW reserves \in 0 .. FixedMax,
         NEW f \in 0 .. PoolUnit, NEW split,
         split = Split!Reweigh([primary |-> f, secondary |-> PoolUnit - f], v, reserves)
  PROVE  /\ split.primary \in 0 .. PoolUnit
         /\ split.secondary = PoolUnit - split.primary
         /\ Split!PartOf(v, split.primary) <= reserves
  <1>1. PICK asked, most, left :
           /\ asked = Split!FxMul(v, f) /\ most = Split!FxMul(ReserveMargin, reserves)
           /\ left = Split!FxDiv(most, v)
    OBVIOUS
  <1>2. /\ v \in Nat /\ v > 0 /\ reserves \in Nat /\ f \in Nat /\ f <= PoolUnit
        /\ ReserveMargin \in Nat /\ ReserveMargin <= PoolUnit
    BY SplitAssumption, FixedRange
  <1>3. asked = Split!PartOf(v, f) /\ asked \in Nat /\ asked <= v
    BY <1>1, FractionFacts
  <1>4. CASE reserves >= asked
    <2>1. split = [primary |-> f, secondary |-> PoolUnit - f]
      BY <1>1, <1>4 DEF Split!Reweigh
    <2> QED
      BY <1>2, <1>3, <1>4, <2>1
  <1>5. CASE ~(reserves >= asked)
    <2>1. PICK primary : primary = IF left = Err THEN 0 ELSE left
      OBVIOUS
    <2>2. split = [primary |-> primary, secondary |-> PoolUnit - primary]
      BY <1>1, <1>5, <2>1 DEF Split!Reweigh
    <2>3. primary \in Nat /\ primary * v <= reserves * PoolUnit
      <3>1. CASE left = Err
        BY <1>2, <2>1, <3>1, FixedRange
      <3>2. CASE left # Err
        <4>1. left = Mock!FxDiv(most, v) /\ most = Mock!FxMul(ReserveMargin, reserves)
          BY <1>1, SameSplitArithmetic
        <4>2. most # Err
          BY <3>2, <4>1, Exact
        <4>3. most \in Nat /\ most * PoolUnit <= ReserveMargin * reserves
          BY <1>2, <4>1, <4>2, ProductFacts
        <4>4. ReserveMargin * reserves <= PoolUnit * reserves
          BY <1>2, FixedRange, ScaleLeq
        <4>5. left \in Nat /\ left * v <= most * PoolUnit
          BY <1>2, <3>2, <4>1, <4>3, RatioFacts
        <4>6. /\ PoolUnit * reserves = reserves * PoolUnit /\ left * v \in Int
              /\ most * PoolUnit \in Int /\ ReserveMargin * reserves \in Int
              /\ PoolUnit * reserves \in Int
          BY <1>2, <4>3, <4>5, FixedRange
        <4>7. primary = left
          BY <2>1, <3>2
        <4> QED
          BY <4>3, <4>4, <4>5, <4>6, <4>7
      <3> QED
        BY <3>1, <3>2
    <2>4. reserves < v
      BY <1>2, <1>3, <1>5
    <2>5. primary < PoolUnit
      <3>1. reserves * PoolUnit < v * PoolUnit
        BY <1>2, <2>4, FixedRange, ScaleLess
      <3>2. /\ v * PoolUnit = PoolUnit * v /\ primary * v \in Int
            /\ reserves * PoolUnit \in Int /\ v * PoolUnit \in Int
        BY <1>2, <2>3, FixedRange
      <3>3. primary * v < PoolUnit * v
        BY <2>3, <3>1, <3>2
      <3> QED
        BY <1>2, <2>3, <3>3, FixedRange, CancelFactor
    <2>6. primary \in 0 .. PoolUnit
      BY <2>3, <2>5, FixedRange
    <2>7. PICK p : p = Split!PartOf(v, primary)
      OBVIOUS
    <2>8. p \in Nat /\ p * PoolUnit <= v * primary
      BY <2>6, <2>7, FractionFacts
    <2>9. p < reserves + 1
      <3>1. /\ v * primary = primary * v
            /\ (reserves + 1) * PoolUnit = reserves * PoolUnit + PoolUnit
            /\ primary * v \in Int /\ reserves * PoolUnit \in Int /\ p * PoolUnit \in Int
        BY <1>2, <2>3, <2>8, FixedRange
      <3>2. p * PoolUnit < (reserves + 1) * PoolUnit
        BY <2>3, <2>8, <3>1, FixedRange
      <3> QED
        BY <1>2, <2>8, <3>2, FixedRange, CancelFactor
    <2> QED
      BY <1>2, <2>2, <2>6, <2>7, <2>8, <2>9
  <1> QED
    BY <1>4, <1>5

\* A fraction is never more than one.
LEMMA FractionRange ==
  ASSUME NEW direction, NEW byInput, NEW rx, NEW ry, NEW price, NEW v
  PROVE  Split!FractionOfSecondary(direction, byInput, rx, ry, price, v) \in 0 .. PoolUnit
  <1>1. PICK d, f : /\ d = Split!Delta(direction, byInput, rx, ry, price)
                    /\ f = Split!FxDiv(d, v)
    OBVIOUS
  <1>2. f \in FixedOrErr
    BY <1>1, SameSplitArithmetic, Exact
  <1>3. Split!Clamp(f) \in 0 .. PoolUnit
    <2>1. CASE f = Err \/ f < 0
      BY <2>1, FixedRange DEF Split!Clamp
    <2>2. CASE ~(f = Err \/ f < 0) /\ f > PoolUnit
      BY <2>2, FixedRange DEF Split!Clamp
    <2>3. CASE ~(f = Err \/ f < 0) /\ ~(f > PoolUnit)
      <3>1. f \in Int /\ f >= 0 /\ f <= PoolUnit
        BY <1>2, <2>3, FixedRange DEF FixedOrErr
      <3>2. Split!Clamp(f) = f
        BY <2>3 DEF Split!Clamp
      <3> QED
        BY <3>1, <3>2, FixedRange
    <2> QED
      BY <2>1, <2>2, <2>3
  <1> QED
    BY <1>1, <1>3, FixedRange DEF Split!FractionOfSecondary

\* A split asks the primary market for no more collateral than it has, and hands out
\* the whole amount but for one unit.
THEOREM PrimaryIsNotOverdrawn == AlgorithmsSpec => []PrimaryCanPay
  <1>1. ASSUME NEW rx \in Reserves, NEW ry \in Reserves, NEW price, NEW v \in 1 .. FixedMax,
               NEW reserves \in 0 .. FixedMax
        PROVE  Split!PrimaryCanPay(rx, ry, price, v, reserves)
    <2>1. PICK f, g, split :
             /\ g = Split!FractionOfSecondary(Split!Selling, FALSE, rx, ry, price, v)
             /\ f = PoolUnit - g
             /\ split = Split!FastSplit(Split!Selling, FALSE, rx, ry, price, v, reserves)
      OBVIOUS
    <2>2. f \in 0 .. PoolUnit /\ g = PoolUnit - f
      <3>1. g \in 0 .. PoolUnit
        BY <2>1, FractionRange
      <3>2. f = PoolUnit - g
        BY <2>1
      <3> QED
        BY <3>1, <3>2, FixedRange
    <2>3. ~(rx = 0 \/ ry = 0)
      BY FixedRange DEF Reserves
    <2>4. split = Split!Reweigh([primary |-> f, secondary |-> PoolUnit - f], v, reserves)
      BY <2>1, <2>2, <2>3 DEF Split!FastSplit, Split!DecideAmounts
    <2>5. /\ split.primary \in 0 .. PoolUnit /\ split.secondary = PoolUnit - split.primary
          /\ Split!PartOf(v, split.primary) <= reserves
      BY <2>2, <2>4, ReweighFacts
    <2>6. v - Split!PartOf(v, split.primary) - Split!PartOf(v, split.secondary) \in 0 .. 1
      <3>1. PICK p, q : p = split.primary /\ q = split.secondary
        OBVIOUS
      <3>2. p \in 0 .. PoolUnit /\ q \in 0 .. PoolUnit /\ p + q = PoolUnit
        BY <2>5, <3>1, FixedRange
      <3> QED
        BY <3>1, <3>2, TwoParts
    <2> QED
      BY <2>1, <2>5, <2>6 DEF Split!PrimaryCanPay
  <1>2. InputsInv => PrimaryCanPay
    BY <1>1, SplitInputs DEF PrimaryCanPay
  <1> QED
    BY <1>2, InputsAreKept, PTL

\* The root of a Fixed is rounded down by less than one.
LEMMA SplitRootBounds ==
  ASSUME NEW v \in Nat, NEW r, r = Split!FxSqrt(v)
  PROVE  r \in Nat /\ r * r <= v * PoolUnit /\ v * PoolUnit < (r + 1) * (r + 1)
  <1>1. PICK n : n = v * PoolUnit
    OBVIOUS
  <1>2. n \in Nat /\ v # Err /\ ~(v < 0)
    BY <1>1, FixedRange
  <1>3. r = Split!IntSqrt(n)
    BY <1>1, <1>2 DEF Split!FxSqrt
  <1>4. \E k \in 0 .. n : k * k <= n /\ n < (k + 1) * (k + 1)
    BY <1>2, RootExists
  <1>5. /\ Split!IntSqrt(n) \in 0 .. n
        /\ Split!IntSqrt(n) * Split!IntSqrt(n) <= n
        /\ n < (Split!IntSqrt(n) + 1) * (Split!IntSqrt(n) + 1)
    BY <1>4 DEF Split!IntSqrt
  <1> QED
    BY <1>1, <1>3, <1>5

\* A rounded product of roots has at most the square of the real one.
LEMMA RootProduct ==
  ASSUME NEW f \in Nat, NEW g \in Nat, NEW v \in Nat, NEW w \in Nat, NEW k \in Nat,
         f * f <= v * PoolUnit, g * g <= w * PoolUnit, k * PoolUnit <= f * g
  PROVE  k * k <= v * w
  <1>1. PICK c, d, p, q : /\ c = f * g /\ d = k * PoolUnit
                          /\ p = v * PoolUnit /\ q = w * PoolUnit
    OBVIOUS
  <1>2. c \in Nat /\ d \in Nat /\ p \in Nat /\ q \in Nat /\ d <= c
    BY <1>1, FixedRange
  <1>3. d * d <= c * c
    BY <1>2, SquareLeq
  <1>4. (f * f) * (g * g) <= p * q
    <2>1. PICK ff, gg : ff = f * f /\ gg = g * g
      OBVIOUS
    <2>2. ff \in Nat /\ gg \in Nat /\ ff <= p /\ gg <= q
      BY <1>1, <2>1
    <2>3. ff * gg <= p * gg /\ gg * p <= q * p
      BY <1>2, <2>2, ScaleLeq
    <2>4. gg * p = p * gg /\ q * p = p * q /\ ff * gg \in Int /\ p * gg \in Int /\ p * q \in Int
      BY <1>2, <2>2
    <2> QED
      BY <2>1, <2>3, <2>4
  <1>5. PICK e : e = PoolUnit * PoolUnit
    OBVIOUS
  <1>6. e \in Nat /\ e > 0
    BY <1>5, FixedRange
  <1>7. /\ c * c = (f * f) * (g * g)
        /\ d * d = (k * k) * e /\ p * q = (v * w) * e
    BY <1>1, <1>5, FixedRange
  <1>8. PICK l, r : l = k * k /\ r = v * w
    OBVIOUS
  <1>9. l \in Nat /\ r \in Nat /\ l * e <= r * e
    <2>1. l \in Nat /\ r \in Nat
      BY <1>8
    <2>2. d * d \in Int /\ c * c \in Int /\ p * q \in Int
      BY <1>2
    <2> QED
      BY <1>3, <1>4, <1>7, <1>8, <2>1, <2>2
  <1>10. l < r + 1
    <2>1. (r + 1) * e = r * e + e /\ l * e \in Int /\ r * e \in Int
      BY <1>6, <1>9
    <2>2. l * e < (r + 1) * e
      BY <1>6, <1>9, <2>1
    <2> QED
      BY <1>6, <1>9, <2>2, CancelFactor
  <1> QED
    BY <1>8, <1>9, <1>10

\* What a purchase for a desired input sends to the secondary market, along the chain
\* of its roundings: each is down, and so is the part.
LEMMA BuyingFacts ==
  ASSUME NEW rx \in Reserves, NEW ry \in Reserves, NEW price \in 0 .. FixedMax,
         NEW v \in 1 .. FixedMax, NEW sx, NEW sy, NEW k, NEW root, NEW moved, NEW delta,
         NEW raw, NEW fraction \in 0 .. PoolUnit, NEW part,
         sx = Split!FxSqrt(rx), sy = Split!FxSqrt(ry), k = Split!FxMul(sx, sy),
         root = Split!FxSqrt(price), moved = Split!FxMul(k, root),
         delta = Split!FxSub(moved, ry), raw = Split!FxDiv(delta, v),
         fraction = 0 \/ fraction = Split!Clamp(raw),
         part = Split!PartOf(v, fraction), part > 0
  PROVE  (ry + part) * (ry + part) * PoolUnit <= rx * ry * price
  <1>2. /\ rx \in Nat /\ ry \in Nat /\ price \in Nat /\ v \in Nat /\ v > 0
    BY FixedRange DEF Reserves
  <1>5. part \in Nat /\ part * PoolUnit <= v * fraction
    BY FractionFacts
  <1>6. fraction # 0
    <2> SUFFICES ASSUME fraction = 0 PROVE FALSE
      OBVIOUS
    <2>1. part * PoolUnit <= 0
      BY <1>2, <1>5
    <2>2. part * PoolUnit > 0 /\ part * PoolUnit \in Int
      BY <1>5, FixedRange
    <2> QED
      BY <2>1, <2>2
  <1>7. raw # Err /\ raw > 0 /\ raw \in Int /\ fraction <= raw
    <2>1. fraction = Split!Clamp(raw)
      BY <1>6
    <2>2. ~(raw = Err \/ raw < 0)
      <3> SUFFICES ASSUME raw = Err \/ raw < 0 PROVE FALSE
        OBVIOUS
      <3>1. Split!Clamp(raw) = 0
        BY DEF Split!Clamp
      <3> QED
        BY <1>6, <2>1, <3>1
    <2>3. raw \in FixedOrErr
      BY SameSplitArithmetic, Exact
    <2>4. raw \in Int /\ raw >= 0
      BY <2>2, <2>3, FixedRange DEF FixedOrErr
    <2>5. CASE raw > PoolUnit
      BY <2>2, <2>4, <2>5, FixedRange
    <2>6. CASE ~(raw > PoolUnit)
      <3>1. fraction = raw
        BY <2>1, <2>2, <2>6 DEF Split!Clamp
      <3> QED
        BY <1>6, <2>2, <2>4, <3>1
    <2> QED
      BY <2>5, <2>6
  <1>8. /\ delta # Err /\ delta \in Int /\ moved # Err /\ delta = moved - ry
        /\ k # Err /\ root # Err
    <2>1. raw = Mock!FxDiv(delta, v)
      BY SameSplitArithmetic
    <2>2. delta # Err /\ delta = Mock!FxSub(moved, ry)
      BY <1>7, <2>1, SameSplitArithmetic, Exact
    <2>3. delta \in FixedOrErr
      BY <2>2, Exact
    <2>5. moved # Err /\ delta = moved - ry
      BY <2>2, Exact
    <2>6. delta \in Int
      BY <2>2, <2>3, FixedRange DEF FixedOrErr
    <2>4. moved = Mock!FxMul(k, root)
      BY SameSplitArithmetic
    <2> QED
      BY <2>2, <2>4, <2>5, <2>6, Exact
  <1>9. /\ sx \in Nat /\ sx * sx <= rx * PoolUnit
        /\ sy \in Nat /\ sy * sy <= ry * PoolUnit
        /\ root \in Nat /\ root * root <= price * PoolUnit
    BY <1>2, SplitRootBounds
  <1>10. k \in Nat /\ k * PoolUnit <= sx * sy
    <2>1. k = Mock!FxMul(sx, sy)
      BY SameSplitArithmetic
    <2> QED
      BY <1>8, <1>9, <2>1, ProductFacts
  <1>11. moved \in Nat /\ moved * PoolUnit <= k * root
    <2>1. moved = Mock!FxMul(k, root)
      BY SameSplitArithmetic
    <2> QED
      BY <1>8, <1>9, <1>10, <2>1, ProductFacts
  <1>12. k * k <= rx * ry
    BY <1>2, <1>9, <1>10, RootProduct
  <1>13. delta > 0 /\ raw * v <= delta * PoolUnit
    <2>1. PICK c : c = delta * PoolUnit
      OBVIOUS
    <2>2. raw = c \div v
      <3>1. raw = Mock!FxDiv(delta, v)
        BY SameSplitArithmetic
      <3> QED
        BY <1>2, <1>7, <2>1, <3>1, Exact
    <2>3. c \in Int /\ raw * v <= c
      <3>1. c \in Int
        BY <1>8, <2>1, FixedRange
      <3> QED
        BY <1>2, <2>2, <3>1, DivBounds
    <2>4. raw * v > 0 /\ raw * v \in Int
      BY <1>2, <1>7
    <2>5. c > 0
      BY <2>3, <2>4
    <2>6. delta > 0
      <3> SUFFICES ASSUME delta <= 0 PROVE FALSE
        BY <1>8
      <3>1. delta * PoolUnit <= 0
        BY <1>8, FixedRange
      <3> QED
        BY <2>1, <2>3, <2>5, <3>1
    <2> QED
      BY <2>1, <2>3, <2>6
  <1>14. part <= delta
    <2>1. v * fraction <= raw * v
      <3>1. fraction * v <= raw * v
        <4>1. fraction \in Int
          BY FixedRange
        <4> QED
          BY <1>2, <1>7, <4>1, ScaleLeq
      <3>2. fraction * v = v * fraction
        BY <1>2, FixedRange
      <3> QED
        BY <3>1, <3>2
    <2>2. /\ v * fraction \in Int /\ raw * v \in Int /\ delta * PoolUnit \in Int
          /\ part * PoolUnit \in Int
          /\ (delta + 1) * PoolUnit = delta * PoolUnit + PoolUnit
      <3>1. fraction \in Int /\ PoolUnit \in Int
        BY FixedRange
      <3> QED
        BY <1>2, <1>5, <1>7, <1>8, <3>1
    <2>3. part * PoolUnit < (delta + 1) * PoolUnit
      BY <1>5, <1>13, <2>1, <2>2, FixedRange
    <2>4. part < delta + 1
      BY <1>5, <1>8, <2>3, FixedRange, CancelFactor
    <2> QED
      BY <1>5, <1>8, <2>4
  <1>15. PICK s : s = ry + part
    OBVIOUS
  <1>16. s \in Nat /\ s <= moved
    BY <1>2, <1>5, <1>8, <1>11, <1>14, <1>15
  <1>17. (moved * moved) * PoolUnit <= (k * k) * price
    <2>1. PICK c, d, e : c = moved * PoolUnit /\ d = k * root /\ e = root * root
      OBVIOUS
    <2>2. c \in Nat /\ d \in Nat /\ e \in Nat /\ c <= d /\ e <= price * PoolUnit
      BY <1>9, <1>10, <1>11, <2>1, FixedRange
    <2>3. c * c <= d * d
      BY <2>2, SquareLeq
    <2>4. PICK kk, pu : kk = k * k /\ pu = price * PoolUnit
      OBVIOUS
    <2>5. kk \in Nat /\ pu \in Nat /\ e <= pu
      BY <1>2, <1>10, <2>2, <2>4, FixedRange
    <2>6. e * kk <= pu * kk
      BY <2>2, <2>5, ScaleLeq
    <2>7. /\ c * c = ((moved * moved) * PoolUnit) * PoolUnit
          /\ d * d = e * kk /\ pu * kk = ((k * k) * price) * PoolUnit
      BY <1>2, <1>9, <1>10, <1>11, <2>1, <2>4, FixedRange
    <2>8. PICK l, r : l = (moved * moved) * PoolUnit /\ r = (k * k) * price
      OBVIOUS
    <2>9. /\ l \in Int /\ r \in Int /\ c * c = l * PoolUnit /\ pu * kk = r * PoolUnit
          /\ c * c \in Int /\ d * d \in Int /\ pu * kk \in Int
          /\ (r + 1) * PoolUnit = r * PoolUnit + PoolUnit
      <3>1. moved * moved \in Int /\ k * k \in Int /\ PoolUnit \in Int
        BY <1>10, <1>11, FixedRange
      <3>2. l \in Int /\ r \in Int
        BY <1>2, <2>8, <3>1
      <3>3. c * c \in Int /\ d * d \in Int /\ pu * kk \in Int
        BY <2>2, <2>5
      <3>4. (r + 1) * PoolUnit = r * PoolUnit + PoolUnit
        BY <3>1, <3>2
      <3> QED
        BY <2>7, <2>8, <3>2, <3>3, <3>4
    <2>10. l < r + 1
      <3>1. l * PoolUnit < (r + 1) * PoolUnit
        BY <2>3, <2>6, <2>7, <2>9, FixedRange
      <3> QED
        BY <2>9, <3>1, FixedRange, CancelFactor
    <2> QED
      BY <2>8, <2>9, <2>10
  <1>18. (s * s) * PoolUnit <= (moved * moved) * PoolUnit
    <2>1. s * s <= moved * moved /\ s * s \in Int /\ moved * moved \in Int
      BY <1>11, <1>16, SquareLeq
    <2> QED
      BY <2>1, FixedRange, ScaleLeq
  <1>19. (k * k) * price <= (rx * ry) * price
    <2>1. k * k \in Int /\ rx * ry \in Int
      BY <1>2, <1>10
    <2> QED
      BY <1>2, <1>12, <2>1, ScaleLeq
  <1>20. (s * s) * PoolUnit <= (rx * ry) * price
    <2>1. /\ (s * s) * PoolUnit \in Int /\ (moved * moved) * PoolUnit \in Int
          /\ (k * k) * price \in Int /\ (rx * ry) * price \in Int
      <3>1. s * s \in Int /\ moved * moved \in Int /\ k * k \in Int /\ rx * ry \in Int
        BY <1>2, <1>10, <1>11, <1>16
      <3> QED
        BY <1>2, <3>1, FixedRange
    <2> QED
      BY <1>17, <1>18, <1>19, <2>1
  <1>21. (s * s) * PoolUnit = (ry + part) * (ry + part) * PoolUnit
    BY <1>15
  <1> QED
    BY <1>20, <1>21

\* Buying the base asset for a desired input, the secondary market is never sent more
\* than moves its price to the primary one: all of the roundings are on that side.
THEOREM BuyingStopsAtPrimaryPrice ==
  ASSUME NEW rx \in Reserves, NEW ry \in Reserves, NEW price \in 0 .. FixedMax,
         NEW v \in 1 .. FixedMax, NEW byInput, byInput
  PROVE  LET part == Split!PartOf(v,
                        Split!FractionOfSecondary(Split!Buying, byInput, rx, ry, price, v))
         IN  part > 0 => Split!NotPastPrimary(Split!Buying, byInput, rx, ry, price, part)
  <1>1. PICK delta, raw, fraction, part :
           /\ delta = Split!Delta(Split!Buying, byInput, rx, ry, price)
           /\ raw = Split!FxDiv(delta, v)
           /\ fraction = Split!FractionOfSecondary(Split!Buying, byInput, rx, ry, price, v)
           /\ part = Split!PartOf(v, fraction)
    OBVIOUS
  <1>2. PICK sx, sy, k, root, moved :
           /\ sx = Split!FxSqrt(rx) /\ sy = Split!FxSqrt(ry) /\ k = Split!FxMul(sx, sy)
           /\ root = Split!FxSqrt(price) /\ moved = Split!FxMul(k, root)
    OBVIOUS
  <1>3. delta = Split!FxSub(moved, ry)
    BY <1>1, <1>2 DEF Split!Delta, Split!MultiplyAndSqrt
  <1>4. fraction = 0 \/ fraction = Split!Clamp(raw)
    BY <1>1 DEF Split!FractionOfSecondary
  <1>5. fraction \in 0 .. PoolUnit
    BY <1>1, FractionRange
  <1>6. part > 0 => Split!NotPastPrimary(Split!Buying, byInput, rx, ry, price, part)
    <2> SUFFICES ASSUME part > 0
                 PROVE  Split!NotPastPrimary(Split!Buying, byInput, rx, ry, price, part)
      OBVIOUS
    <2>1. delta = Split!FxSub(moved, ry) /\ raw = Split!FxDiv(delta, v)
      BY <1>1, <1>3
    <2>2. part = Split!PartOf(v, fraction)
      BY <1>1
    <2>3. (ry + part) * (ry + part) * PoolUnit <= rx * ry * price
      BY <1>2, <1>4, <1>5, <2>1, <2>2, BuyingFacts
    <2> QED
      BY <2>3 DEF Split!NotPastPrimary, Split!Buying, Split!Selling
  <1> QED
    BY <1>1, <1>6

-----------------------------------------------------------------------------
(* Where the fast split stops: at the primary price, but for the roundings *)
(* of the roots and of the fraction.                                       *)

\* A common positive factor does not decide an order.
LEMMA CancelLeq ==
  ASSUME NEW l \in Int, NEW r \in Int, NEW c \in Nat, c > 0, l * c <= r * c
  PROVE  l <= r
  <1>1. (r + 1) * c = r * c + c /\ l * c \in Int /\ r * c \in Int
    OBVIOUS
  <1>2. l * c < (r + 1) * c
    BY <1>1
  <1> QED
    BY <1>2, CancelFactor

\* Products of natural numbers keep the order of their factors.
LEMMA ProductLeq ==
  ASSUME NEW l \in Nat, NEW r \in Nat, NEW m \in Nat, NEW n \in Nat, l <= r, m <= n
  PROVE  l * m <= r * n
  <1>1. l * m <= r * m
    BY ScaleLeq
  <1>2. m * r <= n * r
    BY ScaleLeq
  <1>3. m * r = r * m /\ n * r = r * n /\ l * m \in Int /\ r * m \in Int /\ r * n \in Int
    OBVIOUS
  <1> QED
    BY <1>1, <1>2, <1>3

\* The squares of natural numbers are in their strict order.
LEMMA SquareLess ==
  ASSUME NEW l \in Nat, NEW r \in Nat, l < r
  PROVE  l * l < r * r
  <1>1. (l + 1) * (l + 1) <= r * r
    BY SquareLeq
  <1>2. (l + 1) * (l + 1) = l * l + l + l + 1 /\ l * l \in Int /\ r * r \in Int
    OBVIOUS
  <1> QED
    BY <1>1, <1>2

\* A quotient rounded up.
LEMMA RoundedUp ==
  ASSUME NEW n \in Nat, NEW d \in Nat, d > 0, NEW c, c = (n + d - 1) \div d
  PROVE  c \in Nat /\ n <= c * d
  <1>1. n + d - 1 \in Nat
    OBVIOUS
  <1>2. c \in Nat /\ n + d - 1 < (c + 1) * d
    BY <1>1, DivBounds, DivNat
  <1>3. (c + 1) * d = c * d + d /\ c * d \in Int
    BY <1>2
  <1> QED
    BY <1>2, <1>3

\* A product of roots that are not too large bounds a number by the root of a product.
LEMMA BelowRoots ==
  ASSUME NEW m \in Nat, NEW f \in Nat, NEW g \in Nat, NEW n \in Nat, NEW p \in Nat,
         f * f <= n, g * g <= p * PoolUnit
  PROVE  /\ m * PoolUnit <= f * g => m * m * PoolUnit <= n * p
         /\ m * PoolUnit < f * g => m * m * PoolUnit < n * p
  <1>1. PICK c, d, ff, gg, pu, l, r :
           /\ c = m * PoolUnit /\ d = f * g /\ ff = f * f /\ gg = g * g
           /\ pu = p * PoolUnit /\ l = m * m * PoolUnit /\ r = n * p
    OBVIOUS
  <1>2. /\ c \in Nat /\ d \in Nat /\ ff \in Nat /\ gg \in Nat /\ pu \in Nat
        /\ l \in Nat /\ r \in Nat
    <2>1. m * m \in Nat
      OBVIOUS
    <2> QED
      BY <1>1, <2>1, FixedRange
  <1>3. c * c = l * PoolUnit /\ d * d = ff * gg /\ n * pu = r * PoolUnit
    BY <1>1, FixedRange
  <1>4. ff * gg <= n * pu
    BY <1>1, <1>2, ProductLeq
  <1>5. c * c \in Int /\ d * d \in Int /\ r * PoolUnit \in Int /\ l * PoolUnit \in Int
    BY <1>2, FixedRange
  <1>6. ASSUME c <= d PROVE l <= r
    <2>1. c * c <= d * d
      BY <1>2, <1>6, SquareLeq
    <2>2. l * PoolUnit <= r * PoolUnit
      BY <1>3, <1>4, <1>5, <2>1
    <2> QED
      BY <1>2, <2>2, FixedRange, CancelLeq
  <1>7. ASSUME c < d PROVE l < r
    <2>1. c * c < d * d
      BY <1>2, <1>7, SquareLess
    <2>2. l * PoolUnit < r * PoolUnit
      BY <1>3, <1>4, <1>5, <2>1
    <2> QED
      BY <1>2, <2>2, FixedRange, CancelFactor
  <1> QED
    BY <1>1, <1>6, <1>7

\* A product of roots that are not too small is bounded by the root of a product.
LEMMA AboveRoots ==
  ASSUME NEW m \in Nat, NEW f \in Nat, NEW g \in Nat, NEW n \in Nat, NEW p \in Nat,
         n <= f * f, p * PoolUnit <= g * g
  PROVE  /\ f * g <= m * PoolUnit => n * p <= m * m * PoolUnit
         /\ f * g < m * PoolUnit => n * p < m * m * PoolUnit
  <1>1. PICK c, d, ff, gg, pu, l, r :
           /\ c = m * PoolUnit /\ d = f * g /\ ff = f * f /\ gg = g * g
           /\ pu = p * PoolUnit /\ l = m * m * PoolUnit /\ r = n * p
    OBVIOUS
  <1>2. /\ c \in Nat /\ d \in Nat /\ ff \in Nat /\ gg \in Nat /\ pu \in Nat
        /\ l \in Nat /\ r \in Nat
    <2>1. m * m \in Nat
      OBVIOUS
    <2> QED
      BY <1>1, <2>1, FixedRange
  <1>3. c * c = l * PoolUnit /\ d * d = ff * gg /\ n * pu = r * PoolUnit
    BY <1>1, FixedRange
  <1>4. n * pu <= ff * gg
    BY <1>1, <1>2, ProductLeq
  <1>5. c * c \in Int /\ d * d \in Int /\ r * PoolUnit \in Int /\ l * PoolUnit \in Int
    BY <1>2, FixedRange
  <1>6. ASSUME d <= c PROVE r <= l
    <2>1. d * d <= c * c
      BY <1>2, <1>6, SquareLeq
    <2>2. r * PoolUnit <= l * PoolUnit
      BY <1>3, <1>4, <1>5, <2>1
    <2> QED
      BY <1>2, <2>2, FixedRange, CancelLeq
  <1>7. ASSUME d < c PROVE r < l
    <2>1. d * d < c * c
      BY <1>2, <1>7, SquareLess
    <2>2. r * PoolUnit < l * PoolUnit
      BY <1>3, <1>4, <1>5, <2>1
    <2> QED
      BY <1>2, <2>2, FixedRange, CancelFactor
  <1> QED
    BY <1>1, <1>6, <1>7

\* A ratio of roots bounds a number by the root of a ratio, from above ...
LEMMA BelowRatio ==
  ASSUME NEW m \in Nat, NEW f \in Nat, NEW g \in Nat, NEW n \in Nat, NEW p \in Nat,
         f * f <= n, p * PoolUnit <= g * g
  PROVE  /\ m * g <= f * PoolUnit => p * m * m <= n * PoolUnit
         /\ m * g < f * PoolUnit => p * m * m < n * PoolUnit
  <1>1. PICK c, d, mm, ff, gg, pu, l, r :
           /\ c = m * g /\ d = f * PoolUnit /\ mm = m * m /\ ff = f * f /\ gg = g * g
           /\ pu = p * PoolUnit /\ l = p * m * m /\ r = n * PoolUnit
    OBVIOUS
  <1>2. PICK e : e = PoolUnit * PoolUnit
    OBVIOUS
  <1>3. /\ c \in Nat /\ d \in Nat /\ mm \in Nat /\ ff \in Nat /\ gg \in Nat /\ pu \in Nat
        /\ l \in Nat /\ r \in Nat /\ e \in Nat
    <2>1. m * m \in Nat /\ p * m \in Nat
      OBVIOUS
    <2> QED
      BY <1>1, <1>2, <2>1, FixedRange
  <1>4. c * c = gg * mm /\ pu * mm = l * PoolUnit /\ d * d = ff * e /\ n * e = r * PoolUnit
    BY <1>1, <1>2, FixedRange
  <1>5. pu * mm <= gg * mm /\ ff * e <= n * e
    BY <1>1, <1>3, ScaleLeq
  <1>6. c * c \in Int /\ d * d \in Int /\ r * PoolUnit \in Int /\ l * PoolUnit \in Int
    BY <1>3, FixedRange
  <1>7. ASSUME c <= d PROVE l <= r
    <2>1. c * c <= d * d
      BY <1>3, <1>7, SquareLeq
    <2>2. l * PoolUnit <= r * PoolUnit
      BY <1>4, <1>5, <1>6, <2>1
    <2> QED
      BY <1>3, <2>2, FixedRange, CancelLeq
  <1>8. ASSUME c < d PROVE l < r
    <2>1. c * c < d * d
      BY <1>3, <1>8, SquareLess
    <2>2. l * PoolUnit < r * PoolUnit
      BY <1>4, <1>5, <1>6, <2>1
    <2> QED
      BY <1>3, <2>2, FixedRange, CancelFactor
  <1> QED
    BY <1>1, <1>7, <1>8

\* ... and from below.
LEMMA AboveRatio ==
  ASSUME NEW m \in Nat, NEW f \in Nat, NEW g \in Nat, NEW n \in Nat, NEW p \in Nat,
         n <= f * f, g * g <= p * PoolUnit
  PROVE  /\ f * PoolUnit <= m * g => n * PoolUnit <= p * m * m
         /\ f * PoolUnit < m * g => n * PoolUnit < p * m * m
  <1>1. PICK c, d, mm, ff, gg, pu, l, r :
           /\ c = m * g /\ d = f * PoolUnit /\ mm = m * m /\ ff = f * f /\ gg = g * g
           /\ pu = p * PoolUnit /\ l = p * m * m /\ r = n * PoolUnit
    OBVIOUS
  <1>2. PICK e : e = PoolUnit * PoolUnit
    OBVIOUS
  <1>3. /\ c \in Nat /\ d \in Nat /\ mm \in Nat /\ ff \in Nat /\ gg \in Nat /\ pu \in Nat
        /\ l \in Nat /\ r \in Nat /\ e \in Nat
    <2>1. m * m \in Nat /\ p * m \in Nat
      OBVIOUS
    <2> QED
      BY <1>1, <1>2, <2>1, FixedRange
  <1>4. c * c = gg * mm /\ pu * mm = l * PoolUnit /\ d * d = ff * e /\ n * e = r * PoolUnit
    BY <1>1, <1>2, FixedRange
  <1>5. gg * mm <= pu * mm /\ n * e <= ff * e
    BY <1>1, <1>3, ScaleLeq
  <1>6. c * c \in Int /\ d * d \in Int /\ r * PoolUnit \in Int /\ l * PoolUnit \in Int
    BY <1>3, FixedRange
  <1>7. ASSUME d <= c PROVE r <= l
    <2>1. d * d <= c * c
      BY <1>3, <1>7, SquareLeq
    <2>2. r * PoolUnit <= l * PoolUnit
      BY <1>4, <1>5, <1>6, <2>1
    <2> QED
      BY <1>3, <2>2, FixedRange, CancelLeq
  <1>8. ASSUME d < c PROVE r < l
    <2>1. d * d < c * c
      BY <1>3, <1>8, SquareLess
    <2>2. r * PoolUnit < l * PoolUnit
      BY <1>4, <1>5, <1>6, <2>1
    <2> QED
      BY <1>3, <2>2, FixedRange, CancelFactor
  <1> QED
    BY <1>1, <1>7, <1>8

\* The bound on the root of the price is one: the price is not above its square, and
\* the root of a price that is not zero is not zero.
LEMMA PriceRootIsAbove ==
  ASSUME NEW price \in Nat, price > 0, NEW root, root = Split!FxSqrt(price),
         NEW ru, ru = Split!PriceRootAbove(price)
  PROVE  /\ root \in Nat /\ root > 0 /\ root * root <= price * PoolUnit
         /\ ru \in Nat /\ root <= ru /\ price * PoolUnit <= ru * ru
  <1>1. PICK n : n = price * PoolUnit
    OBVIOUS
  <1>2. root \in Nat /\ root * root <= n /\ n < (root + 1) * (root + 1)
    BY <1>1, SplitRootBounds
  <1>3. n \in Nat /\ n > 0
    BY <1>1, FixedRange
  <1>4. root > 0
    <2> SUFFICES ASSUME root = 0 PROVE FALSE
      BY <1>2
    <2>1. (root + 1) * (root + 1) = 1
      OBVIOUS
    <2> QED
      BY <1>2, <1>3, <2>1
  <1>5. ru = IF root * root = n THEN root ELSE root + 1
    BY <1>1 DEF Split!PriceRootAbove
  <1>6. CASE root * root = n
    BY <1>1, <1>2, <1>3, <1>4, <1>5, <1>6
  <1>7. CASE root * root # n
    <2>1. ru = root + 1
      BY <1>5, <1>7
    <2>2. ru \in Nat /\ root <= ru /\ n < ru * ru /\ ru * ru \in Int
      BY <1>2, <2>1
    <2> QED
      BY <1>1, <1>2, <1>3, <1>4, <2>2
  <1> QED
    BY <1>6, <1>7

\* The bound on the root of the product of the reserves is one: the roundings of the
\* two roots and of their product are worth no more than what it adds.
LEMMA RootIsAbove ==
  ASSUME NEW rx \in Nat, NEW ry \in Nat, NEW k, k = Split!MultiplyAndSqrt(rx, ry), k # Err,
         NEW ku, ku = Split!RootAbove(rx, ry)
  PROVE  /\ k \in Nat /\ k * k <= rx * ry
         /\ ku \in Nat /\ k <= ku /\ rx * ry <= ku * ku
  <1>1. PICK sx, sy : sx = Split!FxSqrt(rx) /\ sy = Split!FxSqrt(ry)
    OBVIOUS
  <1>2. /\ sx \in Nat /\ sx * sx <= rx * PoolUnit /\ rx * PoolUnit < (sx + 1) * (sx + 1)
        /\ sy \in Nat /\ sy * sy <= ry * PoolUnit /\ ry * PoolUnit < (sy + 1) * (sy + 1)
    BY <1>1, SplitRootBounds
  <1>3. k = Mock!FxMul(sx, sy)
    BY <1>1, SameSplitArithmetic DEF Split!MultiplyAndSqrt
  <1>4. k \in Nat /\ k * PoolUnit <= sx * sy /\ sx * sy < (k + 1) * PoolUnit
    BY <1>2, <1>3, ProductFacts
  <1>5. k * k <= rx * ry
    BY <1>2, <1>4, RootProduct
  <1>6. PICK d, z, n : /\ z = sx + sy /\ d = z \div PoolUnit /\ n = rx * ry
    OBVIOUS
  <1>7. z \in Nat /\ n \in Nat /\ d \in Nat /\ z < (d + 1) * PoolUnit
    <2>1. z \in Nat /\ n \in Nat
      BY <1>2, <1>6
    <2> QED
      BY <1>6, <2>1, FixedRange, DivBounds, DivNat
  <1>8. ku = IF k * k = n THEN k ELSE k + 2 + d
    BY <1>1, <1>6 DEF Split!RootAbove
  <1>9. CASE k * k = n
    BY <1>4, <1>5, <1>6, <1>7, <1>8, <1>9
  <1>10. CASE k * k # n
    <2>1. ku = k + 2 + d /\ ku \in Nat /\ k <= ku
      BY <1>4, <1>7, <1>8, <1>10
    <2>2. PICK f, g, p, q, m : /\ f = sx + 1 /\ g = sy + 1 /\ m = ku * PoolUnit
                               /\ p = rx * PoolUnit /\ q = ry * PoolUnit
      OBVIOUS
    <2>3. f \in Nat /\ g \in Nat /\ p \in Nat /\ q \in Nat /\ m \in Nat
      BY <1>2, <2>1, <2>2, FixedRange
    <2>4. f * g <= m
      <3>1. f * g = sx * sy + z + 1 /\ sx * sy \in Int
        BY <1>2, <1>6, <2>2
      <3>2. /\ m = (k + 1) * PoolUnit + (d + 1) * PoolUnit
            /\ (k + 1) * PoolUnit \in Int /\ (d + 1) * PoolUnit \in Int
        BY <1>4, <1>7, <2>1, <2>2, FixedRange
      <3> QED
        BY <1>4, <1>7, <3>1, <3>2
    <2>5. p * q <= (f * f) * (g * g)
      <3>1. PICK ff, gg : ff = f * f /\ gg = g * g
        OBVIOUS
      <3>2. ff \in Nat /\ gg \in Nat /\ p <= ff /\ q <= gg
        BY <1>2, <2>2, <2>3, <3>1
      <3> QED
        BY <2>3, <3>1, <3>2, ProductLeq
    <2>6. (f * g) * (f * g) <= m * m /\ (f * g) * (f * g) = (f * f) * (g * g)
      <3>1. f * g \in Nat
        BY <2>3
      <3>2. (f * g) * (f * g) = (f * f) * (g * g)
        BY <2>3
      <3> QED
        BY <2>3, <2>4, <3>1, <3>2, SquareLeq
    <2>7. PICK e, kk : e = PoolUnit * PoolUnit /\ kk = ku * ku
      OBVIOUS
    <2>8. e \in Nat /\ e > 0 /\ kk \in Nat
      BY <2>1, <2>7, FixedRange
    <2>9. p * q = n * e /\ m * m = kk * e
      BY <1>6, <2>1, <2>2, <2>7, FixedRange
    <2>10. n * e <= kk * e
      <3>1. p * q \in Int /\ m * m \in Int /\ (f * g) * (f * g) \in Int
        BY <2>3
      <3> QED
        BY <2>5, <2>6, <2>9, <3>1
    <2>11. n <= kk
      BY <1>7, <2>8, <2>10, CancelLeq
    <2> QED
      BY <1>4, <1>5, <1>6, <2>1, <2>7, <2>11
  <1> QED
    BY <1>9, <1>10

\* The part of a delta: no more of it, and less only by the roundings of the fraction,
\* unless it is the whole amount.
Follows(part, delta, v) ==
  /\ part \in Nat
  /\ part > 0 => part <= delta
  /\ part = v \/ part >= delta - 1 - v \div PoolUnit

LEMMA PartFollowsDelta ==
  ASSUME NEW v \in 1 .. FixedMax, NEW delta \in Int,
         NEW raw, raw = Split!FxDiv(delta, v), raw # Err
  PROVE  Follows(Split!PartOf(v, Split!Clamp(raw)), delta, v)
  <1>1. PICK c, f, part, d : /\ c = delta * PoolUnit /\ f = Split!Clamp(raw)
                             /\ part = Split!PartOf(v, f) /\ d = v \div PoolUnit
    OBVIOUS
  <1>2. v \in Nat /\ v > 0 /\ c \in Int
    BY <1>1, FixedRange
  <1>3. d \in Nat /\ v < (d + 1) * PoolUnit
    BY <1>1, <1>2, FixedRange, DivBounds, DivNat
  <1>4. raw \in Int /\ raw * v <= c /\ c < (raw + 1) * v
    <2>1. raw = c \div v
      <3>1. raw = Mock!FxDiv(delta, v)
        BY SameSplitArithmetic
      <3> QED
        BY <1>1, <1>2, <3>1, Exact
    <2> QED
      BY <1>2, <2>1, DivBounds
  <1>5. f = IF raw < 0 THEN 0 ELSE IF raw > PoolUnit THEN PoolUnit ELSE raw
    BY <1>1 DEF Split!Clamp
  <1>6. f \in 0 .. PoolUnit
    BY <1>4, <1>5, FixedRange
  <1>7. /\ part \in Nat /\ part <= v
        /\ part * PoolUnit <= v * f /\ v * f < (part + 1) * PoolUnit
    BY <1>1, <1>6, FractionFacts
  <1>8. CASE raw < 0
    <2>1. f = 0 /\ v * f = 0
      BY <1>2, <1>5, <1>8
    <2>2. part = 0
      <3>1. part * PoolUnit <= 0 * PoolUnit
        BY <1>7, <2>1, FixedRange
      <3>2. part <= 0
        BY <1>7, <3>1, FixedRange, CancelLeq
      <3> QED
        BY <1>7, <3>2
    <2>3. delta < 0
      <3>1. (raw + 1) * v <= 0 * v
        BY <1>2, <1>4, <1>8, ScaleLeq
      <3>2. (raw + 1) * v \in Int
        BY <1>2, <1>4
      <3>3. c < 0
        BY <1>2, <1>4, <3>1, <3>2
      <3>4. delta * PoolUnit < 0 * PoolUnit
        BY <1>1, <3>3, FixedRange
      <3> QED
        BY <3>4, FixedRange, CancelFactor
    <2> QED
      BY <1>1, <1>3, <2>2, <2>3 DEF Follows
  <1>9. CASE raw >= 0
    <2>1. f <= raw /\ f \in Nat
      BY <1>4, <1>5, <1>6, <1>9, FixedRange
    <2>2. part <= delta
      <3>1. f * v <= raw * v
        BY <1>2, <1>4, <2>1, ScaleLeq
      <3>2. v * f = f * v /\ f * v \in Int /\ raw * v \in Int /\ part * PoolUnit \in Int
        BY <1>2, <1>4, <1>7, <2>1, FixedRange
      <3>3. part * PoolUnit <= delta * PoolUnit
        BY <1>1, <1>2, <1>4, <1>7, <3>1, <3>2
      <3> QED
        BY <1>7, <3>3, FixedRange, CancelLeq
    <2>3. CASE raw > PoolUnit
      <3>1. f = PoolUnit
        BY <1>4, <1>5, <1>9, <2>3, FixedRange
      <3>2. v * PoolUnit < (part + 1) * PoolUnit
        BY <1>7, <3>1
      <3>3. v < part + 1
        BY <1>2, <1>7, <3>2, FixedRange, CancelFactor
      <3>4. part = v
        BY <1>2, <1>7, <3>3
      <3> QED
        BY <1>1, <1>7, <2>2, <3>4 DEF Follows
    <2>4. CASE raw <= PoolUnit
      <3>1. f = raw
        BY <1>4, <1>5, <1>9, <2>4, FixedRange
      <3>2. /\ (raw + 1) * v = v * f + v /\ v * f \in Int
            /\ (part + 2 + d) * PoolUnit = (part + 1) * PoolUnit + (d + 1) * PoolUnit
            /\ (part + 1) * PoolUnit \in Int /\ (d + 1) * PoolUnit \in Int
        BY <1>2, <1>3, <1>4, <1>7, <3>1, FixedRange
      <3>3. delta * PoolUnit < (part + 2 + d) * PoolUnit
        BY <1>1, <1>2, <1>3, <1>4, <1>7, <3>2
      <3>4. delta < part + 2 + d
        BY <1>3, <1>7, <3>3, FixedRange, CancelFactor
      <3>5. part >= delta - 1 - d
        BY <1>3, <1>7, <3>4
      <3> QED
        BY <1>1, <1>7, <2>2, <3>5 DEF Follows
    <2> QED
      BY <1>4, <2>3, <2>4, FixedRange
  <1> QED
    BY <1>4, <1>8, <1>9

\* The roots of a product n and of a price, each between what the code has and a bound.
RootsOf(n, price, k, ku, root, ru) ==
  /\ k \in Nat /\ k * k <= n
  /\ ku \in Nat /\ k <= ku /\ n <= ku * ku
  /\ root \in Nat /\ root > 0 /\ root * root <= price * PoolUnit
  /\ ru \in Nat /\ root <= ru /\ price * PoolUnit <= ru * ru

\* The products of a price compared with those of a reserve of m: the collateral at m is
\* too little for the primary price below low, and too much above high ...
CollateralBetween(n, price, low, high) ==
  \A m \in Nat : /\ m <= low => m * m * PoolUnit <= n * price
                 /\ m < low => m * m * PoolUnit < n * price
                 /\ m >= high => n * price <= m * m * PoolUnit
                 /\ m > high => n * price < m * m * PoolUnit

\* ... and so is the base asset.
BaseBetween(n, price, low, high) ==
  \A m \in Nat : /\ m <= low => price * m * m <= n * PoolUnit
                 /\ m < low => price * m * m < n * PoolUnit
                 /\ m >= high => n * PoolUnit <= price * m * m
                 /\ m > high => n * PoolUnit < price * m * m

\* The reserve of collateral at which the prices are equal is between the products of
\* the lower roots, which the code computes, and of the upper ones.
LEMMA CollateralAtPrice ==
  ASSUME NEW n \in Nat, NEW price \in Nat, n > 0, price > 0,
         NEW k, NEW ku, NEW root, NEW ru, RootsOf(n, price, k, ku, root, ru),
         NEW low, NEW high, low = (k * root) \div PoolUnit,
         high = (ku * ru + PoolUnit - 1) \div PoolUnit
  PROVE  /\ low \in Nat /\ high \in Nat /\ low <= high /\ high > 0
         /\ CollateralBetween(n, price, low, high)
  <1>1. /\ k \in Nat /\ k * k <= n /\ ku \in Nat /\ k <= ku /\ n <= ku * ku
        /\ root \in Nat /\ root > 0 /\ root * root <= price * PoolUnit
        /\ ru \in Nat /\ root <= ru /\ price * PoolUnit <= ru * ru
    BY DEF RootsOf
  <1>2. PICK c, d : c = k * root /\ d = ku * ru
    OBVIOUS
  <1>3. c \in Nat /\ d \in Nat /\ c <= d
    BY <1>1, <1>2, ProductLeq
  <1>4. low \in Nat /\ low * PoolUnit <= c
    BY <1>2, <1>3, FixedRange, DivBounds, DivNat
  <1>5. high \in Nat /\ d <= high * PoolUnit
    BY <1>2, <1>3, FixedRange, RoundedUp
  <1>6. low <= high
    <2>1. low * PoolUnit <= high * PoolUnit
      BY <1>3, <1>4, <1>5, FixedRange
    <2> QED
      BY <1>4, <1>5, <2>1, FixedRange, CancelLeq
  <1>7. high > 0
    <2>1. ku > 0
      <3> SUFFICES ASSUME ku = 0 PROVE FALSE
        BY <1>1
      <3>1. ku * ku = 0
        OBVIOUS
      <3> QED
        BY <1>1, <3>1
    <2>2. d > 0
      <3>1. 0 * ru < ku * ru
        BY <1>1, <2>1, ScaleLess
      <3> QED
        BY <1>1, <1>2, <3>1
    <2>3. high = 0 => high * PoolUnit = 0
      BY FixedRange
    <2> QED
      BY <1>3, <1>5, <2>2, <2>3
  <1>8. ASSUME NEW m \in Nat
        PROVE  /\ m <= low => m * m * PoolUnit <= n * price
               /\ m < low => m * m * PoolUnit < n * price
               /\ m >= high => n * price <= m * m * PoolUnit
               /\ m > high => n * price < m * m * PoolUnit
    <2>1. m * PoolUnit \in Int /\ low * PoolUnit \in Int /\ high * PoolUnit \in Int
      BY <1>4, <1>5, FixedRange
    <2>2. ASSUME m <= low PROVE m * m * PoolUnit <= n * price
      <3>1. m * PoolUnit <= low * PoolUnit
        BY <1>4, <2>2, FixedRange, ScaleLeq
      <3>2. m * PoolUnit <= k * root
        BY <1>2, <1>3, <1>4, <2>1, <3>1
      <3> QED
        BY <1>1, <3>2, BelowRoots
    <2>3. ASSUME m < low PROVE m * m * PoolUnit < n * price
      <3>1. m * PoolUnit < low * PoolUnit
        BY <1>4, <2>3, FixedRange, ScaleLess
      <3>2. m * PoolUnit < k * root
        BY <1>2, <1>3, <1>4, <2>1, <3>1
      <3> QED
        BY <1>1, <3>2, BelowRoots
    <2>4. ASSUME m >= high PROVE n * price <= m * m * PoolUnit
      <3>1. high * PoolUnit <= m * PoolUnit
        BY <1>5, <2>4, FixedRange, ScaleLeq
      <3>2. ku * ru <= m * PoolUnit
        BY <1>2, <1>3, <1>5, <2>1, <3>1
      <3> QED
        BY <1>1, <3>2, AboveRoots
    <2>5. ASSUME m > high PROVE n * price < m * m * PoolUnit
      <3>1. high * PoolUnit < m * PoolUnit
        BY <1>5, <2>5, FixedRange, ScaleLess
      <3>2. ku * ru < m * PoolUnit
        BY <1>2, <1>3, <1>5, <2>1, <3>1
      <3> QED
        BY <1>1, <3>2, AboveRoots
    <2> QED
      BY <2>2, <2>3, <2>4, <2>5
  <1> QED
    BY <1>4, <1>5, <1>6, <1>7, <1>8 DEF CollateralBetween

\* The reserve of the base asset at which the prices are equal is between a lower root
\* over an upper one and an upper one over a lower one; the code's is between them too.
LEMMA BaseAtPrice ==
  ASSUME NEW n \in Nat, NEW price \in Nat, n > 0, price > 0,
         NEW k, NEW ku, NEW root, NEW ru, RootsOf(n, price, k, ku, root, ru),
         NEW low, NEW moved, NEW high, low = (k * PoolUnit) \div ru,
         moved = (k * PoolUnit) \div root,
         high = (ku * PoolUnit + root - 1) \div root
  PROVE  /\ low \in Nat /\ moved \in Nat /\ high \in Nat
         /\ low <= moved /\ moved <= high /\ high > 0
         /\ BaseBetween(n, price, low, high)
  <1>1. /\ k \in Nat /\ k * k <= n /\ ku \in Nat /\ k <= ku /\ n <= ku * ku
        /\ root \in Nat /\ root > 0 /\ root * root <= price * PoolUnit
        /\ ru \in Nat /\ root <= ru /\ price * PoolUnit <= ru * ru
    BY DEF RootsOf
  <1>2. PICK c, d : c = k * PoolUnit /\ d = ku * PoolUnit
    OBVIOUS
  <1>3. c \in Nat /\ d \in Nat /\ c <= d
    BY <1>1, <1>2, FixedRange, ScaleLeq
  <1>4. low \in Nat /\ low * ru <= c
    BY <1>1, <1>2, <1>3, DivBounds, DivNat
  <1>5. moved \in Nat /\ moved * root <= c /\ c < (moved + 1) * root
    BY <1>1, <1>2, <1>3, DivBounds, DivNat
  <1>6. high \in Nat /\ d <= high * root
    BY <1>1, <1>2, <1>3, RoundedUp
  <1>7. low <= moved
    <2>1. root * low <= ru * low
      BY <1>1, <1>4, ScaleLeq
    <2>2. /\ root * low = low * root /\ ru * low = low * ru
          /\ low * root \in Int /\ low * ru \in Int
      BY <1>1, <1>4
    <2>3. low * root < (moved + 1) * root
      <3>1. (moved + 1) * root \in Int
        BY <1>1, <1>5
      <3> QED
        BY <1>3, <1>4, <1>5, <2>1, <2>2, <3>1
    <2>4. low < moved + 1
      BY <1>1, <1>4, <1>5, <2>3, CancelFactor
    <2> QED
      BY <1>4, <1>5, <2>4
  <1>8. moved <= high
    <2>1. moved * root <= high * root
      <3>1. moved * root \in Int /\ high * root \in Int
        BY <1>1, <1>5, <1>6
      <3> QED
        BY <1>3, <1>5, <1>6, <3>1
    <2> QED
      BY <1>1, <1>5, <1>6, <2>1, CancelLeq
  <1>9. high > 0
    <2>1. ku > 0
      <3> SUFFICES ASSUME ku = 0 PROVE FALSE
        BY <1>1
      <3>1. ku * ku = 0
        OBVIOUS
      <3> QED
        BY <1>1, <3>1
    <2>2. d > 0
      <3>1. 0 * PoolUnit < ku * PoolUnit
        BY <1>1, <2>1, FixedRange, ScaleLess
      <3> QED
        BY <1>2, <3>1, FixedRange
    <2>3. high = 0 => high * root = 0
      BY <1>1
    <2> QED
      BY <1>3, <1>6, <2>2, <2>3
  <1>10. ASSUME NEW m \in Nat
         PROVE  /\ m <= low => price * m * m <= n * PoolUnit
                /\ m < low => price * m * m < n * PoolUnit
                /\ m >= high => n * PoolUnit <= price * m * m
                /\ m > high => n * PoolUnit < price * m * m
    <2>1. m * ru \in Int /\ low * ru \in Int /\ m * root \in Int /\ high * root \in Int
      BY <1>1, <1>4, <1>6
    <2>2. ASSUME m <= low PROVE price * m * m <= n * PoolUnit
      <3>1. m * ru <= low * ru
        BY <1>1, <1>4, <2>2, ScaleLeq
      <3>2. m * ru <= k * PoolUnit
        BY <1>2, <1>3, <1>4, <2>1, <3>1
      <3> QED
        BY <1>1, <3>2, BelowRatio
    <2>3. ASSUME m < low PROVE price * m * m < n * PoolUnit
      <3>1. m * ru < low * ru
        BY <1>1, <1>4, <2>3, ScaleLess
      <3>2. m * ru < k * PoolUnit
        BY <1>2, <1>3, <1>4, <2>1, <3>1
      <3> QED
        BY <1>1, <3>2, BelowRatio
    <2>4. ASSUME m >= high PROVE n * PoolUnit <= price * m * m
      <3>1. high * root <= m * root
        BY <1>1, <1>6, <2>4, ScaleLeq
      <3>2. ku * PoolUnit <= m * root
        BY <1>2, <1>3, <1>6, <2>1, <3>1
      <3> QED
        BY <1>1, <3>2, AboveRatio
    <2>5. ASSUME m > high PROVE n * PoolUnit < price * m * m
      <3>1. high * root < m * root
        BY <1>1, <1>6, <2>5, ScaleLess
      <3>2. ku * PoolUnit < m * root
        BY <1>2, <1>3, <1>6, <2>1, <3>1
      <3> QED
        BY <1>1, <3>2, AboveRatio
    <2> QED
      BY <2>2, <2>3, <2>4, <2>5
  <1> QED
    BY <1>4, <1>5, <1>6, <1>7, <1>8, <1>9, <1>10 DEF BaseBetween

\* The numbers of a trade: the part less the spread of the roots, and a little more.
PartOfTrade(n, price, reserve, v, low, moved, high, part, less, more) ==
  /\ n \in Nat /\ price \in Nat /\ reserve \in Nat /\ v \in Nat
  /\ low \in Nat /\ moved \in Nat /\ high \in Nat /\ part \in Nat
  /\ low <= moved /\ moved <= high /\ high > 0
  /\ less = part - (high - low) /\ more = part + (high - low) + 2 + v \div PoolUnit

\* Buying by input: the part is taken in as collateral.
LEMMA CollateralTaken ==
  ASSUME NEW n, NEW price, NEW reserve, NEW v, NEW low, NEW moved, NEW high,
         NEW part, NEW less, NEW more,
         PartOfTrade(n, price, reserve, v, low, moved, high, part, less, more),
         CollateralBetween(n, price, low, high), Follows(part, moved - reserve, v)
  PROVE  /\ part > high - low
              => (reserve + less) * (reserve + less) * PoolUnit <= n * price
         /\ more <= v
              => ~((reserve + more) * (reserve + more) * PoolUnit <= n * price)
  <1> USE DEF PartOfTrade
  <1>1. ASSUME NEW m \in Nat
        PROVE  m * m * PoolUnit \in Int /\ n * price \in Int
    <2>1. m * m \in Nat /\ price * m \in Nat
      OBVIOUS
    <2> QED
      BY <2>1, FixedRange
  <1>2. /\ part > high - low => reserve + less \in Nat /\ reserve + less <= low
        /\ more <= v => reserve + more \in Nat /\ reserve + more > high
    <2>1. PICK d : d = v \div PoolUnit
      OBVIOUS
    <2>2. d \in Nat /\ more = part + (high - low) + 2 + d
      BY <2>1, FixedRange, DivNat
    <2>3. /\ part \in Nat /\ (part > 0 => part <= moved - reserve)
          /\ part = v \/ part >= (moved - reserve) - 1 - d
      BY <2>1 DEF Follows
    <2> QED
      BY <2>2, <2>3
  <1>3. ASSUME part > high - low
        PROVE  (reserve + less) * (reserve + less) * PoolUnit <= n * price
    <2>1. PICK m : m = reserve + less
      OBVIOUS
    <2>2. m \in Nat /\ m <= low
      BY <1>2, <1>3, <2>1
    <2>3. m * m * PoolUnit <= n * price
      BY <2>2 DEF CollateralBetween
    <2>4. m * m * PoolUnit <= n * price
      BY <1>1, <2>2, <2>3
    <2> QED
      BY <2>1, <2>4
  <1>4. ASSUME more <= v
        PROVE  ~((reserve + more) * (reserve + more) * PoolUnit <= n * price)
    <2>1. PICK m : m = reserve + more
      OBVIOUS
    <2>2. m \in Nat /\ m > high
      BY <1>2, <1>4, <2>1
    <2>3. n * price < m * m * PoolUnit
      BY <2>2 DEF CollateralBetween
    <2>4. ~(m * m * PoolUnit <= n * price)
      <3>1. m * m * PoolUnit \in Int /\ n * price \in Int
        BY <1>1, <2>2
      <3> QED
        BY <2>3, <3>1
    <2> QED
      BY <2>1, <2>4
  <1> QED
    BY <1>3, <1>4

\* Selling by output: the part is given as collateral.
LEMMA CollateralGiven ==
  ASSUME NEW n, NEW price, NEW reserve, NEW v, NEW low, NEW moved, NEW high,
         NEW part, NEW less, NEW more,
         PartOfTrade(n, price, reserve, v, low, moved, high, part, less, more),
         CollateralBetween(n, price, low, high), Follows(part, reserve - moved, v)
  PROVE  /\ part > high - low
              => less < reserve /\ (reserve - less) * (reserve - less) * PoolUnit >= n * price
         /\ more <= v
              => ~(more < reserve /\ (reserve - more) * (reserve - more) * PoolUnit >= n * price)
  <1> USE DEF PartOfTrade
  <1>1. ASSUME NEW m \in Nat
        PROVE  m * m * PoolUnit \in Int /\ n * price \in Int
    <2>1. m * m \in Nat /\ price * m \in Nat
      OBVIOUS
    <2> QED
      BY <2>1, FixedRange
  <1>2. /\ part > high - low => reserve - less \in Nat /\ reserve - less >= high
        /\ more <= v => reserve - more \in Int /\ reserve - more < low
    <2>1. PICK d : d = v \div PoolUnit
      OBVIOUS
    <2>2. d \in Nat /\ more = part + (high - low) + 2 + d
      BY <2>1, FixedRange, DivNat
    <2>3. /\ part \in Nat /\ (part > 0 => part <= reserve - moved)
          /\ part = v \/ part >= (reserve - moved) - 1 - d
      BY <2>1 DEF Follows
    <2> QED
      BY <2>2, <2>3
  <1>3. ASSUME part > high - low
        PROVE  less < reserve /\ (reserve - less) * (reserve - less) * PoolUnit >= n * price
    <2>1. PICK m : m = reserve - less
      OBVIOUS
    <2>2. m \in Nat /\ m >= high
      BY <1>2, <1>3, <2>1
    <2>3. n * price <= m * m * PoolUnit
      BY <2>2 DEF CollateralBetween
    <2>4. less < reserve
      <3>1. part \in Nat
        BY DEF Follows
      <3> QED
        BY <2>1, <2>2, <3>1
    <2> QED
      BY <2>1, <2>3, <2>4
  <1>4. ASSUME more <= v
        PROVE  ~(more < reserve /\ (reserve - more) * (reserve - more) * PoolUnit >= n * price)
    <2>1. PICK m : m = reserve - more
      OBVIOUS
    <2>2. m \in Int /\ m < low
      BY <1>2, <1>4, <2>1
    <2>3. more \in Int
      <3>1. v \div PoolUnit \in Nat /\ part \in Nat
        BY FixedRange, DivNat DEF Follows
      <3> QED
        BY <3>1
    <2>4. CASE m <= 0
      <3>1. ~(more < reserve)
        BY <2>1, <2>3, <2>4
      <3> QED
        BY <3>1
    <2>5. CASE m > 0
      <3>1. m \in Nat /\ m < low
        BY <2>2, <2>5
      <3>2. m * m * PoolUnit < n * price
        BY <3>1 DEF CollateralBetween
      <3>3. ~(n * price <= m * m * PoolUnit)
        BY <1>1, <3>1, <3>2
      <3> QED
        BY <2>1, <3>3
    <2> QED
      BY <2>2, <2>4, <2>5
  <1> QED
    BY <1>3, <1>4

\* Buying by output: the part is given in the base asset.
LEMMA BaseGiven ==
  ASSUME NEW n, NEW price, NEW reserve, NEW v, NEW low, NEW moved, NEW high,
         NEW part, NEW less, NEW more,
         PartOfTrade(n, price, reserve, v, low, moved, high, part, less, more),
         BaseBetween(n, price, low, high), Follows(part, reserve - moved, v)
  PROVE  /\ part > high - low
              => less < reserve /\ n * PoolUnit <= price * (reserve - less) * (reserve - less)
         /\ more <= v
              => ~(more < reserve /\ n * PoolUnit <= price * (reserve - more) * (reserve - more))
  <1> USE DEF PartOfTrade
  <1>1. ASSUME NEW m \in Nat
        PROVE  price * m * m \in Int /\ n * PoolUnit \in Int
    <2>1. m * m \in Nat /\ price * m \in Nat
      OBVIOUS
    <2> QED
      BY <2>1, FixedRange
  <1>2. /\ part > high - low => reserve - less \in Nat /\ reserve - less >= high
        /\ more <= v => reserve - more \in Int /\ reserve - more < low
    <2>1. PICK d : d = v \div PoolUnit
      OBVIOUS
    <2>2. d \in Nat /\ more = part + (high - low) + 2 + d
      BY <2>1, FixedRange, DivNat
    <2>3. /\ part \in Nat /\ (part > 0 => part <= reserve - moved)
          /\ part = v \/ part >= (reserve - moved) - 1 - d
      BY <2>1 DEF Follows
    <2> QED
      BY <2>2, <2>3
  <1>3. ASSUME part > high - low
        PROVE  less < reserve /\ n * PoolUnit <= price * (reserve - less) * (reserve - less)
    <2>1. PICK m : m = reserve - less
      OBVIOUS
    <2>2. m \in Nat /\ m >= high
      BY <1>2, <1>3, <2>1
    <2>3. n * PoolUnit <= price * m * m
      BY <2>2 DEF BaseBetween
    <2>4. less < reserve
      <3>1. part \in Nat
        BY DEF Follows
      <3> QED
        BY <2>1, <2>2, <3>1
    <2> QED
      BY <2>1, <2>3, <2>4
  <1>4. ASSUME more <= v
        PROVE  ~(more < reserve /\ n * PoolUnit <= price * (reserve - more) * (reserve - more))
    <2>1. PICK m : m = reserve - more
      OBVIOUS
    <2>2. m \in Int /\ m < low
      BY <1>2, <1>4, <2>1
    <2>3. more \in Int
      <3>1. v \div PoolUnit \in Nat /\ part \in Nat
        BY FixedRange, DivNat DEF Follows
      <3> QED
        BY <3>1
    <2>4. CASE m <= 0
      <3>1. ~(more < reserve)
        BY <2>1, <2>3, <2>4
      <3> QED
        BY <3>1
    <2>5. CASE m > 0
      <3>1. m \in Nat /\ m < low
        BY <2>2, <2>5
      <3>2. price * m * m < n * PoolUnit
        BY <3>1 DEF BaseBetween
      <3>3. ~(n * PoolUnit <= price * m * m)
        BY <1>1, <3>1, <3>2
      <3> QED
        BY <2>1, <3>3
    <2> QED
      BY <2>2, <2>4, <2>5
  <1> QED
    BY <1>3, <1>4

\* Selling by input: the part is taken in as the base asset.
LEMMA BaseTaken ==
  ASSUME NEW n, NEW price, NEW reserve, NEW v, NEW low, NEW moved, NEW high,
         NEW part, NEW less, NEW more,
         PartOfTrade(n, price, reserve, v, low, moved, high, part, less, more),
         BaseBetween(n, price, low, high), Follows(part, moved - reserve, v)
  PROVE  /\ part > high - low
              => n * PoolUnit >= price * (reserve + less) * (reserve + less)
         /\ more <= v
              => ~(n * PoolUnit >= price * (reserve + more) * (reserve + more))
  <1> USE DEF PartOfTrade
  <1>1. ASSUME NEW m \in Nat
        PROVE  price * m * m \in Int /\ n * PoolUnit \in Int
    <2>1. m * m \in Nat /\ price * m \in Nat
      OBVIOUS
    <2> QED
      BY <2>1, FixedRange
  <1>2. /\ part > high - low => reserve + less \in Nat /\ reserve + less <= low
        /\ more <= v => reserve + more \in Nat /\ reserve + more > high
    <2>1. PICK d : d = v \div PoolUnit
      OBVIOUS
    <2>2. d \in Nat /\ more = part + (high - low) + 2 + d
      BY <2>1, FixedRange, DivNat
    <2>3. /\ part \in Nat /\ (part > 0 => part <= moved - reserve)
          /\ part = v \/ part >= (moved - reserve) - 1 - d
      BY <2>1 DEF Follows
    <2> QED
      BY <2>2, <2>3
  <1>3. ASSUME part > high - low
        PROVE  n * PoolUnit >= price * (reserve + less) * (reserve + less)
    <2>1. PICK m : m = reserve + less
      OBVIOUS
    <2>2. m \in Nat /\ m <= low
      BY <1>2, <1>3, <2>1
    <2>3. price * m * m <= n * PoolUnit
      BY <2>2 DEF BaseBetween
    <2>4. n * PoolUnit >= price * m * m
      BY <1>1, <2>2, <2>3
    <2> QED
      BY <2>1, <2>4
  <1>4. ASSUME more <= v
        PROVE  ~(n * PoolUnit >= price * (reserve + more) * (reserve + more))
    <2>1. PICK m : m = reserve + more
      OBVIOUS
    <2>2. m \in Nat /\ m > high
      BY <1>2, <1>4, <2>1
    <2>3. n * PoolUnit < price * m * m
      BY <2>2 DEF BaseBetween
    <2>4. ~(price * m * m <= n * PoolUnit)
      <3>1. price * m * m \in Int /\ n * PoolUnit \in Int
        BY <1>1, <2>2
      <3> QED
        BY <2>3, <3>1
    <2> QED
      BY <2>1, <2>4
  <1> QED
    BY <1>3, <1>4

\* In every direction the part of the secondary market stops at the primary price.
LEMMA PartStopsAtPrimaryPrice ==
  ASSUME NEW rx, NEW ry, NEW price, NEW v, NEW direction, NEW byInput, rx \in Reserves,
         ry \in Reserves, price \in 0 .. FixedMax, v \in 1 .. FixedMax,
         direction \in Split!Directions, byInput \in BOOLEAN,
         Split!SplitReturns(direction, byInput, rx, ry, price, v),
         NEW part, part = Split!PartOf(v,
                            Split!FractionOfSecondary(direction, byInput, rx, ry, price, v)),
         NEW late, late = Split!Spread(direction, byInput, rx, ry, price),
         NEW early, early = late + 2 + v \div PoolUnit,
         NEW less, less = part - late, NEW more, more = part + early
  PROVE  /\ part > late => Split!NotPastPrimary(direction, byInput, rx, ry, price, less)
         /\ more <= v => ~Split!NotPastPrimary(direction, byInput, rx, ry, price, more)
  <1>0. Split!Buying # Split!Selling
    BY DEF Split!Buying, Split!Selling
  <1>1. PICK k, ku, root, ru, n, delta, raw :
           /\ k = Split!MultiplyAndSqrt(rx, ry) /\ ku = Split!RootAbove(rx, ry)
           /\ root = Split!FxSqrt(price) /\ ru = Split!PriceRootAbove(price)
           /\ n = rx * ry
           /\ delta = Split!Delta(direction, byInput, rx, ry, price)
           /\ raw = Split!FxDiv(delta, v)
    OBVIOUS
  <1>2. /\ price > 0 /\ delta # Err /\ raw # Err
        /\ Split!SecondaryIsBetter(direction, rx, ry, price)
    BY <1>1 DEF Split!SplitReturns
  <1>3. /\ rx \in Nat /\ rx > 0 /\ ry \in Nat /\ ry > 0 /\ price \in Nat
        /\ v \in Nat /\ v > 0 /\ n \in Nat /\ n > 0
    <2>1. rx \in Nat /\ rx > 0 /\ ry \in Nat /\ ry > 0 /\ price \in Nat /\ v \in Nat /\ v > 0
      BY FixedRange DEF Reserves
    <2>2. 0 < rx * ry
      BY <2>1, ScaleLess
    <2> QED
      BY <1>1, <2>1, <2>2
  <1>4. k # Err
    BY <1>1, <1>2 DEF Split!Delta, Split!FxSub, Split!FxMul, Split!FxDiv
  <1>5. RootsOf(n, price, k, ku, root, ru)
    <2>1. k \in Nat /\ k * k <= n /\ ku \in Nat /\ k <= ku /\ n <= ku * ku
      BY <1>1, <1>3, <1>4, RootIsAbove
    <2>2. /\ root \in Nat /\ root > 0 /\ root * root <= price * PoolUnit
          /\ ru \in Nat /\ root <= ru /\ price * PoolUnit <= ru * ru
      BY <1>1, <1>2, <1>3, PriceRootIsAbove
    <2> QED
      BY <2>1, <2>2 DEF RootsOf
  <1>6. part = Split!PartOf(v, Split!Clamp(raw))
    BY <1>1, <1>2 DEF Split!FractionOfSecondary
  <1>7. delta \in Int
    <2>1. delta \in FixedOrErr
      BY <1>1, SameSplitArithmetic, Exact DEF Split!Delta
    <2> QED
      BY <1>2, <2>1, FixedRange DEF FixedOrErr
  <1>8. Follows(part, delta, v)
    BY <1>1, <1>2, <1>6, <1>7, PartFollowsDelta
  <1>9. CASE direction = Split!Buying /\ byInput
    <2>1. /\ delta = Split!FxSub(Split!FxMul(k, root), ry)
          /\ late = (ku * ru + PoolUnit - 1) \div PoolUnit - (k * root) \div PoolUnit
      <3>1. byInput = (direction = Split!Buying)
        BY <1>0, <1>9, Zenon
      <3> QED
        BY <1>0, <1>1, <1>9, <3>1, Zenon DEF Split!Delta, Split!Spread
    <2>2. /\ part > late => (ry + less) * (ry + less) * PoolUnit <= rx * ry * price
          /\ more <= v => ~((ry + more) * (ry + more) * PoolUnit <= rx * ry * price)
      <3>1. PICK low, high, moved :
               /\ low = (k * root) \div PoolUnit
               /\ high = (ku * ru + PoolUnit - 1) \div PoolUnit
               /\ moved = Split!FxMul(k, root)
        OBVIOUS
      <3>2. /\ low \in Nat /\ high \in Nat /\ low <= high /\ high > 0
            /\ CollateralBetween(n, price, low, high)
        BY <1>2, <1>3, <1>5, <3>1, CollateralAtPrice
      <3>3. moved # Err /\ delta = moved - ry
        BY <1>2, <2>1, <3>1, SameSplitArithmetic, Exact
      <3>4. delta = low - ry
        BY <3>1, <3>3, SameSplitArithmetic, Exact
      <3>5. late = high - low /\ low <= low
        BY <2>1, <3>1, <3>2
      <3>6. PartOfTrade(n, price, ry, v, low, low, high, part, less, more)
        <4>1. part \in Nat
          BY <1>8 DEF Follows
        <4>2. v \div PoolUnit \in Nat
          BY <1>3, FixedRange, DivNat
        <4> QED
          BY <1>3, <3>2, <3>5, <4>1, <4>2 DEF PartOfTrade
      <3>7. Follows(part, low - ry, v)
        BY <1>8, <3>4
      <3>8. /\ part > high - low => (ry + less) * (ry + less) * PoolUnit <= n * price
            /\ more <= v => ~((ry + more) * (ry + more) * PoolUnit <= n * price)
        BY <3>2, <3>6, <3>7, CollateralTaken
      <3> QED
        BY <1>1, <3>5, <3>8, Zenon
    <2>3. (Split!NotPastPrimary(direction, byInput, rx, ry, price, less)
             <=> (ry + less) * (ry + less) * PoolUnit <= rx * ry * price)
      BY <1>0, <1>9, Zenon DEF Split!NotPastPrimary
    <2>4. (Split!NotPastPrimary(direction, byInput, rx, ry, price, more)
             <=> (ry + more) * (ry + more) * PoolUnit <= rx * ry * price)
      BY <1>0, <1>9, Zenon DEF Split!NotPastPrimary
    <2> QED
      BY <2>2, <2>3, <2>4, Zenon
  <1>10. CASE direction = Split!Buying /\ ~byInput
    <2>1. /\ delta = Split!FxSub(rx, Split!FxDiv(k, root))
          /\ late = (ku * PoolUnit + root - 1) \div root - (k * PoolUnit) \div ru
      <3>1. byInput # (direction = Split!Buying)
        BY <1>0, <1>10, Zenon
      <3> QED
        BY <1>0, <1>1, <1>10, <3>1, Zenon DEF Split!Delta, Split!Spread
    <2>2. /\ part > late
                => less < rx /\ rx * ry * PoolUnit <= price * (rx - less) * (rx - less)
          /\ more <= v
                => ~(more < rx /\ rx * ry * PoolUnit <= price * (rx - more) * (rx - more))
      <3>1. PICK low, high, moved, q :
               /\ low = (k * PoolUnit) \div ru /\ moved = (k * PoolUnit) \div root
               /\ high = (ku * PoolUnit + root - 1) \div root
               /\ q = Split!FxDiv(k, root)
        OBVIOUS
      <3>2. /\ low \in Nat /\ moved \in Nat /\ high \in Nat
            /\ low <= moved /\ moved <= high /\ high > 0
            /\ BaseBetween(n, price, low, high)
        BY <1>2, <1>3, <1>5, <3>1, BaseAtPrice
      <3>3. q # Err /\ delta = rx - q
        BY <1>2, <2>1, <3>1, SameSplitArithmetic, Exact
      <3>4. delta = rx - moved
        <4>1. root > 0
          BY <1>5 DEF RootsOf
        <4> QED
          BY <3>1, <3>3, <4>1, SameSplitArithmetic, Exact
      <3>5. late = high - low
        BY <2>1, <3>1
      <3>6. PartOfTrade(n, price, rx, v, low, moved, high, part, less, more)
        <4>1. part \in Nat
          BY <1>8 DEF Follows
        <4>2. v \div PoolUnit \in Nat
          BY <1>3, FixedRange, DivNat
        <4> QED
          BY <1>3, <3>2, <3>5, <4>1, <4>2 DEF PartOfTrade
      <3>7. Follows(part, rx - moved, v)
        BY <1>8, <3>4
      <3>8. /\ part > high - low
                  => less < rx /\ n * PoolUnit <= price * (rx - less) * (rx - less)
            /\ more <= v
                  => ~(more < rx /\ n * PoolUnit <= price * (rx - more) * (rx - more))
        BY <3>2, <3>6, <3>7, BaseGiven
      <3> QED
        BY <1>1, <3>5, <3>8, Zenon
    <2>3. (Split!NotPastPrimary(direction, byInput, rx, ry, price, less)
             <=> less < rx /\ rx * ry * PoolUnit <= price * (rx - less) * (rx - less))
      BY <1>0, <1>10, Zenon DEF Split!NotPastPrimary
    <2>4. (Split!NotPastPrimary(direction, byInput, rx, ry, price, more)
             <=> more < rx /\ rx * ry * PoolUnit <= price * (rx - more) * (rx - more))
      BY <1>0, <1>10, Zenon DEF Split!NotPastPrimary
    <2> QED
      BY <2>2, <2>3, <2>4, Zenon
  <1>11. CASE direction = Split!Selling /\ byInput
    <2>1. /\ delta = Split!FxSub(Split!FxDiv(k, root), rx)
          /\ late = (ku * PoolUnit + root - 1) \div root - (k * PoolUnit) \div ru
      <3>1. byInput # (direction = Split!Buying)
        BY <1>0, <1>11, Zenon
      <3> QED
        BY <1>0, <1>1, <1>11, <3>1, Zenon DEF Split!Delta, Split!Spread
    <2>2. /\ part > late => rx * ry * PoolUnit >= price * (rx + less) * (rx + less)
          /\ more <= v => ~(rx * ry * PoolUnit >= price * (rx + more) * (rx + more))
      <3>1. PICK low, high, moved, q :
               /\ low = (k * PoolUnit) \div ru /\ moved = (k * PoolUnit) \div root
               /\ high = (ku * PoolUnit + root - 1) \div root
               /\ q = Split!FxDiv(k, root)
        OBVIOUS
      <3>2. /\ low \in Nat /\ moved \in Nat /\ high \in Nat
            /\ low <= moved /\ moved <= high /\ high > 0
            /\ BaseBetween(n, price, low, high)
        BY <1>2, <1>3, <1>5, <3>1, BaseAtPrice
      <3>3. q # Err /\ delta = q - rx
        BY <1>2, <2>1, <3>1, SameSplitArithmetic, Exact
      <3>4. delta = moved - rx
        <4>1. root > 0
          BY <1>5 DEF RootsOf
        <4> QED
          BY <3>1, <3>3, <4>1, SameSplitArithmetic, Exact
      <3>5. late = high - low
        BY <2>1, <3>1
      <3>6. PartOfTrade(n, price, rx, v, low, moved, high, part, less, more)
        <4>1. part \in Nat
          BY <1>8 DEF Follows
        <4>2. v \div PoolUnit \in Nat
          BY <1>3, FixedRange, DivNat
        <4> QED
          BY <1>3, <3>2, <3>5, <4>1, <4>2 DEF PartOfTrade
      <3>7. Follows(part, moved - rx, v)
        BY <1>8, <3>4
      <3>8. /\ part > high - low => n * PoolUnit >= price * (rx + less) * (rx + less)
            /\ more <= v => ~(n * PoolUnit >= price * (rx + more) * (rx + more))
        BY <3>2, <3>6, <3>7, BaseTaken
      <3> QED
        BY <1>1, <3>5, <3>8, Zenon
    <2>3. (Split!NotPastPrimary(direction, byInput, rx, ry, price, less)
             <=> rx * ry * PoolUnit >= price * (rx + less) * (rx + less))
      BY <1>0, <1>11, Zenon DEF Split!NotPastPrimary
    <2>4. (Split!NotPastPrimary(direction, byInput, rx, ry, price, more)
             <=> rx * ry * PoolUnit >= price * (rx + more) * (rx + more))
      BY <1>0, <1>11, Zenon DEF Split!NotPastPrimary
    <2> QED
      BY <2>2, <2>3, <2>4, Zenon
  <1>12. CASE direction = Split!Selling /\ ~byInput
    <2>1. /\ delta = Split!FxSub(ry, Split!FxMul(k, root))
          /\ late = (ku * ru + PoolUnit - 1) \div PoolUnit - (k * root) \div PoolUnit
      <3>1. byInput = (direction = Split!Buying)
        BY <1>0, <1>12, Zenon
      <3> QED
        BY <1>0, <1>1, <1>12, <3>1, Zenon DEF Split!Delta, Split!Spread
    <2>2. /\ part > late
                => less < ry /\ (ry - less) * (ry - less) * PoolUnit >= rx * ry * price
          /\ more <= v
                => ~(more < ry /\ (ry - more) * (ry - more) * PoolUnit >= rx * ry * price)
      <3>1. PICK low, high, moved :
               /\ low = (k * root) \div PoolUnit
               /\ high = (ku * ru + PoolUnit - 1) \div PoolUnit
               /\ moved = Split!FxMul(k, root)
        OBVIOUS
      <3>2. /\ low \in Nat /\ high \in Nat /\ low <= high /\ high > 0
            /\ CollateralBetween(n, price, low, high)
        BY <1>2, <1>3, <1>5, <3>1, CollateralAtPrice
      <3>3. moved # Err /\ delta = ry - moved
        BY <1>2, <2>1, <3>1, SameSplitArithmetic, Exact
      <3>4. delta = ry - low
        BY <3>1, <3>3, SameSplitArithmetic, Exact
      <3>5. late = high - low /\ low <= low
        BY <2>1, <3>1, <3>2
      <3>6. PartOfTrade(n, price, ry, v, low, low, high, part, less, more)
        <4>1. part \in Nat
          BY <1>8 DEF Follows
        <4>2. v \div PoolUnit \in Nat
          BY <1>3, FixedRange, DivNat
        <4> QED
          BY <1>3, <3>2, <3>5, <4>1, <4>2 DEF PartOfTrade
      <3>7. Follows(part, ry - low, v)
        BY <1>8, <3>4
      <3>8. /\ part > high - low
                  => less < ry /\ (ry - less) * (ry - less) * PoolUnit >= n * price
            /\ more <= v
                  => ~(more < ry /\ (ry - more) * (ry - more) * PoolUnit >= n * price)
        BY <3>2, <3>6, <3>7, CollateralGiven
      <3> QED
        BY <1>1, <3>5, <3>8, Zenon
    <2>3. (Split!NotPastPrimary(direction, byInput, rx, ry, price, less)
             <=> less < ry /\ (ry - less) * (ry - less) * PoolUnit >= rx * ry * price)
      BY <1>0, <1>12, Zenon DEF Split!NotPastPrimary
    <2>4. (Split!NotPastPrimary(direction, byInput, rx, ry, price, more)
             <=> more < ry /\ (ry - more) * (ry - more) * PoolUnit >= rx * ry * price)
      BY <1>0, <1>12, Zenon DEF Split!NotPastPrimary
    <2> QED
      BY <2>2, <2>3, <2>4, Zenon
  <1> QED
    BY <1>9, <1>10, <1>11, <1>12, Zenon DEF Split!Directions

\* The secondary market takes its part up to the primary price, in both directions and
\* for an amount of either side: what it takes less the spread of the roots is traded
\* at prices no worse than the primary one, and a part that is larger by the spread and
\* the roundings of the fraction would not be.
THEOREM SplitsStopAtPrimaryPrice == AlgorithmsSpec => []SplitStopsAtPrimaryPrice
  <1>1. ASSUME NEW rx \in Reserves, NEW ry \in Reserves, NEW price \in 0 .. FixedMax,
               NEW v \in 1 .. FixedMax, NEW direction \in Split!Directions,
               NEW byInput \in BOOLEAN
        PROVE  Split!SplitStopsAtPrimaryPrice(direction, byInput, rx, ry, price, v)
    <2>1. PICK part, late, early, less, more :
             /\ part = Split!PartOf(v,
                          Split!FractionOfSecondary(direction, byInput, rx, ry, price, v))
             /\ late = Split!Spread(direction, byInput, rx, ry, price)
             /\ early = late + 2 + v \div PoolUnit
             /\ less = part - late /\ more = part + early
      OBVIOUS
    <2>2. ASSUME direction = Split!Buying, byInput, part > 0
          PROVE  Split!NotPastPrimary(direction, byInput, rx, ry, price, part)
      BY <2>1, <2>2, BuyingStopsAtPrimaryPrice, Zenon
    <2>3. ASSUME Split!SplitReturns(direction, byInput, rx, ry, price, v)
          PROVE  /\ part > late
                      => Split!NotPastPrimary(direction, byInput, rx, ry, price, less)
                 /\ more <= v
                      => ~Split!NotPastPrimary(direction, byInput, rx, ry, price, more)
      BY <2>1, <2>3, PartStopsAtPrimaryPrice
    <2> QED
      BY <2>1, <2>2, <2>3, Zenon DEF Split!SplitStopsAtPrimaryPrice
  <1>2. InputsInv => SplitStopsAtPrimaryPrice
    BY <1>1, SplitInputs DEF SplitStopsAtPrimaryPrice
  <1> QED
    BY <1>2, InputsAreKept, PTL

-----------------------------------------------------------------------------
(* The trades over two pools of TradePath: what a quote of a desired       *)
(* output costs brings all but its roundings when it is exchanged.         *)

XPath == INSTANCE XykMathProofs WITH
            Unit <- PathUnit, Modulus <- PathModulus, PriceGuard <- PathPriceGuard

\* What the theorems of the instance take for granted.
LEMMA PathSizes ==
  /\ PathUnit \in Nat \ {0}
  /\ PathModulus \in Nat /\ PathModulus > 2 * PathUnit
  /\ Err \notin Int
  /\ FeeNum \in Nat /\ FeeDen \in Nat /\ FeeNum < FeeDen
  /\ MinLiquidity \in Nat \ {0} /\ PathPriceGuard \in Nat \ {0}
  BY PoolAssumption, PathAssumption, ErrAssumption

\* Both instances compute the same.
LEMMA SamePathArithmetic ==
  /\ \A v : /\ Path!FromBalance(v) = XPath!FromBalance(v)
            /\ Path!ToBalance(v) = XPath!ToBalance(v)
  /\ \A v, w : /\ Path!FxAdd(v, w) = XPath!FxAdd(v, w)
               /\ Path!FxSub(v, w) = XPath!FxSub(v, w)
               /\ Path!FxMul(v, w) = XPath!FxMul(v, w)
               /\ Path!FxDiv(v, w) = XPath!FxDiv(v, w)
               /\ Path!WrapSub(v, w) = XPath!WrapSub(v, w)
  <1>1. \A v : Path!Checked(v) = XPath!Checked(v)
    BY DEF Path!Checked, XPath!Checked, Path!Signed, XPath!Signed
  <1> QED
    BY <1>1 DEF Path!FromBalance, XPath!FromBalance, Path!ToBalance, XPath!ToBalance,
                Path!FxAdd, XPath!FxAdd, Path!FxSub, XPath!FxSub, Path!FxMul, XPath!FxMul,
                Path!FxDiv, XPath!FxDiv, Path!FloorDiv, XPath!FloorDiv,
                Path!WrapSub, XPath!WrapSub

\* The fee of a swap of a path is the same in both instances.
LEMMA SamePathFee == \A v : Path!FeeOf(v) = XPath!FeeOf(v)
  BY SamePathArithmetic, Zenon DEF Path!FeeOf, XPath!FeeOf

\* The calculation of a path's swap by input is the same in both instances.
LEMMA SamePathOutput ==
  ASSUME NEW rx, NEW ry, NEW in, NEW byDestination, byDestination \in BOOLEAN
  PROVE  Path!CalcOutputForExactInput(byDestination, rx, ry, in)
           = XPath!CalcOutputForExactInput(byDestination, rx, ry, in)
  <1>1. \A part : Path!OutputFor(rx, ry, part) = XPath!OutputFor(rx, ry, part)
    BY SamePathArithmetic, Zenon DEF Path!OutputFor, XPath!OutputFor
  <1> DEFINE Both(v, outFee, fee) ==
               IF byDestination
               THEN IF v = Err \/ outFee = Err THEN Err ELSE [amount |-> v, fee |-> outFee]
               ELSE IF fee = Err \/ v = Err THEN Err ELSE [amount |-> v, fee |-> fee]
  <1>2. PICK fee, part, v :
           /\ fee = XPath!FeeOf(in)
           /\ part = IF byDestination THEN XPath!FromBalance(in)
                     ELSE XPath!FxSub(XPath!FromBalance(in), XPath!FromBalance(fee))
           /\ v = XPath!OutputFor(rx, ry, part)
    OBVIOUS
  <1>3. XPath!CalcOutputForExactInput(byDestination, rx, ry, in) = Both(v, XPath!FeeOf(v), fee)
    BY <1>2 DEF XPath!CalcOutputForExactInput
  <1>4. /\ fee = Path!FeeOf(in)
        /\ part = IF byDestination THEN Path!FromBalance(in)
                  ELSE Path!FxSub(Path!FromBalance(in), Path!FromBalance(fee))
        /\ v = Path!OutputFor(rx, ry, part)
    BY <1>1, <1>2, SamePathArithmetic, SamePathFee
  <1>5. Path!CalcOutputForExactInput(byDestination, rx, ry, in) = Both(v, Path!FeeOf(v), fee)
    BY <1>4 DEF Path!CalcOutputForExactInput
  <1> QED
    BY <1>3, <1>5, SamePathFee

\* The calculation of a path's swap by output is the same in both instances.
LEMMA SamePathInput ==
  ASSUME NEW rx, NEW ry, NEW out, NEW byDestination
  PROVE  Path!CalcInputForExactOutput(byDestination, rx, ry, out)
           = XPath!CalcInputForExactOutput(byDestination, rx, ry, out)
  <1>1. Path!InputWithDestinationFee(rx, ry, out) = XPath!InputWithDestinationFee(rx, ry, out)
    BY SamePathArithmetic, SamePathFee, Zenon
       DEF Path!InputWithDestinationFee, XPath!InputWithDestinationFee
  <1>2. Path!InputWithSourceFee(rx, ry, out) = XPath!InputWithSourceFee(rx, ry, out)
    BY SamePathArithmetic, SamePathFee, Zenon
       DEF Path!InputWithSourceFee, XPath!InputWithSourceFee
  <1> QED
    BY <1>1, <1>2, Zenon
       DEF Path!CalcInputForExactOutput, XPath!CalcInputForExactOutput

\* What a swap by input that succeeds gives, and one by output charges.
InputTerms(toBase, rx, ry, v, funds, w) ==
    w = Path!Outcome(toBase, TRUE, rx, ry, v, funds) /\ w # Err
    => LET calc == Path!CalcOutputForExactInput(toBase, rx, ry, v)
       IN  /\ rx # 0 /\ calc # Err
           /\ w = IF toBase THEN calc.amount - calc.fee ELSE calc.amount
OutputTerms(toBase, rx, ry, v, funds, w) ==
    w = Path!Outcome(toBase, FALSE, rx, ry, v, funds) /\ w # Err
    => LET calc == Path!CalcInputForExactOutput(toBase, rx, ry, v)
       IN  rx # 0 /\ calc # Err /\ w = calc.amount /\ ~(w > funds)

\* So every swap by input.
LEMMA InputOutcome ==
  ASSUME NEW toBase, NEW rx, NEW ry, NEW v, NEW funds, NEW w
  PROVE  InputTerms(toBase, rx, ry, v, funds, w)
  <1>1. PICK calc : calc = Path!CalcOutputForExactInput(toBase, rx, ry, v)
    BY Zenon
  <1>2. SUFFICES ASSUME w = Path!Outcome(toBase, TRUE, rx, ry, v, funds), w # Err
                 PROVE  /\ rx # 0 /\ calc # Err
                        /\ w = IF toBase THEN calc.amount - calc.fee ELSE calc.amount
    BY <1>1, Zenon DEF InputTerms
  <1>3. rx # 0 /\ w = Path!OutcomeFor(calc, toBase, TRUE, rx, ry, v, funds)
    BY <1>1, <1>2, Zenon DEF Path!Outcome
  <1>4. PICK terms : terms = Path!TermsOf(calc, TRUE, v)
    BY Zenon
  <1>5. calc # Err /\ w = Path!OutcomeOf(terms, toBase, TRUE, rx, ry, funds)
    BY <1>2, <1>3, <1>4, Zenon DEF Path!OutcomeFor
  <1>6. /\ ~(terms.source > funds)
        /\ w = IF toBase THEN terms.destination - terms.fee ELSE terms.destination
    BY <1>2, <1>5, Zenon DEF Path!OutcomeOf
  <1>7. terms.source = v /\ terms.destination = calc.amount /\ terms.fee = calc.fee
    <2>1. \A m, n, o : LET r == [source |-> m, destination |-> n, fee |-> o]
                       IN  r.source = m /\ r.destination = n /\ r.fee = o
      OBVIOUS
    <2>2. terms = [source |-> v, destination |-> calc.amount, fee |-> calc.fee]
      BY <1>4, Zenon DEF Path!TermsOf
    <2> QED
      BY <2>1, <2>2, Zenon
  <1> QED
    BY <1>3, <1>5, <1>6, <1>7, Zenon

\* So every swap by output.
LEMMA OutputOutcome ==
  ASSUME NEW toBase, NEW rx, NEW ry, NEW v, NEW funds, NEW w
  PROVE  OutputTerms(toBase, rx, ry, v, funds, w)
  <1>1. PICK calc : calc = Path!CalcInputForExactOutput(toBase, rx, ry, v)
    BY Zenon
  <1>2. SUFFICES ASSUME w = Path!Outcome(toBase, FALSE, rx, ry, v, funds), w # Err
                 PROVE  /\ rx # 0 /\ calc # Err
                        /\ w = calc.amount /\ ~(w > funds)
    BY <1>1, Zenon DEF OutputTerms
  <1>3. rx # 0 /\ w = Path!OutcomeFor(calc, toBase, FALSE, rx, ry, v, funds)
    BY <1>1, <1>2, Zenon DEF Path!Outcome
  <1>4. PICK terms : terms = Path!TermsOf(calc, FALSE, v)
    BY Zenon
  <1>5. calc # Err /\ w = Path!OutcomeOf(terms, toBase, FALSE, rx, ry, funds)
    BY <1>2, <1>3, <1>4, Zenon DEF Path!OutcomeFor
  <1>6. ~(terms.source > funds) /\ w = terms.source
    BY <1>2, <1>5, Zenon DEF Path!OutcomeOf
  <1>7. terms.source = calc.amount /\ terms.destination = v /\ terms.fee = calc.fee
    <2>1. \A m, n, o : LET r == [source |-> m, destination |-> n, fee |-> o]
                       IN  r.source = m /\ r.destination = n /\ r.fee = o
      OBVIOUS
    <2>2. terms = [source |-> calc.amount, destination |-> v, fee |-> calc.fee]
      BY <1>4, Zenon DEF Path!TermsOf
    <2> QED
      BY <2>1, <2>2, Zenon
  <1> QED
    BY <1>3, <1>5, <1>6, <1>7, Zenon

\* The side that a swap's fee is taken from: the destination when it is to base.
IsToBase(flag) == flag \in BOOLEAN /\ flag
IsFromBase(flag) == flag \in BOOLEAN /\ ~flag

\* What a desired output of one swap was quoted at, and a bit more, brings.
FirstBrings(toBase, rx, ry, v, q, first) ==
    /\ q = Path!QuoteSingle(toBase, FALSE, rx, ry, v) /\ q # Err
    /\ first = Path!ExchangeSingle(toBase, rx, ry, q + 1, QuoteFunds) /\ first # Err
    => first >= v
SecondBrings(toBase, rx, ry, v, q, base, brought) ==
    /\ q = Path!QuoteSingle(toBase, FALSE, rx, ry, v) /\ q # Err
    /\ base = Path!BaseWithSlack(q, ry - v)
    /\ brought = Path!ExchangeSingle(toBase, rx, ry, base, base) /\ brought # Err
    => brought >= v

\* With one more unit of input than it was quoted at, a swap to the base asset brings
\* all that was desired.
LEMMA FirstSwapBrings ==
  ASSUME NEW toBase, NEW rx, NEW ry, NEW v, NEW q, NEW first,
         IsToBase(toBase),
         rx \in XPath!Balance, ry \in XPath!Balance, v \in XPath!Balance
  PROVE  FirstBrings(toBase, rx, ry, v, q, first)
  <1>1. SUFFICES ASSUME q = Path!QuoteSingle(toBase, FALSE, rx, ry, v), q # Err,
                        first = Path!ExchangeSingle(toBase, rx, ry, q + 1, QuoteFunds),
                        first # Err
                 PROVE  first >= v
    BY Zenon DEF FirstBrings
  <1>2. toBase \in BOOLEAN /\ toBase
    BY DEF IsToBase
  <1>3. PICK calc : /\ calc = Path!CalcInputForExactOutput(toBase, rx, ry, v)
                    /\ calc # Err /\ q = calc.amount /\ rx # 0
    <2>1. q = Path!Outcome(toBase, FALSE, rx, ry, v, QuoteFunds)
      BY <1>1, Zenon DEF Path!QuoteSingle, Path!PoolQuote
    <2>2. OutputTerms(toBase, rx, ry, v, QuoteFunds, q)
      BY OutputOutcome, Zenon
    <2> QED
      BY <1>1, <2>1, <2>2, Zenon DEF OutputTerms
  <1>4. PICK out : /\ out = Path!CalcOutputForExactInput(toBase, rx, ry, q + 1)
                   /\ out # Err /\ first = out.amount - out.fee
    <2>1. first = Path!Outcome(toBase, TRUE, rx, ry, q + 1, QuoteFunds)
      BY <1>1, Zenon DEF Path!ExchangeSingle
    <2>2. InputTerms(toBase, rx, ry, q + 1, QuoteFunds, first)
      BY InputOutcome, Zenon
    <2>3. PICK out : out = Path!CalcOutputForExactInput(toBase, rx, ry, q + 1)
      BY Zenon
    <2>4. out # Err /\ first = IF toBase THEN out.amount - out.fee ELSE out.amount
      BY <1>1, <2>1, <2>2, <2>3, Zenon DEF InputTerms
    <2> QED
      BY <1>2, <2>3, <2>4, Zenon
  <1>5. /\ calc = XPath!CalcInputForExactOutput(toBase, rx, ry, v)
        /\ out = XPath!CalcOutputForExactInput(toBase, rx, ry, calc.amount + 1)
    <2>1. calc = XPath!CalcInputForExactOutput(toBase, rx, ry, v)
      BY <1>3, SamePathInput, Zenon
    <2>2. out = XPath!CalcOutputForExactInput(toBase, rx, ry, q + 1)
      BY <1>2, <1>4, SamePathOutput, Zenon
    <2> QED
      BY <1>3, <2>1, <2>2, Zenon
  <1>6. rx > 0 /\ (FeeNum * PathUnit) % FeeDen = 0
    BY <1>3, PathAssumption, PathSizes DEF XPath!Balance
  <1>7. out.amount - out.fee >= v
    BY <1>3, <1>4, <1>5, <1>6, <1>2, PathSizes, XPath!OneMoreInputSuffices, Zenon
  <1> QED
    BY <1>4, <1>7, Zenon

\* With the slack of base a swap from the base asset brings all that was desired.
LEMMA SecondSwapBrings ==
  ASSUME NEW toBase, NEW rx, NEW ry, NEW v, NEW q, NEW base, NEW brought,
         IsFromBase(toBase),
         rx \in XPath!Balance, ry \in XPath!Balance, v \in XPath!Balance
  PROVE  SecondBrings(toBase, rx, ry, v, q, base, brought)
  <1>1. SUFFICES ASSUME q = Path!QuoteSingle(toBase, FALSE, rx, ry, v), q # Err,
                        base = Path!BaseWithSlack(q, ry - v),
                        brought = Path!ExchangeSingle(toBase, rx, ry, base, base), brought # Err
                 PROVE  brought >= v
    BY Zenon DEF SecondBrings
  <1>2. toBase \in BOOLEAN /\ ~toBase
    BY DEF IsFromBase
  <1>3. PICK calc : /\ calc = Path!CalcInputForExactOutput(toBase, rx, ry, v)
                    /\ calc # Err /\ q = calc.amount /\ rx # 0
    <2>1. q = Path!Outcome(toBase, FALSE, rx, ry, v, QuoteFunds)
      BY <1>1, Zenon DEF Path!QuoteSingle, Path!PoolQuote
    <2>2. OutputTerms(toBase, rx, ry, v, QuoteFunds, q)
      BY OutputOutcome, Zenon
    <2> QED
      BY <1>1, <2>1, <2>2, Zenon DEF OutputTerms
  <1>4. PICK out : /\ out = Path!CalcOutputForExactInput(toBase, rx, ry, base)
                   /\ out # Err /\ brought = out.amount
    <2>1. brought = Path!Outcome(toBase, TRUE, rx, ry, base, base)
      BY <1>1, Zenon DEF Path!ExchangeSingle
    <2>2. InputTerms(toBase, rx, ry, base, base, brought)
      BY InputOutcome, Zenon
    <2>3. PICK out : out = Path!CalcOutputForExactInput(toBase, rx, ry, base)
      BY Zenon
    <2>4. out # Err /\ brought = IF toBase THEN out.amount - out.fee ELSE out.amount
      BY <1>1, <2>1, <2>2, <2>3, Zenon DEF InputTerms
    <2> QED
      BY <1>2, <2>3, <2>4, Zenon
  <1>5. PICK z : z = ((calc.amount + 1) * (FeeDen - 1)) \div ((FeeDen - FeeNum) * (ry - v))
    OBVIOUS
  <1>6. base = calc.amount + 2 + z
    BY <1>1, <1>3, <1>5, Zenon DEF Path!BaseWithSlack
  <1>7. /\ calc = XPath!CalcInputForExactOutput(toBase, rx, ry, v)
        /\ out = XPath!CalcOutputForExactInput(toBase, rx, ry, calc.amount + 2 + z)
    BY <1>2, <1>3, <1>4, <1>6, SamePathInput, SamePathOutput, Zenon
  <1>8. rx > 0
    BY <1>3, PathSizes DEF XPath!Balance
  <1>9. out.amount >= v
    BY <1>3, <1>4, <1>5, <1>7, <1>8, <1>2, PathSizes, XPath!SlackOfInputSuffices, Zenon
  <1> QED
    BY <1>4, <1>9, Zenon

\* An exchange of what the sender can pay is worth what its quote says.
LEMMA ExchangeIsQuoted ==
  ASSUME NEW toBase, NEW rx, NEW ry, NEW v, NEW funds, NEW forwards,
         forwards = TRUE, toBase \in BOOLEAN, v = Err \/ ~(v > funds)
  PROVE  Path!ExchangeSingle(toBase, rx, ry, v, funds)
           = Path!QuoteSingle(toBase, forwards, rx, ry, v)
  <1>1. forwards = TRUE
    OBVIOUS
  <1>2. PICK w : w = Path!QuoteSingle(toBase, forwards, rx, ry, v)
    OBVIOUS
  <1>3. CASE w = Err
    BY <1>1, <1>2, <1>3, Zenon DEF Path!ExchangeSingle
  <1>4. CASE w # Err
    <2>1. v # Err /\ w = Path!Outcome(toBase, forwards, rx, ry, v, QuoteFunds)
      BY <1>2, <1>4, Zenon DEF Path!QuoteSingle, Path!PoolQuote
    <2>2. PICK calc : calc = Path!CalcOutputForExactInput(toBase, rx, ry, v)
      OBVIOUS
    <2>3. PICK terms : terms = Path!TermsOf(calc, forwards, v)
      OBVIOUS
    <2>4. terms.source = v
      BY <1>1, <2>3 DEF Path!TermsOf
    <2>5. ~(rx = 0 \/ ry = 0 \/ v = 0)
          /\ w = Path!OutcomeFor(calc, toBase, forwards, rx, ry, v, QuoteFunds)
      BY <1>1, <1>4, <2>1, <2>2, Zenon DEF Path!Outcome
    <2>6. calc # Err /\ w = Path!OutcomeOf(terms, toBase, forwards, rx, ry, QuoteFunds)
      BY <1>4, <2>3, <2>5, Zenon DEF Path!OutcomeFor
    <2>7. w = Path!OutcomeOf(terms, toBase, forwards, rx, ry, funds)
      BY <1>4, <2>1, <2>4, <2>6, Zenon DEF Path!OutcomeOf
    <2>8. w = Path!Outcome(toBase, forwards, rx, ry, v, funds)
      BY <1>1, <2>2, <2>3, <2>5, <2>6, <2>7, Zenon DEF Path!Outcome, Path!OutcomeFor
    <2> QED
      BY <1>1, <1>2, <1>4, <2>8, Zenon DEF Path!ExchangeSingle
  <1> QED
    BY <1>3, <1>4

\* A path that is sold is worth what a quote of the input says.
LEMMA SellIsQuoted ==
  ASSUME NEW path, NEW q,
         q \in Nat, ~(q > QuoteFunds), path.x1 \in Nat, path.y1 \in Nat
  PROVE  Path!Sell(path, q, QuoteFunds) = Path!Quote(TRUE, path, q)
  <1>1. PICK toBase \in BOOLEAN, fromBase \in BOOLEAN, forwards \in BOOLEAN :
          toBase = TRUE /\ fromBase = FALSE /\ forwards = TRUE
    BY Zenon
  <1>2. PICK w : w = Path!QuoteSingle(toBase, forwards, path.x1, path.y1, q)
    OBVIOUS
  <1>3. Path!FirstSwap(path, q, QuoteFunds) = w
    <2>1. Path!ExchangeSingle(toBase, path.x1, path.y1, q, QuoteFunds)
            = Path!QuoteSingle(toBase, forwards, path.x1, path.y1, q)
      BY <1>1, ExchangeIsQuoted, Zenon
    <2>2. Path!FirstSwap(path, q, QuoteFunds)
            = Path!ExchangeSingle(toBase, path.x1, path.y1, q, QuoteFunds)
      BY <1>1, Zenon DEF Path!FirstSwap
    <2> QED
      BY <1>1, <1>2, <2>1, <2>2, Zenon
  <1>4. w = Err \/ w \in Int
    <2>1. SUFFICES ASSUME w # Err PROVE w \in Int
      OBVIOUS
    <2>2. PICK out : /\ out = Path!CalcOutputForExactInput(toBase, path.x1, path.y1, q)
                     /\ out # Err /\ w = out.amount - out.fee
      <3>1. PICK out : out = Path!CalcOutputForExactInput(toBase, path.x1, path.y1, q)
        OBVIOUS
      <3>2. out # Err /\ w = IF toBase THEN out.amount - out.fee ELSE out.amount
        <4>1. w = Path!Outcome(toBase, TRUE, path.x1, path.y1, q, QuoteFunds)
          BY <1>1, <1>2, <2>1, Zenon DEF Path!QuoteSingle, Path!PoolQuote
        <4> QED
          <5>1. InputTerms(toBase, path.x1, path.y1, q, QuoteFunds, w)
            BY InputOutcome, Zenon
          <5> QED
            BY <2>1, <3>1, <4>1, <5>1, Zenon DEF InputTerms
      <3> QED
        BY <1>1, <3>1, <3>2, Zenon
    <2>3. out.amount \in Nat /\ out.fee \in Nat
      <3>1. out = XPath!CalcOutputForExactInput(toBase, path.x1, path.y1, q)
        BY <2>2, SamePathOutput, Zenon
      <3> QED
        BY <2>2, <3>1, PathSizes, XPath!OutputType, Zenon
    <2> QED
      BY <2>2, <2>3
  <1>5. w = Err \/ ~(w > w)
    BY <1>4
  <1>6. Path!SecondSwap(path, w) = Path!QuoteSingle(fromBase, TRUE, path.x2, path.y2, w)
    <2>1. Path!ExchangeSingle(fromBase, path.x2, path.y2, w, w)
            = Path!QuoteSingle(fromBase, forwards, path.x2, path.y2, w)
      BY <1>1, <1>5, ExchangeIsQuoted, Zenon
    <2>2. Path!SecondSwap(path, w) = Path!ExchangeSingle(fromBase, path.x2, path.y2, w, w)
      BY <1>1, Zenon DEF Path!SecondSwap
    <2> QED
      BY <1>1, <2>1, <2>2, Zenon
  <1> QED
    BY <1>1, <1>2, <1>3, <1>6, Zenon
       DEF Path!Sell, Path!Quote, Path!FirstQuote, Path!SecondQuote

\* What a desired output over two swaps costs, exchanged forwards, brings what a quote
\* of that input says; and each of its two quotes is short by no more than roundings.
THEOREM PathsAreShortByRounding == AlgorithmsSpec => []PathIsShortByRounding
  <1>1. ASSUME InputsInv, topic = "path"
        PROVE  Path!BuyIsShortByRounding([x1 |-> x, y1 |-> y, x2 |-> t, y2 |-> b], a)
    <2>1. /\ x \in XPath!Balance /\ y \in XPath!Balance /\ t \in XPath!Balance
          /\ b \in XPath!Balance /\ a \in XPath!Balance
          /\ QuoteFunds \in XPath!Balance
      BY <1>1, PathAssumption, PathSizes DEF InputsInv, XPath!Balance
    <2>2. PICK path, rx, ry, sx, sy, v :
            /\ path = [x1 |-> x, y1 |-> y, x2 |-> t, y2 |-> b] /\ v = a
            /\ rx = x /\ ry = y /\ sx = t /\ sy = b
      OBVIOUS
    <2>3. path.x1 = rx /\ path.y1 = ry /\ path.x2 = sx /\ path.y2 = sy
      BY <2>2
    <2>4. /\ rx \in XPath!Balance /\ ry \in XPath!Balance /\ sx \in XPath!Balance
          /\ sy \in XPath!Balance /\ v \in XPath!Balance
      BY <2>1, <2>2
    <2>5. PICK toBase \in BOOLEAN, fromBase \in BOOLEAN : toBase = TRUE /\ fromBase = FALSE
      BY Zenon
    <2>6. PICK second, quoted, bought :
            /\ second = Path!QuoteSingle(fromBase, FALSE, sx, sy, v)
            /\ quoted = Path!QuoteSingle(toBase, FALSE, rx, ry, second)
            /\ bought = Path!Buy(path, v, QuoteFunds, QuoteFunds)
      OBVIOUS
    <2>7. second = Path!SecondQuote(FALSE, path, v) /\ quoted = Path!Quote(FALSE, path, v)
      BY <2>3, <2>5, <2>6, Zenon DEF Path!Quote, Path!FirstQuote, Path!SecondQuote
    <2>8. SUFFICES ASSUME quoted # Err, bought # Err
                   PROVE  /\ bought = Path!Quote(TRUE, path, quoted)
                          /\ Path!FirstSwapSuffices(path, quoted, second)
                          /\ Path!SecondSwapSuffices(path, v, second)
      BY <2>2, <2>6, <2>7, Zenon DEF Path!BuyIsShortByRounding, Path!IsShortByRounding
    <2>9. second # Err /\ second \in XPath!Balance
      <3>1. second # Err
        BY <2>6, <2>8, Zenon DEF Path!QuoteSingle, Path!PoolQuote
      <3>2. PICK calc : /\ calc = Path!CalcInputForExactOutput(fromBase, sx, sy, v)
                        /\ calc # Err /\ second = calc.amount /\ ~(second > QuoteFunds)
        <4>1. second = Path!Outcome(fromBase, FALSE, sx, sy, v, QuoteFunds)
          BY <2>5, <2>6, <3>1, Zenon DEF Path!QuoteSingle, Path!PoolQuote
        <4> QED
          <5>1. OutputTerms(fromBase, sx, sy, v, QuoteFunds, second)
            BY OutputOutcome, Zenon
          <5> QED
            BY <3>1, <4>1, <5>1, Zenon DEF OutputTerms
      <3>3. calc = XPath!CalcInputForExactOutput(fromBase, sx, sy, v)
        BY <3>2, SamePathInput, Zenon
      <3>4. sx \in Nat /\ sy \in Nat /\ v \in Nat
        BY <2>4, PathSizes DEF XPath!Balance
      <3>5. calc.amount \in Nat
        BY <3>2, <3>3, <3>4, PathSizes, XPath!InputType, Zenon
      <3>6. second \in Nat
        BY <3>2, <3>5, Zenon
      <3> QED
        BY <2>1, <3>1, <3>2, <3>6, PathSizes DEF XPath!Balance
    <2>10. quoted \in Nat /\ ~(quoted > QuoteFunds)
      <3>1. PICK calc : /\ calc = Path!CalcInputForExactOutput(toBase, rx, ry, second)
                        /\ calc # Err /\ quoted = calc.amount /\ ~(quoted > QuoteFunds)
        <4>1. quoted = Path!Outcome(toBase, FALSE, rx, ry, second, QuoteFunds)
          BY <2>5, <2>6, <2>8, Zenon DEF Path!QuoteSingle, Path!PoolQuote
        <4> QED
          <5>1. OutputTerms(toBase, rx, ry, second, QuoteFunds, quoted)
            BY OutputOutcome, Zenon
          <5> QED
            BY <2>8, <4>1, <5>1, Zenon DEF OutputTerms
      <3>2. calc = XPath!CalcInputForExactOutput(toBase, rx, ry, second)
        BY <3>1, SamePathInput, Zenon
      <3>3. rx \in Nat /\ ry \in Nat /\ second \in Nat
        BY <2>4, <2>9, PathSizes DEF XPath!Balance
      <3>4. calc.amount \in Nat
        BY <3>1, <3>2, <3>3, PathSizes, XPath!InputType, Zenon
      <3> QED
        BY <3>1, <3>4, Zenon
    <2>11. bought = Path!Quote(TRUE, path, quoted)
      <3>1. bought = Path!Sell(path, quoted, QuoteFunds)
        BY <2>6, <2>7, <2>8, <2>10, Zenon DEF Path!Buy, Path!SellWithin
      <3>2. path.x1 \in Nat /\ path.y1 \in Nat
        BY <2>3, <2>4, PathSizes DEF XPath!Balance
      <3> QED
        BY <2>10, <3>1, <3>2, SellIsQuoted, Zenon
    <2>12. Path!FirstSwapSuffices(path, quoted, second)
      <3>1. PICK first : first = Path!ExchangeSingle(toBase, rx, ry, quoted + 1, QuoteFunds)
        OBVIOUS
      <3>2. FirstBrings(toBase, rx, ry, second, quoted, first)
        <4>1. IsToBase(toBase)
          BY <2>5 DEF IsToBase
        <4> QED
          BY <2>4, <2>9, <4>1, FirstSwapBrings, Zenon
      <3>3. first = Path!FirstSwap(path, quoted + 1, QuoteFunds)
        BY <2>3, <2>5, <3>1, Zenon DEF Path!FirstSwap
      <3> QED
        BY <2>6, <2>8, <3>1, <3>2, <3>3, Zenon DEF FirstBrings, Path!FirstSwapSuffices
    <2>13. Path!SecondSwapSuffices(path, v, second)
      <3>1. PICK base : base = Path!BaseWithSlack(second, sy - v)
        OBVIOUS
      <3>2. PICK brought : brought = Path!ExchangeSingle(fromBase, sx, sy, base, base)
        OBVIOUS
      <3>3. SecondBrings(fromBase, sx, sy, v, second, base, brought)
        <4>1. IsFromBase(fromBase)
          BY <2>5 DEF IsFromBase
        <4> QED
          BY <2>4, <4>1, SecondSwapBrings, Zenon
      <3>4. brought = Path!SecondSwap(path, Path!BaseWithSlack(second, path.y2 - v))
        BY <2>3, <2>5, <3>1, <3>2, Zenon DEF Path!SecondSwap
      <3> QED
        BY <2>6, <2>9, <3>1, <3>2, <3>3, <3>4, Zenon DEF SecondBrings, Path!SecondSwapSuffices
    <2> QED
      BY <2>11, <2>12, <2>13
  <1>2. InputsInv => PathIsShortByRounding
    BY <1>1 DEF PathIsShortByRounding
  <1> QED
    BY <1>2, InputsAreKept, PTL
=============================================================================
