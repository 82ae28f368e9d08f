---------------------------- MODULE TotalsProofs ----------------------------
(***************************************************************************)
(* Totals of balances: how the number of units changes with one balance,   *)
(* and the laws of sums over finite sets, which rest on the two inductions *)
(* of this module: what holds is a set, not an operator.  The rules for    *)
(* quotients and products are those that every calculation needs.          *)
(***************************************************************************)
EXTENDS TokenUnits, Integers, FiniteSets, FiniteSetTheorems, TLAPS

-----------------------------------------------------------------------------
(* Quotients and products.                                                 *)

\* Floor division: the quotient and its bounds.
LEMMA DivBounds ==
  ASSUME NEW a \in Int, NEW b \in Int, b > 0
  PROVE  /\ a \div b \in Int
         /\ (a \div b) * b <= a
         /\ a < ((a \div b) + 1) * b
  BY SMT

\* A nonnegative number has a nonnegative quotient.
LEMMA DivNat ==
  ASSUME NEW a \in Nat, NEW b \in Nat, b > 0
  PROVE  a \div b \in Nat
  BY SMT

\* A product with a common positive factor is ordered as the other factors are.
LEMMA CancelFactor ==
  ASSUME NEW a \in Int, NEW b \in Int, NEW c \in Nat, a * c < b * c
  PROVE  a < b
  BY SMT

\* Multiplying both sides by a natural number keeps their order.
LEMMA ScaleLeq ==
  ASSUME NEW a \in Int, NEW b \in Int, NEW c \in Nat, a <= b
  PROVE  a * c <= b * c
  BY SMT

\* Multiplying both sides by a positive number keeps their strict order.
LEMMA ScaleLess ==
  ASSUME NEW a \in Int, NEW b \in Int, NEW c \in Nat, c > 0, a < b
  PROVE  a * c < b * c
  BY SMT

\* Numbers of the same square of which none is negative keep their order.
LEMMA SquareLeq ==
  ASSUME NEW a \in Nat, NEW b \in Nat, a <= b
  PROVE  a * a <= b * b
  <1>1. a * a <= b * a
    BY ScaleLeq
  <1>2. a * b <= b * b
    BY ScaleLeq
  <1>3. b * a = a * b /\ a * a \in Int /\ b * b \in Int /\ a * b \in Int
    BY SMT
  <1> QED
    BY <1>1, <1>2, <1>3

\* A quotient is monotone in its dividend.
LEMMA DivMonotone ==
  ASSUME NEW a \in Int, NEW b \in Int, NEW c \in Nat, c > 0, a <= b
  PROVE  a \div c <= b \div c
  <1> DEFINE x == a \div c  y == b \div c
  <1>1. x \in Int /\ x * c <= a
    BY DivBounds
  <1>2. y \in Int /\ b < (y + 1) * c
    BY DivBounds
  <1> HIDE DEF x, y
  <1>3. x * c \in Int /\ (y + 1) * c \in Int
    BY <1>1, <1>2
  <1>4. x * c < (y + 1) * c
    BY <1>1, <1>2, <1>3
  <1>5. x < y + 1
    BY <1>1, <1>2, <1>4, CancelFactor
  <1>6. x <= y
    BY <1>1, <1>2, <1>5
  <1> QED
    BY <1>6 DEF x, y

-----------------------------------------------------------------------------
(* Induction.                                                              *)

\* Every nonempty set of naturals has a least element.
LEMMA LeastElement ==
    ASSUME NEW S \in SUBSET Nat, S # {}
    PROVE  \E x \in S : \A y \in S : x <= y
  <1> DEFINE R == OpToRel(<, Nat)
  <1>1. IsWellFoundedOn(R, Nat)
    BY NatLessThanWellFounded
  <1>2. \A x, y \in Nat : x < y => <<x, y>> \in R
    BY DEF OpToRel
  <1> HIDE DEF R
  <1>3. PICK x \in S : \A y \in S : ~ (<<y, x>> \in R)
    BY <1>1, WFMin
  <1>4. ASSUME NEW y \in S
        PROVE  x <= y
    <2>1. x \in Nat /\ y \in Nat
      OBVIOUS
    <2>2. ~ (y < x)
      BY <1>2, <1>3, <2>1, Zenon
    <2> QED
      BY <2>1, <2>2
  <1> QED
    BY <1>4

\* A natural number has an integer square root.
LEMMA RootExists ==
    ASSUME NEW n \in Nat
    PROVE  \E r \in 0 .. n : r * r <= n /\ n < (r + 1) * (r + 1)
  <1> DEFINE above == {r \in Nat : n < (r + 1) * (r + 1)}
  <1>1. n \in above
    <2>1. n < (n + 1) * (n + 1)
      BY SMT
    <2> QED
      BY <2>1
  <1>2. PICK r \in above : \A k \in above : r <= k
    <2>1. above \in SUBSET Nat /\ above # {}
      BY <1>1
    <2> HIDE DEF above
    <2> QED
      BY <2>1, LeastElement
  <1>3. r \in Nat /\ n < (r + 1) * (r + 1) /\ r <= n
    BY <1>1, <1>2
  <1>4. r * r <= n
    <2>1. CASE r = 0
      BY <2>1
    <2>2. CASE r # 0
      <3>1. r - 1 \in Nat /\ ~ (r <= r - 1)
        BY <1>3, <2>2
      <3>2. r - 1 \notin above
        BY <1>2, <3>1
      <3>3. ~ (n < ((r - 1) + 1) * ((r - 1) + 1))
        BY <3>1, <3>2
      <3>4. (r - 1) + 1 = r
        BY <1>3
      <3>5. ~ (n < r * r) /\ r * r \in Int
        BY <1>3, <3>3, <3>4
      <3> QED
        BY <3>5
    <2> QED
      BY <2>1, <2>2
  <1> QED
    BY <1>3, <1>4

\* What holds of 0 and, with a number, of the next one holds of every number.
LEMMA UpFromZero ==
    ASSUME NEW Good, 0 \in Good, \A n \in Nat : n \in Good => n + 1 \in Good
    PROVE  Nat \subseteq Good
  <1> DEFINE bad == Nat \ Good
  <1> SUFFICES ASSUME bad # {} PROVE FALSE
    OBVIOUS
  <1>1. PICK n \in bad : \A k \in bad : n <= k
    BY LeastElement
  <1>2. n # 0 /\ n - 1 \in Nat /\ ~ (n <= n - 1)
    BY <1>1
  <1>3. n - 1 \in Good
    BY <1>1, <1>2
  <1>4. n - 1 + 1 = n
    BY <1>1
  <1> QED
    BY <1>1, <1>2, <1>3, <1>4

\* What holds of {} and, with a subset, of every one that has an element more, holds
\* of a finite set.
LEMMA UpFromEmpty ==
    ASSUME NEW S, IsFiniteSet(S), NEW Good, {} \in Good,
           \A T \in SUBSET S : \A x \in S \ T : T \in Good => T \cup {x} \in Good
    PROVE  S \in Good
  <1> DEFINE sizes == {n \in Nat : \A T \in SUBSET S : Cardinality(T) = n => T \in Good}
  <1>1. \A T \in SUBSET S : IsFiniteSet(T) /\ Cardinality(T) \in Nat
    BY FS_Subset, FS_CardinalityType
  <1>2. 0 \in sizes
    BY <1>1, FS_EmptySet
  <1>3. ASSUME NEW n \in Nat, n \in sizes PROVE n + 1 \in sizes
    <2> SUFFICES ASSUME NEW T \in SUBSET S, Cardinality(T) = n + 1 PROVE T \in Good
      OBVIOUS
    <2>1. T # {}
      <3>1. Cardinality({}) = 0 /\ n + 1 # 0
        BY FS_EmptySet
      <3> QED
        BY <3>1
    <2>2. PICK x : x \in T
      BY <2>1
    <2>3. Cardinality(T \ {x}) = n
      <3>1. Cardinality(T \ {x}) = Cardinality(T) - 1
        BY <1>1, <2>2, FS_RemoveElement
      <3> QED
        BY <3>1
    <2>4. T \ {x} \in SUBSET S /\ T \ {x} \in Good
      BY <1>3, <2>3
    <2>5. (T \ {x}) \cup {x} = T /\ x \in S \ (T \ {x})
      BY <2>2
    <2> QED
      BY <1>3, <2>2, <2>4, <2>5
  <1>4. Nat \subseteq sizes
    <2> HIDE DEF sizes
    <2> QED
      BY <1>2, <1>3, UpFromZero
  <1> QED
    BY <1>1, <1>4

-----------------------------------------------------------------------------
(* Sums over finite sets.                                                  *)

\* One step of a sum over the set s, g being the sums over the smaller sets.
SumStep(f, g, s) ==
    IF s = {} THEN 0 ELSE f[CHOOSE x \in s : TRUE] + g[s \ {CHOOSE x \in s : TRUE}]

\* g has the sums of f over every subset of S.
SumsTo(f, S, g) == g = [s \in SUBSET S |-> SumStep(f, g, s)]

\* The sums over subsets are defined.
LEMMA SumsExist ==
    ASSUME NEW f, NEW S, IsFiniteSet(S)
    PROVE  \E g : SumsTo(f, S, g)
  <1> DEFINE Small(n) == {s \in SUBSET S : Cardinality(s) <= n}
             Good == {n \in Nat : \E g : g = [s \in Small(n) |-> SumStep(f, g, s)]}
  <1>1. \A s \in SUBSET S : IsFiniteSet(s) /\ Cardinality(s) \in Nat
    BY FS_Subset, FS_CardinalityType
  <1>2. \A s \in SUBSET S : s # {} =>
            /\ s \ {CHOOSE x \in s : TRUE} \in SUBSET S
            /\ Cardinality(s \ {CHOOSE x \in s : TRUE}) = Cardinality(s) - 1
    BY <1>1, FS_RemoveElement
  <1>3. 0 \in Good
    <2> DEFINE g == [s \in Small(0) |-> 0]
    <2>1. \A s \in Small(0) : s = {}
      BY <1>1, FS_EmptySet
    <2>2. g = [s \in Small(0) |-> SumStep(f, g, s)]
      BY <2>1 DEF SumStep
    <2> QED
      BY <2>2
  <1>4. ASSUME NEW n \in Nat, n \in Good PROVE n + 1 \in Good
    <2>1. PICK g : g = [s \in Small(n) |-> SumStep(f, g, s)]
      BY <1>4
    <2> DEFINE h == [s \in Small(n + 1) |-> IF s \in Small(n) THEN g[s] ELSE SumStep(f, g, s)]
    <2>2. \A s \in Small(n + 1) : s # {} => s \ {CHOOSE x \in s : TRUE} \in Small(n)
      BY <1>1, <1>2
    <2>3. \A s \in Small(n) : s \in Small(n + 1)
      BY <1>1
    <2> HIDE DEF Small
    <2>4. \A s \in Small(n + 1) : h[s] = SumStep(f, g, s)
      BY <2>1
    <2>5. \A s \in Small(n) : h[s] = g[s]
      BY <2>3
    <2> HIDE DEF h
    <2>6. \A s \in Small(n + 1) : SumStep(f, g, s) = SumStep(f, h, s)
      BY <2>2, <2>5 DEF SumStep
    <2>7. h = [s \in Small(n + 1) |-> SumStep(f, h, s)]
      <3>1. h = [s \in Small(n + 1) |-> h[s]]
        BY DEF h
      <3> QED
        BY <2>4, <2>6, <3>1
    <2> QED
      BY <2>7
  <1>5. Nat \subseteq Good
    <2> HIDE DEF Good
    <2> QED
      BY <1>3, <1>4, UpFromZero
  <1>6. Cardinality(S) \in Nat /\ Small(Cardinality(S)) = SUBSET S
    BY <1>1, FS_Subset
  <1> QED
    BY <1>5, <1>6 DEF SumsTo

\* The sums over a subset do not depend on the set they are taken in.
LEMMA SumsAgree ==
    ASSUME NEW f, NEW S, IsFiniteSet(S), NEW T \in SUBSET S, NEW g, NEW h,
           SumsTo(f, S, g), SumsTo(f, T, h)
    PROVE  g[T] = h[T]
  <1> DEFINE Good == {n \in Nat : \A s \in SUBSET T : Cardinality(s) = n => g[s] = h[s]}
  <1>1. \A s \in SUBSET T : IsFiniteSet(s) /\ Cardinality(s) \in Nat /\ s \in SUBSET S
    BY FS_Subset, FS_CardinalityType
  <1>2. \A s \in SUBSET T : g[s] = SumStep(f, g, s) /\ h[s] = SumStep(f, h, s)
    <2>1. \A s \in SUBSET S : g[s] = SumStep(f, g, s)
      BY DEF SumsTo
    <2>2. \A s \in SUBSET T : h[s] = SumStep(f, h, s)
      BY DEF SumsTo
    <2> QED
      BY <1>1, <2>1, <2>2
  <1>3. 0 \in Good
    BY <1>1, <1>2, FS_EmptySet DEF SumStep
  <1>4. ASSUME NEW n \in Nat, n \in Good PROVE n + 1 \in Good
    <2> SUFFICES ASSUME NEW s \in SUBSET T, Cardinality(s) = n + 1 PROVE g[s] = h[s]
      OBVIOUS
    <2> DEFINE c == CHOOSE x \in s : TRUE
    <2>1. CASE s = {}
      BY <1>2, <2>1 DEF SumStep
    <2>2. CASE s # {}
      <3>1. c \in s
        BY <2>2
      <3> HIDE DEF c
      <3>2. s \ {c} \in SUBSET T
        OBVIOUS
      <3>3. Cardinality(s \ {c}) = Cardinality(s) - 1
        BY <1>1, <3>1, FS_RemoveElement
      <3>4. g[s \ {c}] = h[s \ {c}]
        BY <1>4, <3>2, <3>3
      <3> QED
        BY <1>2, <2>2, <3>4 DEF SumStep, c
    <2> QED
      BY <2>1, <2>2
  <1>5. Nat \subseteq Good
    <2> HIDE DEF Good
    <2> QED
      BY <1>3, <1>4, UpFromZero
  <1> QED
    BY <1>1, <1>5

\* The sum over a set is one of those sums.
LEMMA SumIs ==
    ASSUME NEW f, NEW S, IsFiniteSet(S)
    PROVE  \E g : SumsTo(f, S, g) /\ SumFunctionOnSet(f, S) = g[S]
  <1> DEFINE iter == CHOOSE g : SumsTo(f, S, g)
  <1>1. SumsTo(f, S, iter)
    BY SumsExist
  <1>2. SumFunctionOnSet(f, S) = iter[S]
    BY DEF SumsTo, SumStep, SumFunctionOnSet, FoldFunctionOnSet, MapThenFoldSet
  <1> QED
    BY <1>1, <1>2

\* The sum takes the elements of a set one after the other.
LEMMA SumPicked ==
    ASSUME NEW f, NEW S, IsFiniteSet(S)
    PROVE  SumFunctionOnSet(f, S) =
               IF S = {} THEN 0
               ELSE LET c == CHOOSE x \in S : TRUE
                    IN  f[c] + SumFunctionOnSet(f, S \ {c})
  <1>1. PICK g : SumsTo(f, S, g) /\ SumFunctionOnSet(f, S) = g[S]
    BY SumIs
  <1>2. g[S] = SumStep(f, g, S)
    <2>1. S \in SUBSET S
      OBVIOUS
    <2> QED
      BY <1>1, <2>1 DEF SumsTo
  <1>3. \A T \in SUBSET S : g[T] = SumFunctionOnSet(f, T)
    <2> TAKE T \in SUBSET S
    <2>1. IsFiniteSet(T)
      BY FS_Subset
    <2>2. PICK h : SumsTo(f, T, h) /\ SumFunctionOnSet(f, T) = h[T]
      BY <2>1, SumIs
    <2> QED
      BY <1>1, <2>2, SumsAgree
  <1>4. S \ {CHOOSE x \in S : TRUE} \in SUBSET S
    OBVIOUS
  <1> QED
    BY <1>1, <1>2, <1>3, <1>4 DEF SumStep

\* The sum over nothing.
LEMMA SumNothing == ASSUME NEW f PROVE SumFunctionOnSet(f, {}) = 0
  BY SumPicked, FS_EmptySet

\* A sum of integers is one.
LEMMA SumInt ==
    ASSUME NEW f, NEW S, IsFiniteSet(S), \A x \in S : f[x] \in Int
    PROVE  SumFunctionOnSet(f, S) \in Int
  <1> DEFINE Good == {n \in Nat : \A T \in SUBSET S :
                         Cardinality(T) = n => SumFunctionOnSet(f, T) \in Int}
  <1>1. \A T \in SUBSET S : IsFiniteSet(T) /\ Cardinality(T) \in Nat
    BY FS_Subset, FS_CardinalityType
  <1>2. 0 \in Good
    BY <1>1, FS_EmptySet, SumNothing
  <1>3. ASSUME NEW n \in Nat, n \in Good PROVE n + 1 \in Good
    <2> SUFFICES ASSUME NEW T \in SUBSET S, Cardinality(T) = n + 1
                 PROVE  SumFunctionOnSet(f, T) \in Int
      OBVIOUS
    <2> DEFINE c == CHOOSE x \in T : TRUE
    <2>1. CASE T = {}
      BY <2>1, SumNothing
    <2>2. CASE T # {}
      <3>1. c \in T
        BY <2>2
      <3>2. SumFunctionOnSet(f, T) = f[c] + SumFunctionOnSet(f, T \ {c})
        BY <1>1, <2>2, SumPicked
      <3> HIDE DEF c
      <3>3. T \ {c} \in SUBSET S
        OBVIOUS
      <3>4. Cardinality(T \ {c}) = Cardinality(T) - 1
        BY <1>1, <3>1, FS_RemoveElement
      <3>5. SumFunctionOnSet(f, T \ {c}) \in Int
        BY <1>3, <3>3, <3>4
      <3> QED
        BY <3>1, <3>2, <3>5
    <2> QED
      BY <2>1, <2>2
  <1>4. Nat \subseteq Good
    <2> HIDE DEF Good
    <2> QED
      BY <1>2, <1>3, UpFromZero
  <1> QED
    BY <1>1, <1>4

\* Any element can be taken out of a sum, whichever the sum takes first.
LEMMA SumRemove ==
    ASSUME NEW f, NEW S, IsFiniteSet(S), \A x \in S : f[x] \in Int, NEW a \in S
    PROVE  SumFunctionOnSet(f, S) = f[a] + SumFunctionOnSet(f, S \ {a})
  <1> DEFINE Good == {n \in Nat : \A T \in SUBSET S : Cardinality(T) = n =>
                         \A y \in T : SumFunctionOnSet(f, T)
                                        = f[y] + SumFunctionOnSet(f, T \ {y})}
  <1>1. \A T \in SUBSET S : /\ IsFiniteSet(T) /\ Cardinality(T) \in Nat
                            /\ SumFunctionOnSet(f, T) \in Int
    <2> TAKE T \in SUBSET S
    <2>1. IsFiniteSet(T)
      BY FS_Subset
    <2>2. \A x \in T : f[x] \in Int
      OBVIOUS
    <2> QED
      BY <2>1, <2>2, FS_CardinalityType, SumInt
  <1>2. 0 \in Good
    BY <1>1, FS_EmptySet
  <1>3. ASSUME NEW n \in Nat, n \in Good PROVE n + 1 \in Good
    <2> SUFFICES ASSUME NEW T \in SUBSET S, Cardinality(T) = n + 1, NEW y \in T
                 PROVE  SumFunctionOnSet(f, T) = f[y] + SumFunctionOnSet(f, T \ {y})
      OBVIOUS
    <2> DEFINE c == CHOOSE x \in T : TRUE
    <2>1. c \in T
      OBVIOUS
    <2>2. SumFunctionOnSet(f, T) = f[c] + SumFunctionOnSet(f, T \ {c})
      BY <1>1, SumPicked
    <2> HIDE DEF c
    <2>3. T \ {c} \in SUBSET S /\ T \ {y} \in SUBSET S
      OBVIOUS
    <2>4. Cardinality(T \ {c}) = n /\ Cardinality(T \ {y}) = n
      <3>1. Cardinality(T \ {c}) = Cardinality(T) - 1 /\ Cardinality(T \ {y}) = Cardinality(T) - 1
        BY <1>1, <2>1, FS_RemoveElement
      <3> QED
        BY <3>1
    <2>5. CASE c = y
      BY <2>2, <2>5
    <2>6. CASE c # y
      <3>1. SumFunctionOnSet(f, T \ {c}) = f[y] + SumFunctionOnSet(f, (T \ {c}) \ {y})
        <4>1. y \in T \ {c}
          BY <2>6
        <4> QED
          BY <1>3, <2>3, <2>4, <4>1
      <3>2. SumFunctionOnSet(f, T \ {y}) = f[c] + SumFunctionOnSet(f, (T \ {y}) \ {c})
        <4>1. c \in T \ {y}
          BY <2>1, <2>6
        <4> QED
          BY <1>3, <2>3, <2>4, <4>1
      <3>3. (T \ {c}) \ {y} = (T \ {y}) \ {c} /\ (T \ {c}) \ {y} \in SUBSET S
        OBVIOUS
      <3>4. SumFunctionOnSet(f, (T \ {c}) \ {y}) \in Int /\ f[c] \in Int /\ f[y] \in Int
        BY <1>1, <2>1, <3>3
      <3> DEFINE rest == SumFunctionOnSet(f, (T \ {c}) \ {y})
      <3>5. f[c] + (f[y] + rest) = f[y] + (f[c] + rest)
        BY <3>4
      <3> QED
        BY <2>2, <3>1, <3>2, <3>3, <3>5
    <2> QED
      BY <2>5, <2>6
  <1>4. Nat \subseteq Good
    <2> HIDE DEF Good
    <2> QED
      BY <1>2, <1>3, UpFromZero
  <1> QED
    BY <1>1, <1>4

\* A sum over one element more.
LEMMA SumAdd ==
    ASSUME NEW f, NEW S, IsFiniteSet(S), NEW a, a \notin S,
           \A x \in S \cup {a} : f[x] \in Int
    PROVE  SumFunctionOnSet(f, S \cup {a}) = f[a] + SumFunctionOnSet(f, S)
  <1>1. IsFiniteSet(S \cup {a})
    BY FS_AddElement
  <1>2. (S \cup {a}) \ {a} = S /\ a \in S \cup {a}
    OBVIOUS
  <1> QED
    BY <1>1, <1>2, SumRemove

\* Sums are added element by element.
LEMMA SumPlus ==
    ASSUME NEW S, IsFiniteSet(S), NEW f, NEW g, NEW h,
           \A x \in S : f[x] \in Int /\ g[x] \in Int /\ h[x] = f[x] + g[x]
    PROVE  SumFunctionOnSet(h, S) = SumFunctionOnSet(f, S) + SumFunctionOnSet(g, S)
  <1> DEFINE Good == {T \in SUBSET S : SumFunctionOnSet(h, T)
                         = SumFunctionOnSet(f, T) + SumFunctionOnSet(g, T)}
  <1>1. {} \in Good
    BY SumNothing
  <1>2. ASSUME NEW T \in SUBSET S, NEW x \in S \ T, T \in Good PROVE T \cup {x} \in Good
    <2>1. IsFiniteSet(T) /\ \A y \in T \cup {x} : f[y] \in Int /\ g[y] \in Int /\ h[y] \in Int
      BY FS_Subset
    <2>2. /\ SumFunctionOnSet(f, T \cup {x}) = f[x] + SumFunctionOnSet(f, T)
          /\ SumFunctionOnSet(g, T \cup {x}) = g[x] + SumFunctionOnSet(g, T)
          /\ SumFunctionOnSet(h, T \cup {x}) = h[x] + SumFunctionOnSet(h, T)
      BY <2>1, SumAdd
    <2>3. SumFunctionOnSet(f, T) \in Int /\ SumFunctionOnSet(g, T) \in Int
      BY <2>1, SumInt
    <2>4. h[x] = f[x] + g[x] /\ f[x] \in Int /\ g[x] \in Int
      OBVIOUS
    <2>5. SumFunctionOnSet(h, T) = SumFunctionOnSet(f, T) + SumFunctionOnSet(g, T)
      BY <1>2
    <2> HIDE DEF Good
    <2>6. SumFunctionOnSet(h, T \cup {x})
             = SumFunctionOnSet(f, T \cup {x}) + SumFunctionOnSet(g, T \cup {x})
      BY <2>2, <2>3, <2>4, <2>5
    <2> QED
      BY <2>6 DEF Good
  <1>3. S \in Good
    <2> HIDE DEF Good
    <2> QED
      BY <1>1, <1>2, UpFromEmpty
  <1> QED
    BY <1>3

\* A sum is monotone in its summands.
LEMMA SumMonotone ==
    ASSUME NEW S, IsFiniteSet(S), NEW f, NEW g,
           \A x \in S : f[x] \in Int /\ g[x] \in Int /\ f[x] <= g[x]
    PROVE  SumFunctionOnSet(f, S) <= SumFunctionOnSet(g, S)
  <1> DEFINE Good == {T \in SUBSET S : SumFunctionOnSet(f, T) <= SumFunctionOnSet(g, T)}
  <1>1. {} \in Good
    BY SumNothing
  <1>2. ASSUME NEW T \in SUBSET S, NEW x \in S \ T, T \in Good PROVE T \cup {x} \in Good
    <2>1. IsFiniteSet(T) /\ \A y \in T \cup {x} : f[y] \in Int /\ g[y] \in Int
      BY FS_Subset
    <2>2. /\ SumFunctionOnSet(f, T \cup {x}) = f[x] + SumFunctionOnSet(f, T)
          /\ SumFunctionOnSet(g, T \cup {x}) = g[x] + SumFunctionOnSet(g, T)
      BY <2>1, SumAdd
    <2>3. SumFunctionOnSet(f, T) \in Int /\ SumFunctionOnSet(g, T) \in Int
      BY <2>1, SumInt
    <2>4. f[x] <= g[x] /\ f[x] \in Int /\ g[x] \in Int
      OBVIOUS
    <2>5. SumFunctionOnSet(f, T) <= SumFunctionOnSet(g, T)
      BY <1>2
    <2> HIDE DEF Good
    <2>6. SumFunctionOnSet(f, T \cup {x}) <= SumFunctionOnSet(g, T \cup {x})
      BY <2>2, <2>3, <2>4, <2>5
    <2> QED
      BY <2>6 DEF Good
  <1>3. S \in Good
    <2> HIDE DEF Good
    <2> QED
      BY <1>1, <1>2, UpFromEmpty
  <1> QED
    BY <1>3

\* Where nothing is added outside S, the sum over T is the sum over S.
LEMMA SumOn ==
    ASSUME NEW T, IsFiniteSet(T), NEW S \in SUBSET T, NEW f, NEW g,
           \A x \in S : f[x] \in Int /\ g[x] = f[x],
           \A x \in T \ S : g[x] = 0
    PROVE  SumFunctionOnSet(g, T) = SumFunctionOnSet(f, S)
  <1> DEFINE D == T \ S
             Good == {X \in SUBSET D : SumFunctionOnSet(g, S \cup X) = SumFunctionOnSet(f, S)}
  <1>1. IsFiniteSet(S) /\ IsFiniteSet(D)
    BY FS_Subset
  <1>2. {} \in Good
    <2>1. \A x \in S : f[x] \in Int /\ g[x] \in Int /\ f[x] <= g[x] /\ g[x] <= f[x]
      OBVIOUS
    <2>2. /\ SumFunctionOnSet(f, S) <= SumFunctionOnSet(g, S)
          /\ SumFunctionOnSet(g, S) <= SumFunctionOnSet(f, S)
      BY <1>1, <2>1, SumMonotone
    <2>3. SumFunctionOnSet(f, S) \in Int /\ SumFunctionOnSet(g, S) \in Int
      BY <1>1, <2>1, SumInt
    <2>4. SumFunctionOnSet(g, S) = SumFunctionOnSet(f, S) /\ S \cup {} = S
      BY <2>2, <2>3
    <2> QED
      BY <2>4
  <1>3. ASSUME NEW X \in SUBSET D, NEW x \in D \ X, X \in Good PROVE X \cup {x} \in Good
    <2>1. /\ IsFiniteSet(S \cup X) /\ x \notin S \cup X
          /\ \A y \in (S \cup X) \cup {x} : g[y] \in Int
      BY <1>1, FS_Subset, FS_Union
    <2>2. SumFunctionOnSet(g, (S \cup X) \cup {x}) = g[x] + SumFunctionOnSet(g, S \cup X)
      BY <2>1, SumAdd
    <2>3. g[x] = 0 /\ SumFunctionOnSet(g, S \cup X) \in Int
      BY <2>1, SumInt
    <2>4. SumFunctionOnSet(g, S \cup X) = SumFunctionOnSet(f, S)
      BY <1>3
    <2>5. (S \cup X) \cup {x} = S \cup (X \cup {x})
      OBVIOUS
    <2>6. SumFunctionOnSet(g, (S \cup X) \cup {x}) = SumFunctionOnSet(f, S)
      BY <2>2, <2>3, <2>4
    <2> QED
      BY <2>5, <2>6
  <1>4. D \in Good
    <2> HIDE DEF Good, D
    <2> QED
      BY <1>1, <1>2, <1>3, UpFromEmpty
  <1>5. S \cup D = T
    OBVIOUS
  <1> QED
    BY <1>4, <1>5

\* A function that is zero but for a has the sum of its value there.
LEMMA SumSingle ==
    ASSUME NEW T, IsFiniteSet(T), NEW a \in T, NEW g, g[a] \in Int,
           \A x \in T \ {a} : g[x] = 0
    PROVE  SumFunctionOnSet(g, T) = g[a]
  <1>1. SumFunctionOnSet(g, T) = SumFunctionOnSet(g, {a})
    <2>1. {a} \in SUBSET T /\ \A x \in {a} : g[x] \in Int /\ g[x] = g[x]
      OBVIOUS
    <2> QED
      BY <2>1, SumOn
  <1>2. SumFunctionOnSet(g, {} \cup {a}) = g[a] + SumFunctionOnSet(g, {})
    <2>1. IsFiniteSet({}) /\ a \notin {} /\ \A x \in {} \cup {a} : g[x] \in Int
      BY FS_EmptySet
    <2> QED
      BY <2>1, SumAdd
  <1>3. {} \cup {a} = {a}
    OBVIOUS
  <1> QED
    BY <1>1, <1>2, <1>3, SumNothing

\* The last of several summands in a row is added to those before it.
LEMMA SumNext ==
    ASSUME NEW n \in Nat, NEW f, \A i \in 1 .. (n + 1) : f[i] \in Int
    PROVE  /\ SumFunctionOnSet(f, 1 .. n) \in Int
           /\ SumFunctionOnSet(f, 1 .. (n + 1)) = SumFunctionOnSet(f, 1 .. n) + f[n + 1]
  <1>1. /\ IsFiniteSet(1 .. n) /\ n + 1 \notin 1 .. n
        /\ (1 .. n) \cup {n + 1} = 1 .. (n + 1) /\ f[n + 1] \in Int
    BY FS_Interval
  <1>2. SumFunctionOnSet(f, 1 .. n) \in Int
    <2>1. \A i \in 1 .. n : f[i] \in Int
      OBVIOUS
    <2> QED
      BY <1>1, <2>1, SumInt
  <1>3. SumFunctionOnSet(f, (1 .. n) \cup {n + 1})
          = f[n + 1] + SumFunctionOnSet(f, 1 .. n)
    BY <1>1, SumAdd
  <1>4. SumFunctionOnSet(f, 1 .. (n + 1)) = f[n + 1] + SumFunctionOnSet(f, 1 .. n)
    BY <1>1, <1>3
  <1>5. f[n + 1] \in Int
    BY <1>1
  <1> QED
    BY <1>2, <1>4, <1>5

\* Summands that are the steps of a function add up to what it rises by.
LEMMA SumSteps ==
    ASSUME NEW n \in Nat, NEW f, NEW g,
           \A i \in 0 .. n : g[i] \in Int,
           \A i \in 1 .. n : f[i] = g[i] - g[i - 1]
    PROVE  SumFunctionOnSet(f, 1 .. n) = g[n] - g[0]
  <1> DEFINE Good == {k \in Nat : k <= n => SumFunctionOnSet(f, 1 .. k) = g[k] - g[0]}
  <1>1. \A i \in 1 .. n : f[i] \in Int
    <2> SUFFICES ASSUME NEW i \in 1 .. n PROVE f[i] \in Int
      OBVIOUS
    <2>1. i \in 0 .. n /\ i - 1 \in 0 .. n
      OBVIOUS
    <2> QED
      BY <2>1
  <1>2. 0 \in Good
    <2>1. 1 .. 0 = {} /\ g[0] - g[0] = 0
      OBVIOUS
    <2> QED
      BY <2>1, SumNothing
  <1>3. ASSUME NEW k \in Nat, k \in Good
        PROVE  k + 1 \in Good
    <2> SUFFICES ASSUME k + 1 <= n
                 PROVE  SumFunctionOnSet(f, 1 .. (k + 1)) = g[k + 1] - g[0]
      OBVIOUS
    <2>1. SumFunctionOnSet(f, 1 .. k) = g[k] - g[0]
      BY <1>3
    <2>2. SumFunctionOnSet(f, 1 .. (k + 1)) = SumFunctionOnSet(f, 1 .. k) + f[k + 1]
      <3>1. \A i \in 1 .. (k + 1) : f[i] \in Int
        BY <1>1
      <3> QED
        BY <3>1, SumNext
    <2>3. f[k + 1] = g[k + 1] - g[k]
      <3>1. k + 1 \in 1 .. n /\ (k + 1) - 1 = k
        OBVIOUS
      <3> QED
        BY <3>1
    <2>4. g[k] \in Int /\ g[k + 1] \in Int /\ g[0] \in Int
      OBVIOUS
    <2> QED
      BY <2>1, <2>2, <2>3, <2>4
  <1> HIDE DEF Good
  <1>4. n \in Good
    BY <1>2, <1>3, UpFromZero
  <1> QED
    BY <1>4 DEF Good

\* A common factor of the summands is a factor of their sum.
LEMMA SumScale ==
    ASSUME NEW n \in Nat, NEW f, NEW h, NEW c \in Int,
           \A i \in 1 .. n : f[i] \in Int /\ h[i] = c * f[i]
    PROVE  SumFunctionOnSet(h, 1 .. n) = c * SumFunctionOnSet(f, 1 .. n)
  <1> DEFINE Good == {k \in Nat : k <= n =>
                        SumFunctionOnSet(h, 1 .. k) = c * SumFunctionOnSet(f, 1 .. k)}
  <1>1. 0 \in Good
    <2>1. 1 .. 0 = {} /\ c * 0 = 0
      OBVIOUS
    <2> QED
      BY <2>1, SumNothing
  <1>2. ASSUME NEW k \in Nat, k \in Good
        PROVE  k + 1 \in Good
    <2> SUFFICES ASSUME k + 1 <= n
                 PROVE  SumFunctionOnSet(h, 1 .. (k + 1))
                          = c * SumFunctionOnSet(f, 1 .. (k + 1))
      OBVIOUS
    <2>1. SumFunctionOnSet(h, 1 .. k) = c * SumFunctionOnSet(f, 1 .. k)
      BY <1>2
    <2>2. \A i \in 1 .. (k + 1) : f[i] \in Int /\ h[i] = c * f[i]
      OBVIOUS
    <2>3. \A i \in 1 .. (k + 1) : h[i] \in Int
      BY <2>2
    <2>4. /\ SumFunctionOnSet(f, 1 .. k) \in Int
          /\ SumFunctionOnSet(f, 1 .. (k + 1)) = SumFunctionOnSet(f, 1 .. k) + f[k + 1]
      BY <2>2, SumNext
    <2>5. SumFunctionOnSet(h, 1 .. (k + 1)) = SumFunctionOnSet(h, 1 .. k) + h[k + 1]
      BY <2>3, SumNext
    <2>6. f[k + 1] \in Int /\ h[k + 1] = c * f[k + 1]
      BY <2>2
    <2> QED
      BY <2>1, <2>4, <2>5, <2>6
  <1> HIDE DEF Good
  <1>3. n \in Good
    BY <1>1, <1>2, UpFromZero
  <1> QED
    BY <1>3 DEF Good

\* A part of a sum of numbers that are not negative is at most the sum.
LEMMA SumPart ==
    ASSUME NEW T, IsFiniteSet(T), NEW S \in SUBSET T, NEW f, \A x \in T : f[x] \in Nat
    PROVE  /\ SumFunctionOnSet(f, S) \in Nat
           /\ SumFunctionOnSet(f, S) <= SumFunctionOnSet(f, T)
  <1>1. ASSUME NEW U \in SUBSET T, NEW V \in SUBSET U
        PROVE  SumFunctionOnSet(f, V) <= SumFunctionOnSet(f, U)
    <2> DEFINE g == [x \in U |-> IF x \in V THEN f[x] ELSE 0]
    <2>1. IsFiniteSet(U)
      BY FS_Subset
    <2>2. /\ \A x \in V : f[x] \in Int /\ g[x] = f[x]
          /\ \A x \in U \ V : g[x] = 0
          /\ \A x \in U : g[x] \in Int /\ f[x] \in Int /\ g[x] <= f[x]
      OBVIOUS
    <2> HIDE DEF g
    <2>3. SumFunctionOnSet(g, U) = SumFunctionOnSet(f, V)
      BY <2>1, <2>2, SumOn
    <2>4. SumFunctionOnSet(g, U) <= SumFunctionOnSet(f, U)
      BY <2>1, <2>2, SumMonotone
    <2> QED
      BY <2>3, <2>4
  <1>2. SumFunctionOnSet(f, S) \in Int
    <2>1. IsFiniteSet(S) /\ \A x \in S : f[x] \in Int
      BY FS_Subset
    <2> QED
      BY <2>1, SumInt
  <1>3. SumFunctionOnSet(f, {}) <= SumFunctionOnSet(f, S)
    <2>1. {} \in SUBSET S /\ S \in SUBSET T
      OBVIOUS
    <2> QED
      BY <1>1, <2>1
  <1>4. SumFunctionOnSet(f, S) <= SumFunctionOnSet(f, T)
    <2>1. T \in SUBSET T
      OBVIOUS
    <2> QED
      BY <1>1, <2>1
  <1>5. SumFunctionOnSet(f, S) \in Nat
    BY <1>2, <1>3, SumNothing
  <1> QED
    BY <1>4, <1>5

\* Every summand may be off by as much as a constant.
LEMMA SumSlack ==
    ASSUME NEW n \in Nat, NEW f, NEW g, NEW c \in Int,
           \A i \in 1 .. n : f[i] \in Int /\ g[i] \in Int /\ f[i] <= g[i] + c
    PROVE  SumFunctionOnSet(f, 1 .. n) <= SumFunctionOnSet(g, 1 .. n) + n * c
  <1> DEFINE k == [i \in 1 .. n |-> c]
             m == [i \in 0 .. n |-> i * c]
             h == [i \in 1 .. n |-> g[i] + c]
  <1>1. SumFunctionOnSet(k, 1 .. n) = n * c
    <2>1. \A i \in 0 .. n : m[i] \in Int
      OBVIOUS
    <2>2. \A i \in 1 .. n : k[i] = m[i] - m[i - 1]
      <3> SUFFICES ASSUME NEW i \in 1 .. n PROVE k[i] = m[i] - m[i - 1]
        OBVIOUS
      <3>1. m[i] = i * c /\ m[i - 1] = (i - 1) * c /\ k[i] = c
        OBVIOUS
      <3>2. i * c - (i - 1) * c = c
        OBVIOUS
      <3> QED
        BY <3>1, <3>2
    <2>3. m[n] = n * c /\ m[0] = 0 /\ n * c \in Int
      OBVIOUS
    <2> HIDE DEF k, m
    <2>4. SumFunctionOnSet(k, 1 .. n) = m[n] - m[0]
      BY <2>1, <2>2, SumSteps
    <2> QED
      BY <2>3, <2>4
  <1>2. \A i \in 1 .. n : g[i] \in Int /\ k[i] \in Int /\ h[i] = g[i] + k[i]
    OBVIOUS
  <1>3. \A i \in 1 .. n : f[i] \in Int /\ h[i] \in Int /\ f[i] <= h[i]
    OBVIOUS
  <1> HIDE DEF k, h
  <1>4. IsFiniteSet(1 .. n)
    BY FS_Interval
  <1>5. SumFunctionOnSet(h, 1 .. n)
          = SumFunctionOnSet(g, 1 .. n) + SumFunctionOnSet(k, 1 .. n)
    BY <1>2, <1>4, SumPlus
  <1>6. SumFunctionOnSet(f, 1 .. n) <= SumFunctionOnSet(h, 1 .. n)
    BY <1>3, <1>4, SumMonotone
  <1> QED
    BY <1>1, <1>5, <1>6

-----------------------------------------------------------------------------
(* Units of a currency.                                                    *)

\* n more units of account a are n more elements, all of them new.
LEMMA AddUnits ==
  ASSUME NEW A, NEW f \in [A -> Nat], NEW a \in A, NEW n \in Nat,
         IsFiniteSet(UnitsOf(f)),
         NEW g \in [A -> Nat], g[a] = f[a] + n, \A b \in A \ {a} : g[b] = f[b]
  PROVE  /\ IsFiniteSet(UnitsOf(g))
         /\ Cardinality(UnitsOf(g)) = Cardinality(UnitsOf(f)) + n
  <1> DEFINE new == {a} \X ((f[a] + 1) .. (f[a] + n))
  <1>1. g \in [A -> Nat] /\ DOMAIN g = A /\ DOMAIN f = A /\ f[a] \in Nat
    OBVIOUS
  <1>2. UnitsOf(g) = UnitsOf(f) \cup new
    BY <1>1 DEF UnitsOf
  <1>3. UnitsOf(f) \cap new = {}
    BY <1>1 DEF UnitsOf
  <1>4. IsFiniteSet({a}) /\ Cardinality({a}) = 1
    BY FS_Singleton
  <1>5. IsFiniteSet((f[a] + 1) .. (f[a] + n))
        /\ Cardinality((f[a] + 1) .. (f[a] + n)) = n
    <2> DEFINE lo == f[a] + 1
               hi == f[a] + n
    <2>1. lo \in Int /\ hi \in Int /\ hi - lo + 1 = n /\ (lo > hi => n = 0)
      BY <1>1
    <2> HIDE DEF lo, hi
    <2>2. /\ IsFiniteSet(lo .. hi)
          /\ Cardinality(lo .. hi) = IF lo > hi THEN 0 ELSE hi - lo + 1
      BY <2>1, FS_Interval
    <2>3. IsFiniteSet(lo .. hi) /\ Cardinality(lo .. hi) = n
      BY <2>1, <2>2
    <2>4. QED  BY <2>3 DEF lo, hi
  <1>6. IsFiniteSet(new) /\ Cardinality(new) = n
    <2> DEFINE indices == (f[a] + 1) .. (f[a] + n)
    <2> HIDE DEF indices
    <2>1. IsFiniteSet(indices) /\ Cardinality(indices) = n
      BY <1>5 DEF indices
    <2>2. IsFiniteSet({a} \X indices) /\ Cardinality({a} \X indices) = 1 * n
      BY <1>4, <2>1, FS_Product
    <2>3. QED  BY <2>2 DEF indices
  <1> HIDE DEF new
  <1>7. /\ IsFiniteSet(UnitsOf(f) \cup new)
        /\ Cardinality(UnitsOf(f) \cup new) =
              Cardinality(UnitsOf(f)) + Cardinality(new) - Cardinality({})
    BY <1>3, <1>6, FS_Union
  <1>8. Cardinality({}) = 0 /\ Cardinality(UnitsOf(f)) \in Nat
    BY FS_EmptySet, FS_CardinalityType
  <1>9. Cardinality(UnitsOf(f)) + n - 0 = Cardinality(UnitsOf(f)) + n
    BY <1>8
  <1>10. QED  BY <1>2, <1>6, <1>7, <1>8, <1>9

\* n units less of an account that has them: the converse of AddUnits, and the
\* account cannot hold more than there are.
LEMMA RemoveUnits ==
  ASSUME NEW A, NEW f \in [A -> Nat], NEW a \in A, NEW n \in Nat, n <= f[a],
         IsFiniteSet(UnitsOf(f)),
         NEW g \in [A -> Nat], g[a] = f[a] - n, \A b \in A \ {a} : g[b] = f[b]
  PROVE  /\ IsFiniteSet(UnitsOf(g))
         /\ Cardinality(UnitsOf(f)) = Cardinality(UnitsOf(g)) + n
         /\ Cardinality(UnitsOf(g)) \in Nat
  <1>1. g \in [A -> Nat] /\ DOMAIN g = A /\ DOMAIN f = A
    OBVIOUS
  <1>2. UnitsOf(g) \subseteq UnitsOf(f)
    BY <1>1 DEF UnitsOf
  <1>3. IsFiniteSet(UnitsOf(g))
    BY <1>2, FS_Subset
  <1>4. g[a] + n = f[a] /\ f[a] \in Nat
    OBVIOUS
  <1>5. f[a] = g[a] + n /\ \A b \in A \ {a} : f[b] = g[b]
    BY <1>4
  <1>6. Cardinality(UnitsOf(f)) = Cardinality(UnitsOf(g)) + n
    BY <1>1, <1>3, <1>5, AddUnits
  <1>7. Cardinality(UnitsOf(g)) \in Nat
    BY <1>3, FS_CardinalityType
  <1>8. QED  BY <1>3, <1>6, <1>7
=============================================================================
