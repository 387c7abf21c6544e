-------------------------- MODULE StockLedgerProofs --------------------------
(***************************************************************************)
(* Lemmas about the helpers of StockLedger: least and greatest elements of  *)
(* finite sets, and the sum of the quantities of a finite set of rows.      *)
(***************************************************************************)
EXTENDS StockLedger, FiniteSetTheorems, WellFoundedInduction, TLAPS

-----------------------------------------------------------------------------
(* Induction over a finite set, stated for the set G of the subsets of S    *)
(* that have the property.                                                  *)
LEMMA SubsetInduction ==
    ASSUME NEW S, IsFiniteSet(S), NEW G,
           \A T \in SUBSET S :
              (\A U \in SUBSET T : U # T => U \in G) => T \in G
    PROVE  \A T \in SUBSET S : T \in G
<1> DEFINE Bad == {T \in SUBSET S : T \notin G}
<1>1. IsWellFoundedOn(StrictSubsetOrdering(S), SUBSET S)
  BY FS_StrictSubsetOrderingWellFounded, FS_FiniteSubsetsOfFinite
<1>2. SUFFICES ASSUME Bad # {} PROVE FALSE
  OBVIOUS
<1>3. PICK T \in Bad : \A U \in Bad : ~(<<U, T>> \in StrictSubsetOrdering(S))
  <2> Bad \subseteq SUBSET S
    OBVIOUS
  <2> HIDE DEF Bad
  <2> QED
    BY <1>1, <1>2, WFMin
<1>4. ASSUME NEW U \in SUBSET T, U # T PROVE U \in G
  BY <1>3, <1>4 DEF StrictSubsetOrdering
<1> QED
  BY <1>3, <1>4

(* The same, adding one element at a time.                                  *)
LEMMA ElementInduction ==
    ASSUME NEW S, IsFiniteSet(S), NEW G, {} \in G,
           \A T \in SUBSET S : \A x \in T : T \ {x} \in G => T \in G
    PROVE  \A T \in SUBSET S : T \in G
<1>1. ASSUME NEW T \in SUBSET S, \A U \in SUBSET T : U # T => U \in G
      PROVE  T \in G
  <2>1. CASE T = {}
    BY <2>1
  <2>2. CASE T # {}
    <3>1. PICK x \in T : TRUE
      BY <2>2
    <3>2. T \ {x} \in SUBSET T /\ T \ {x} # T
      OBVIOUS
    <3> QED
      BY <1>1, <3>2
  <2> QED
    BY <2>1, <2>2
<1> QED
  BY <1>1, SubsetInduction

(* The image of a finite set is finite.                                     *)
LEMMA ImageIsFinite ==
    ASSUME NEW S, IsFiniteSet(S), NEW f, DOMAIN f = S
    PROVE  IsFiniteSet({f[x] : x \in S})
<1> DEFINE g == [x \in S |-> f[x]]
           T == {f[x] : x \in S}
<1>1. g \in Surjection(S, T)
  BY DEF Surjection
<1> QED
  BY <1>1, FS_Surjection

-----------------------------------------------------------------------------
(* Least and greatest elements. *)

(* A nonempty set of naturals has its minimum as an element.               *)
LEMMA MinIsElement ==
    ASSUME NEW S \in SUBSET Nat, S # {}
    PROVE  Min(S) \in S /\ \A y \in S : Min(S) <= y
<1> DEFINE Less == {ss \in Nat \X Nat : ss[1] < ss[2]}
<1>1. IsWellFoundedOn(Less, Nat)
  BY NatLessThanWellFounded DEF OpToRel
<1>2. PICK x \in S : \A y \in S : ~(<<y, x>> \in Less)
  <2> HIDE DEF Less
  <2> QED
    BY <1>1, WFMin
<1>3. ASSUME NEW y \in S PROVE x <= y
  <2>1. x \in Nat /\ y \in Nat /\ ~(<<y, x>> \in Less)
    BY <1>2
  <2>2. ~(y < x)
    BY <2>1
  <2> QED
    BY <2>1, <2>2
<1> QED
  BY <1>3 DEF Min

(* Induction over the numbers up to N, for the set G of those that have the *)
(* property.                                                                *)
LEMMA StepInduction ==
    ASSUME NEW N \in Nat, NEW G, 0 \in G,
           \A n \in 0..N : n < N /\ n \in G => n + 1 \in G
    PROVE  \A n \in 0..N : n \in G
<1> DEFINE Bad == {n \in 0..N : n \notin G}
<1>1. SUFFICES ASSUME Bad # {} PROVE FALSE
  OBVIOUS
<1>2. Bad \in SUBSET Nat
  OBVIOUS
<1>3. Min(Bad) \in Bad /\ \A n \in Bad : Min(Bad) <= n
  <2> HIDE DEF Bad
  <2> QED
    BY <1>1, <1>2, MinIsElement
<1>4. PICK n \in Bad : \A m \in Bad : n <= m
  BY <1>3
<1>5. n \in 0..N /\ n # 0 /\ n \notin G
  OBVIOUS
<1>6. n - 1 \in 0..N /\ n - 1 < N /\ n - 1 \notin Bad
  BY <1>4, <1>5
<1> QED
  BY <1>5, <1>6

(* A finite nonempty set of integers has a least and a greatest element.    *)
LEMMA ExtremesExist ==
    ASSUME NEW S \in SUBSET Int, IsFiniteSet(S), S # {}
    PROVE  /\ Min(S) \in S /\ \A y \in S : Min(S) <= y
           /\ Max(S) \in S /\ \A y \in S : Max(S) >= y
<1> DEFINE G == {T \in SUBSET S : T = {} \/
                    /\ \E x \in T : \A y \in T : x <= y
                    /\ \E x \in T : \A y \in T : x >= y}
<1>1. ASSUME NEW T \in SUBSET S, NEW z \in T, T \ {z} \in G PROVE T \in G
  <2>1. CASE T = {z}
    <3>1. z <= z /\ z >= z
      OBVIOUS
    <3> QED
      BY <2>1, <3>1
  <2>2. CASE T # {z}
    <3>1. PICK x \in T \ {z} : \A y \in T \ {z} : x <= y
      BY <1>1, <2>2
    <3>2. \E w \in T : \A y \in T : w <= y
      <4>1. CASE x <= z
        <5>1. \A y \in T : x <= y
          BY <3>1, <4>1
        <5> QED
          BY <5>1
      <4>2. CASE z <= x
        <5>1. \A y \in T : z <= y
          BY <3>1, <4>2
        <5> QED
          BY <5>1
      <4> QED
        BY <4>1, <4>2
    <3>3. PICK x2 \in T \ {z} : \A y \in T \ {z} : x2 >= y
      BY <1>1, <2>2
    <3>4. \E w \in T : \A y \in T : w >= y
      <4>1. CASE x2 >= z
        <5>1. \A y \in T : x2 >= y
          BY <3>3, <4>1
        <5> QED
          BY <5>1
      <4>2. CASE z >= x2
        <5>1. \A y \in T : z >= y
          BY <3>3, <4>2
        <5> QED
          BY <5>1
      <4> QED
        BY <4>1, <4>2
    <3> QED
      BY <3>2, <3>4
  <2> QED
    BY <2>1, <2>2
<1>2. S \in G
  <2> {} \in G
    OBVIOUS
  <2> HIDE DEF G
  <2> QED
    BY <1>1, ElementInduction
<1> QED
  BY <1>2 DEF Min, Max

-----------------------------------------------------------------------------
(* The sum of the quantities of a finite set of rows. *)

(* One unfolding of the recursive function behind the fold, over the        *)
(* subsets of S.                                                           *)
Unfold(S, f) ==
    [s \in SUBSET S |->
        IF s = {} THEN 0
        ELSE (CHOOSE x \in s : TRUE).qty + f[s \ {CHOOSE x \in s : TRUE}]]

LEMMA TotalIsFold ==
    ASSUME NEW S
    PROVE  Total(S) = (CHOOSE f : f = Unfold(S, f))[S]
  BY DEF Total, MapThenSumSet, MapThenFoldSet, Unfold

(* The recursion determines its values, whatever larger set it is over.     *)
LEMMA FoldsAgree ==
    ASSUME NEW S, NEW T \in SUBSET S, IsFiniteSet(T),
           NEW f, f = Unfold(S, f), NEW g, g = Unfold(T, g)
    PROVE  f[T] = g[T]
<1> DEFINE G == {U \in SUBSET T : f[U] = g[U]}
<1>1. ASSUME NEW U \in SUBSET T, \A V \in SUBSET U : V # U => V \in G
      PROVE  U \in G
  <2>1. f[U] = IF U = {} THEN 0
               ELSE (CHOOSE x \in U : TRUE).qty + f[U \ {CHOOSE x \in U : TRUE}]
    <3>1. f[U] = Unfold(S, f)[U] /\ U \in SUBSET S
      OBVIOUS
    <3> QED
      BY ONLY <3>1 DEF Unfold
  <2>2. g[U] = IF U = {} THEN 0
               ELSE (CHOOSE x \in U : TRUE).qty + g[U \ {CHOOSE x \in U : TRUE}]
    <3>1. g[U] = Unfold(T, g)[U] /\ U \in SUBSET T
      OBVIOUS
    <3> QED
      BY ONLY <3>1 DEF Unfold
  <2>3. CASE U = {}
    BY <2>1, <2>2, <2>3
  <2>4. CASE U # {}
    <3>1. (CHOOSE x \in U : TRUE) \in U
      BY <2>4
    <3>2. U \ {CHOOSE x \in U : TRUE} \in G
      BY <1>1, <3>1
    <3> QED
      BY <2>1, <2>2, <2>4, <3>2
  <2> QED
    BY <2>3, <2>4
<1>2. T \in G
  <2> HIDE DEF G
  <2> QED
    BY <1>1, SubsetInduction
<1> QED
  BY <1>2

(* The fold's recursive function exists over every finite set.              *)
LEMMA FoldExists ==
    ASSUME NEW S, IsFiniteSet(S)
    PROVE  \A T \in SUBSET S : \E f : f = Unfold(T, f)
<1> DEFINE G == {T \in SUBSET S : \E f : f = Unfold(T, f)}
<1>1. ASSUME NEW T \in SUBSET S, \A U \in SUBSET T : U # T => U \in G
      PROVE  T \in G
  <2> DEFINE x(s) == CHOOSE y \in s : TRUE
             f == [s \in SUBSET T |->
                     IF s = {} THEN 0 ELSE x(s).qty + Total(s \ {x(s)})]
  <2>1. ASSUME NEW U \in SUBSET T, U # T
        PROVE  Total(U) = f[U]
    <3> DEFINE g == CHOOSE h : h = Unfold(U, h)
    <3>1. g = Unfold(U, g) /\ Total(U) = g[U]
      <4>1. \E h : h = Unfold(U, h)
        BY <1>1, <2>1
      <4> QED
        BY <4>1, TotalIsFold
    <3>2. g[U] = IF U = {} THEN 0 ELSE x(U).qty + g[U \ {x(U)}]
      <4>1. g[U] = Unfold(U, g)[U] /\ U \in SUBSET U
        BY <3>1
      <4> HIDE DEF g
      <4> QED
        BY ONLY <4>1 DEF Unfold
    <3>3. CASE U = {}
      <4> HIDE DEF g
      <4> QED
        BY <3>1, <3>2, <3>3
    <3>4. CASE U # {}
      <4> DEFINE V == U \ {x(U)}
                 k == CHOOSE h : h = Unfold(V, h)
      <4>1. x(U) \in U
        BY <3>4
      <4>2. V \in SUBSET U /\ V \in SUBSET T /\ V # T /\ IsFiniteSet(V)
        BY <4>1, FS_Subset
      <4>3. k = Unfold(V, k) /\ Total(V) = k[V]
        <5>1. \E h : h = Unfold(V, h)
          BY <1>1, <4>2
        <5> QED
          BY <5>1, TotalIsFold
      <4>4. g[V] = k[V]
        <5> HIDE DEF g, k, V
        <5> QED
          BY <3>1, <4>2, <4>3, FoldsAgree
      <4>5. f[U] = x(U).qty + Total(V)
        BY <3>4
      <4> HIDE DEF f, g, k
      <4> QED
        BY <3>1, <3>2, <3>4, <4>3, <4>4, <4>5
    <3> QED
      BY <3>3, <3>4
  <2>2. f = Unfold(T, f)
    <3>1. ASSUME NEW s \in SUBSET T, s # {}
          PROVE  Total(s \ {x(s)}) = f[s \ {x(s)}]
      <4>1. x(s) \in s
        BY <3>1
      <4>2. s \ {x(s)} \in SUBSET T /\ s \ {x(s)} # T
        BY <4>1
      <4> HIDE DEF f, x
      <4> QED
        BY <2>1, <4>2
    <3>2. f = [s \in SUBSET T |->
                 IF s = {} THEN 0 ELSE x(s).qty + f[s \ {x(s)}]]
      <4>1. ASSUME NEW s \in SUBSET T
            PROVE  f[s] = IF s = {} THEN 0 ELSE x(s).qty + f[s \ {x(s)}]
        <5>1. f[s] = IF s = {} THEN 0 ELSE x(s).qty + Total(s \ {x(s)})
          OBVIOUS
        <5> HIDE DEF f, x
        <5> QED
          BY <3>1, <5>1
      <4>2. DOMAIN f = SUBSET T /\ f = [s \in DOMAIN f |-> f[s]]
        OBVIOUS
      <4> HIDE DEF f, x
      <4> QED
        BY <4>1, <4>2
    <3> HIDE DEF f
    <3> QED
      BY <3>2 DEF Unfold
  <2> HIDE DEF f
  <2> QED
    BY <2>2
<1>2. \A T \in SUBSET S : T \in G
  <2> HIDE DEF G
  <2> QED
    BY <1>1, SubsetInduction
<1> QED
  BY <1>2

(* The sum unfolds at the element the fold chooses.                         *)
LEMMA TotalUnfolds ==
    ASSUME NEW S, IsFiniteSet(S)
    PROVE  Total(S) = IF S = {} THEN 0
                      ELSE (CHOOSE x \in S : TRUE).qty
                           + Total(S \ {CHOOSE x \in S : TRUE})
<1> DEFINE f == CHOOSE h : h = Unfold(S, h)
           x == CHOOSE y \in S : TRUE
           T == S \ {x}
           g == CHOOSE h : h = Unfold(T, h)
<1>1. f = Unfold(S, f) /\ Total(S) = f[S]
  <2>1. \E h : h = Unfold(S, h)
    BY FoldExists
  <2> QED
    BY <2>1, TotalIsFold
<1>2. g = Unfold(T, g) /\ Total(T) = g[T]
  <2>1. \E h : h = Unfold(T, h)
    BY FoldExists
  <2> QED
    BY <2>1, TotalIsFold
<1>3. T \in SUBSET S /\ IsFiniteSet(T)
  BY FS_Subset
<1>4. f[T] = g[T]
  <2> HIDE DEF f, g, T
  <2> QED
    BY <1>1, <1>2, <1>3, FoldsAgree
<1>5. f[S] = IF S = {} THEN 0 ELSE x.qty + f[T]
  <2>1. f[S] = Unfold(S, f)[S] /\ S \in SUBSET S
    BY <1>1
  <2> HIDE DEF f
  <2> QED
    BY ONLY <2>1 DEF Unfold
<1> HIDE DEF f, g
<1> QED
  BY <1>1, <1>2, <1>4, <1>5

(* The sum over no rows.                                                    *)
LEMMA TotalOfNone == Total({}) = 0
  BY TotalUnfolds, FS_EmptySet

(* Rows that can be summed.                                                 *)
Summable(S) == IsFiniteSet(S) /\ \A m \in S : m.qty \in Int

LEMMA SummableParts ==
    ASSUME NEW S, Summable(S)
    PROVE  \A T \in SUBSET S : Summable(T)
  BY FS_Subset DEF Summable

LEMMA TotalIsInt ==
    ASSUME NEW S, Summable(S)
    PROVE  \A T \in SUBSET S : Total(T) \in Int
<1> DEFINE G == {T \in SUBSET S : Total(T) \in Int}
<1>1. ASSUME NEW T \in SUBSET S, \A U \in SUBSET T : U # T => U \in G
      PROVE  T \in G
  <2>1. CASE T = {}
    BY <2>1, TotalOfNone
  <2>2. CASE T # {}
    <3> DEFINE x == CHOOSE y \in T : TRUE
    <3>1. x \in T /\ x.qty \in Int
      BY <2>2 DEF Summable
    <3>2. T \ {x} \in G
      BY <1>1, <3>1
    <3>3. Total(T) = x.qty + Total(T \ {x})
      BY <2>2, TotalUnfolds, SummableParts DEF Summable
    <3> HIDE DEF x
    <3> QED
      BY <3>1, <3>2, <3>3
  <2> QED
    BY <2>1, <2>2
<1>2. \A T \in SUBSET S : T \in G
  <2> HIDE DEF G
  <2> QED
    BY <1>1, SubsetInduction DEF Summable
<1> QED
  BY <1>2

(* Any row may be taken out of the sum first.                               *)
LEMMA TotalTakesOut ==
    ASSUME NEW S, Summable(S)
    PROVE  \A T \in SUBSET S : \A x \in T : Total(T) = x.qty + Total(T \ {x})
<1> DEFINE G == {T \in SUBSET S :
                    \A x \in T : Total(T) = x.qty + Total(T \ {x})}
<1>1. ASSUME NEW T \in SUBSET S, \A U \in SUBSET T : U # T => U \in G
      PROVE  T \in G
  <2> SUFFICES ASSUME NEW x \in T
               PROVE  Total(T) = x.qty + Total(T \ {x})
    OBVIOUS
  <2> DEFINE c == CHOOSE y \in T : TRUE
             U == T \ {c, x}
  <2>1. c \in T /\ c.qty \in Int /\ x.qty \in Int
    BY DEF Summable
  <2>2. Total(T) = c.qty + Total(T \ {c})
    BY TotalUnfolds, SummableParts DEF Summable
  <2>3. CASE c = x
    BY <2>2, <2>3
  <2>4. CASE c # x
    <3>1. /\ T \ {c} \in G /\ x \in T \ {c}
          /\ T \ {x} \in G /\ c \in T \ {x}
      <4> HIDE DEF G
      <4> QED
        BY <1>1, <2>1, <2>4
    <3>2. (T \ {c}) \ {x} = U /\ (T \ {x}) \ {c} = U
      OBVIOUS
    <3>3. Total(T \ {c}) = x.qty + Total(U) /\ Total(T \ {x}) = c.qty + Total(U)
      <4> HIDE DEF c
      <4> QED
        BY <3>1, <3>2
    <3>4. Total(U) \in Int
      BY TotalIsInt
    <3> HIDE DEF c, U
    <3> QED
      BY <2>1, <2>2, <3>3, <3>4
  <2> QED
    BY <2>3, <2>4
<1>2. \A T \in SUBSET S : T \in G
  <2> HIDE DEF G
  <2> QED
    BY <1>1, SubsetInduction DEF Summable
<1> QED
  BY <1>2

(* The sum over two sets without a common row.                              *)
LEMMA TotalOfUnion ==
    ASSUME NEW S, NEW T, Summable(S), Summable(T), S \cap T = {}
    PROVE  /\ Summable(S \cup T)
           /\ Total(S) \in Int /\ Total(T) \in Int
           /\ Total(S \cup T) = Total(S) + Total(T)
<1> DEFINE G == {U \in SUBSET T : Total(S \cup U) = Total(S) + Total(U)}
<1>1. Summable(S \cup T)
  BY FS_Union DEF Summable
<1>2. Total(S) \in Int /\ \A U \in SUBSET T : Total(U) \in Int
  BY TotalIsInt
<1>3. {} \in G
  <2>1. S \cup {} = S
    OBVIOUS
  <2> QED
    BY <1>2, <2>1, TotalOfNone
<1>4. ASSUME NEW U \in SUBSET T, NEW x \in U, U \ {x} \in G PROVE U \in G
  <2>1. Total(U) = x.qty + Total(U \ {x})
    BY TotalTakesOut
  <2>2. Total(S \cup U) = x.qty + Total((S \cup U) \ {x})
    BY <1>1, TotalTakesOut
  <2>3. (S \cup U) \ {x} = S \cup (U \ {x})
    OBVIOUS
  <2>4. x.qty \in Int
    BY DEF Summable
  <2> QED
    BY <1>2, <1>4, <2>1, <2>2, <2>3, <2>4
<1>5. T \in G
  <2>1. IsFiniteSet(T)
    BY DEF Summable
  <2> HIDE DEF G
  <2>2. \A V \in SUBSET T : V \in G
    BY <1>3, <1>4, <2>1, ElementInduction
  <2> QED
    BY <2>2
<1> QED
  BY <1>1, <1>2, <1>5

(* Rows without a quantity do not count.                                    *)
LEMMA TotalWithoutZeros ==
    ASSUME NEW S, Summable(S)
    PROVE  Total(S) = Total({m \in S : m.qty # 0})
<1> DEFINE some(T) == {m \in T : m.qty # 0}
           G == {T \in SUBSET S : Total(T) = Total(some(T))}
<1>1. {} \in G
  <2> some({}) = {}
    OBVIOUS
  <2> QED
    OBVIOUS
<1>2. ASSUME NEW T \in SUBSET S, NEW x \in T, T \ {x} \in G PROVE T \in G
  <2>1. Total(T) = x.qty + Total(T \ {x})
    BY TotalTakesOut
  <2>2. Total(T \ {x}) \in Int /\ x.qty \in Int
    BY TotalIsInt DEF Summable
  <2>3. CASE x.qty = 0
    <3>1. some(T) = some(T \ {x})
      BY <2>3
    <3>2. Total(T \ {x}) = Total(some(T \ {x}))
      BY <1>2
    <3> HIDE DEF some
    <3>3. Total(T) = Total(some(T))
      BY <2>1, <2>2, <2>3, <3>1, <3>2
    <3> QED
      BY <3>3
  <2>4. CASE x.qty # 0
    <3>1. some(T) \ {x} = some(T \ {x}) /\ x \in some(T)
      BY <2>4
    <3>2. Total(some(T)) = x.qty + Total(some(T) \ {x})
      BY <3>1, TotalTakesOut
    <3> QED
      BY <1>2, <2>1, <3>1, <3>2
  <2> QED
    BY <2>3, <2>4
<1>3. S \in G
  <2>1. IsFiniteSet(S)
    BY DEF Summable
  <2> HIDE DEF G
  <2>2. \A V \in SUBSET S : V \in G
    BY <1>1, <1>2, <2>1, ElementInduction
  <2> QED
    BY <2>2
<1> QED
  BY <1>3

(* Rows written for other rows, one for each and with the same quantity,    *)
(* have the same sum; with the opposite quantity, the opposite sum.         *)
LEMMA TotalOfCopies ==
    ASSUME NEW S, Summable(S), NEW f, DOMAIN f = S,
           \A x, y \in S : f[x] = f[y] => x = y,
           \A x \in S : f[x].qty = x.qty
    PROVE  Total({f[x] : x \in S}) = Total(S)
<1> DEFINE I(T) == {f[x] : x \in T}
           G == {T \in SUBSET S : Total(I(T)) = Total(T)}
<1>1. Summable(I(S))
  BY ImageIsFinite DEF Summable
<1>2. {} \in G
  <2> I({}) = {}
    OBVIOUS
  <2> QED
    OBVIOUS
<1>3. ASSUME NEW T \in SUBSET S, NEW x \in T, T \ {x} \in G PROVE T \in G
  <2>1. Total(T) = x.qty + Total(T \ {x})
    BY TotalTakesOut
  <2>2. I(T) \in SUBSET I(S) /\ f[x] \in I(T) /\ I(T) \ {f[x]} = I(T \ {x})
    OBVIOUS
  <2>3. Total(I(T)) = f[x].qty + Total(I(T) \ {f[x]})
    <3> HIDE DEF I
    <3> QED
      BY <1>1, <2>2, TotalTakesOut
  <2> QED
    BY <1>3, <2>1, <2>2, <2>3
<1>4. S \in G
  <2>1. IsFiniteSet(S)
    BY DEF Summable
  <2> HIDE DEF G
  <2>2. \A V \in SUBSET S : V \in G
    BY <1>2, <1>3, <2>1, ElementInduction
  <2> QED
    BY <2>2
<1> QED
  BY <1>4

LEMMA TotalOfOpposites ==
    ASSUME NEW S, Summable(S), NEW f, DOMAIN f = S,
           \A x, y \in S : f[x] = f[y] => x = y,
           \A x \in S : f[x].qty = -x.qty
    PROVE  Total({f[x] : x \in S}) = -Total(S)
<1> DEFINE I(T) == {f[x] : x \in T}
           G == {T \in SUBSET S : Total(I(T)) = -Total(T)}
<1>1. Summable(I(S))
  BY ImageIsFinite DEF Summable
<1>2. {} \in G
  <2> I({}) = {}
    OBVIOUS
  <2> QED
    BY TotalOfNone
<1>3. ASSUME NEW T \in SUBSET S, NEW x \in T, T \ {x} \in G PROVE T \in G
  <2>1. Total(T) = x.qty + Total(T \ {x})
    BY TotalTakesOut
  <2>2. I(T) \in SUBSET I(S) /\ f[x] \in I(T) /\ I(T) \ {f[x]} = I(T \ {x})
    OBVIOUS
  <2>3. Total(I(T)) = f[x].qty + Total(I(T) \ {f[x]})
    <3> HIDE DEF I
    <3> QED
      BY <1>1, <2>2, TotalTakesOut
  <2>4. Total(T \ {x}) \in Int /\ x.qty \in Int
    BY TotalIsInt DEF Summable
  <2>5. f[x].qty = -x.qty /\ Total(I(T \ {x})) = -Total(T \ {x})
    BY <1>3
  <2>6. Total(I(T)) = -Total(T)
    <3>1. Total(I(T)) = f[x].qty + Total(I(T \ {x}))
      BY <2>2, <2>3
    <3> HIDE DEF I
    <3>2. Total(I(T)) = -x.qty + -Total(T \ {x})
      BY <2>5, <3>1
    <3> QED
      BY <2>1, <2>4, <3>2
  <2> QED
    BY <2>6
<1>4. S \in G
  <2>1. IsFiniteSet(S)
    BY DEF Summable
  <2> HIDE DEF G
  <2>2. \A V \in SUBSET S : V \in G
    BY <1>2, <1>3, <2>1, ElementInduction
  <2> QED
    BY <2>2
<1> QED
  BY <1>4

(* Over any part of the rows, the sum lies between that of the negative and *)
(* that of the other quantities.                                            *)
LEMMA TotalIsBetween ==
    ASSUME NEW S, Summable(S)
    PROVE  \A T \in SUBSET S :
              /\ Total({m \in S : m.qty < 0}) <= Total(T)
              /\ Total(T) <= Total({m \in S : m.qty >= 0})
<1> DEFINE out(R) == {m \in R : m.qty < 0}
           in(R) == {m \in R : m.qty >= 0}
           G == {R \in SUBSET S : \A T \in SUBSET R :
                   Total(out(R)) <= Total(T) /\ Total(T) <= Total(in(R))}
<1>1. \A T \in SUBSET S : Total(T) \in Int
  BY TotalIsInt
<1>2. {} \in G
  <2> out({}) = {} /\ in({}) = {} /\ \A T \in SUBSET {} : T = {}
    OBVIOUS
  <2> QED
    BY TotalOfNone
<1>3. ASSUME NEW R \in SUBSET S, NEW x \in R, R \ {x} \in G PROVE R \in G
  <2> DEFINE Q == R \ {x}
  <2>1. x.qty \in Int
    BY DEF Summable
  <2>2. \/ x.qty < 0 /\ out(R) \ {x} = out(Q) /\ in(R) = in(Q) /\ x \in out(R)
        \/ x.qty >= 0 /\ in(R) \ {x} = in(Q) /\ out(R) = out(Q) /\ x \in in(R)
    BY <2>1
  <2>3. \/ x.qty < 0 /\ Total(out(R)) = x.qty + Total(out(Q))
                     /\ Total(in(R)) = Total(in(Q))
        \/ x.qty >= 0 /\ Total(in(R)) = x.qty + Total(in(Q))
                      /\ Total(out(R)) = Total(out(Q))
    <3>1. out(R) \in SUBSET S /\ in(R) \in SUBSET S
      OBVIOUS
    <3> HIDE DEF out, in, Q
    <3> QED
      BY <2>2, <3>1, TotalTakesOut
  <2>4. ASSUME NEW T \in SUBSET R
        PROVE  Total(out(R)) <= Total(T) /\ Total(T) <= Total(in(R))
    <3>1. T \ {x} \in SUBSET Q /\ Q \in SUBSET S
          /\ out(Q) \in SUBSET S /\ in(Q) \in SUBSET S
          /\ T \ {x} \in SUBSET S
      OBVIOUS
    <3>2. Total(out(Q)) <= Total(T \ {x}) /\ Total(T \ {x}) <= Total(in(Q))
      BY <1>3
    <3>3. Total(T) = Total(T \ {x}) \/ Total(T) = x.qty + Total(T \ {x})
      <4>1. CASE x \in T
        BY <4>1, TotalTakesOut
      <4>2. CASE x \notin T
        <5> T \ {x} = T
          BY <4>2
        <5> QED
          OBVIOUS
      <4> QED
        BY <4>1, <4>2
    <3>4. Total(out(Q)) \in Int /\ Total(in(Q)) \in Int /\ Total(T \ {x}) \in Int
      BY <1>1, <3>1
    <3> HIDE DEF out, in, Q
    <3> QED
      BY <2>1, <2>3, <3>2, <3>3, <3>4
  <2> QED
    BY <2>4
<1>4. S \in G
  <2>1. IsFiniteSet(S)
    BY DEF Summable
  <2> HIDE DEF G
  <2>2. \A V \in SUBSET S : V \in G
    BY <1>2, <1>3, <2>1, ElementInduction
  <2> QED
    BY <2>2
<1> QED
  BY <1>4

-----------------------------------------------------------------------------
(* What the ledger derives. *)

(* A range is missing or a pair.                                           *)
LEMMA RangeShape ==
    ASSUME NEW ledger
    PROVE  \/ Derive(ledger).range = NoRange
           \/ \E a, b : Derive(ledger).range = <<a, b>>
  BY DEF Derive

(* A product without counts has the sum of its movements, whatever the      *)
(* settlements are.                                                        *)
LEMMA DeriveWithoutCounts ==
    ASSUME NEW one, NEW other, one.counts = {}, other.counts = {},
           one.movements = other.movements
    PROVE  Derive(one) = Derive(other)
  BY DEF Derive

(* Of a finite nonempty set of counts one comes first in the order of       *)
(* effective_counts: the representative is one of the effective counts.     *)
LEMMA RepresentativeIsEffective ==
    ASSUME NEW counts, IsFiniteSet(counts), EffectiveCounts(counts) # {},
           \A c \in counts : /\ c.value \in Int /\ c.id \in Int
                             /\ c.fresh \in BOOLEAN
    PROVE  Representative(counts) \in EffectiveCounts(counts)
<1> DEFINE E == EffectiveCounts(counts)
           G == {T \in SUBSET E :
                   T = {} \/ \E c \in T : \A other \in T : ComesFirst(c, other)}
<1>1. E \in SUBSET counts /\ IsFiniteSet(E)
  BY FS_Subset DEF EffectiveCounts
<1>2. ASSUME NEW T \in SUBSET E, NEW x \in T, T \ {x} \in G PROVE T \in G
  <2>1. ComesFirst(x, x)
    BY <1>1 DEF ComesFirst
  <2>2. CASE T = {x}
    BY <2>1, <2>2
  <2>3. CASE T # {x}
    <3>1. PICK c \in T \ {x} : \A other \in T \ {x} : ComesFirst(c, other)
      BY <1>2, <2>3
    <3>2. CASE ComesFirst(c, x)
      <4>1. \A other \in T : ComesFirst(c, other)
        BY <3>1, <3>2
      <4> QED
        BY <4>1
    <3>3. CASE ~ComesFirst(c, x)
      <4>1. ASSUME NEW other \in T PROVE ComesFirst(x, other)
        <5>1. other = x \/ ComesFirst(c, other)
          BY <3>1
        <5>2. /\ c \in counts /\ x \in counts /\ other \in counts
          BY <1>1
        <5> QED
          BY <2>1, <3>3, <5>1, <5>2 DEF ComesFirst
      <4> QED
        BY <4>1
    <3> QED
      BY <3>2, <3>3
  <2> QED
    BY <2>2, <2>3
<1>3. E \in G
  <2> {} \in G
    OBVIOUS
  <2> HIDE DEF G, E
  <2>1. \A T \in SUBSET E : T \in G
    BY <1>1, <1>2, ElementInduction
  <2> QED
    BY <2>1
<1> QED
  BY <1>3 DEF Representative

(* The stocks the records allow as seen from one count: the movements after *)
(* it and any part of those it leaves undetermined.                         *)
Open(c, ledger) ==
    {m \in ledger.movements : Undetermined(c, m, ledger.settlements)}

Sure(c, ledger) ==
    {m \in ledger.movements \ Open(c, ledger) :
        ~Included(c, m, ledger.settlements)}

StocksFrom(c, ledger) ==
    {c.value + Total(Sure(c, ledger) \cup applied) :
        applied \in SUBSET Open(c, ledger)}

(* from_count: low and high are the least and the greatest of these stocks, *)
(* and without anything undetermined there is one.                          *)
LEMMA FromCountSpans ==
    ASSUME NEW ledger, Summable(ledger.movements), NEW c, c.value \in Int
    PROVE  LET part == FromCount(c, ledger)
               stocks == StocksFrom(c, ledger)
           IN  /\ stocks \subseteq Int
               /\ part.stock \in stocks
               /\ part.low \in stocks /\ part.high \in stocks
               /\ \A x \in stocks : part.low <= x /\ x <= part.high
               /\ ~part.undeterminedSettlement /\ ~part.undeterminedMovement
                     => stocks = {part.stock}
<1> DEFINE part == FromCount(c, ledger)
           open == Open(c, ledger)
           sure == Sure(c, ledger)
           out == {m \in open : m.qty < 0}
           in == {m \in open : m.qty >= 0}
           base == c.value + Total(sure)
<1>1. /\ open \in SUBSET ledger.movements /\ sure \in SUBSET ledger.movements
      /\ sure \cap open = {}
  BY DEF Open, Sure
<1>2. sure = {m \in ledger.movements :
                /\ ~Included(c, m, ledger.settlements)
                /\ ~Undetermined(c, m, ledger.settlements)}
  BY DEF Open, Sure
<1>3. /\ part.low = base + Total(out) /\ part.high = base + Total(in)
      /\ part.stock = base + Total(out) + Total(in)
      /\ part.undeterminedMovement = \E m \in open : m.settlement = NoSettlement
      /\ (\E m \in open : m.settlement # NoSettlement)
            => part.undeterminedSettlement
  BY <1>2 DEF FromCount, Open
<1>4. Summable(open) /\ Summable(sure) /\ Total(sure) \in Int
  BY <1>1, SummableParts, TotalIsInt
<1>5. ASSUME NEW applied \in SUBSET open
      PROVE  /\ Total(applied) \in Int
             /\ c.value + Total(sure \cup applied) = base + Total(applied)
  <2>1. Summable(applied) /\ sure \cap applied = {}
    BY <1>1, <1>4, SummableParts
  <2>2. /\ Total(sure \cup applied) = Total(sure) + Total(applied)
        /\ Total(applied) \in Int
    <3> HIDE DEF sure
    <3> QED
      BY <1>4, <2>1, TotalOfUnion
  <2> HIDE DEF sure
  <2> QED
    BY <1>4, <2>2
<1>6. /\ out \in SUBSET open /\ in \in SUBSET open /\ open \in SUBSET open
      /\ out \cap in = {}
  BY <1>4 DEF Summable
<1>7. out \cup in = open
  BY <1>4 DEF Summable
<1>8. StocksFrom(c, ledger) = {base + Total(applied) : applied \in SUBSET open}
  <2>1. StocksFrom(c, ledger)
          = {c.value + Total(sure \cup applied) : applied \in SUBSET open}
    BY DEF StocksFrom
  <2> HIDE DEF open, sure, base
  <2> QED
    BY <1>5, <2>1
<1>9. Total(open) = Total(out) + Total(in)
  <2>1. Summable(out) /\ Summable(in)
    BY <1>4, <1>6, SummableParts
  <2> HIDE DEF out, in, open
  <2> QED
    BY <1>6, <1>7, <2>1, TotalOfUnion
<1>10. \A applied \in SUBSET open :
          Total(out) <= Total(applied) /\ Total(applied) <= Total(in)
  BY <1>4, TotalIsBetween
<1>11. base \in Int
  BY <1>4
<1>12. part.stock = base + Total(open)
  <2>1. Total(out) \in Int /\ Total(in) \in Int
    BY <1>5, <1>6
  <2> HIDE DEF part, base, open, sure, out, in
  <2> QED
    BY <1>3, <1>9, <1>11, <2>1
<1>13. ~part.undeterminedSettlement /\ ~part.undeterminedMovement => open = {}
  BY <1>3
<1> DEFINE stocks == {base + Total(applied) : applied \in SUBSET open}
<1>14. stocks \subseteq Int /\ part.stock \in stocks
       /\ part.low \in stocks /\ part.high \in stocks
  <2> HIDE DEF part, base, open, out, in
  <2>1. ASSUME NEW applied \in SUBSET open
        PROVE  base + Total(applied) \in Int
    <3>1. Total(applied) \in Int
      BY <1>5
    <3> QED
      BY <1>11, <3>1
  <2>2. \A applied \in SUBSET open : base + Total(applied) \in stocks
    OBVIOUS
  <2>3. stocks \subseteq Int
    BY <2>1
  <2> HIDE DEF stocks
  <2>4. part.stock \in stocks
    BY <1>6, <1>12, <2>2
  <2>5. part.low \in stocks /\ part.high \in stocks
    BY <1>3, <1>6, <2>2
  <2> QED
    BY <2>3, <2>4, <2>5
<1>15. ASSUME NEW x \in stocks PROVE part.low <= x /\ x <= part.high
  <2>1. Total(out) \in Int /\ Total(in) \in Int
    BY <1>5, <1>6
  <2> HIDE DEF part, base, open, out, in
  <2>2. PICK applied \in SUBSET open : x = base + Total(applied)
    OBVIOUS
  <2>3. /\ Total(applied) \in Int
        /\ Total(out) <= Total(applied) /\ Total(applied) <= Total(in)
    BY <1>5, <1>10
  <2> QED
    BY <1>3, <1>11, <2>1, <2>2, <2>3
<1>16. ASSUME open = {} PROVE stocks = {part.stock}
  <2> HIDE DEF part, base, open
  <2>1. \A applied \in SUBSET open : applied = open
    BY <1>16
  <2> QED
    BY <1>12, <2>1
<1> HIDE DEF part, open, stocks
<1> QED
  BY <1>8, <1>13, <1>14, <1>15, <1>16 DEF part, stocks

(* The bases of a product's counts.                                         *)
LEMMA BasesAreEffective ==
    ASSUME NEW counts, IsFiniteSet(counts), EffectiveCounts(counts) # {},
           \A c \in counts : /\ c.value \in Int /\ c.id \in Int
                             /\ c.fresh \in BOOLEAN
    PROVE  /\ Bases(counts) \in SUBSET counts /\ IsFiniteSet(Bases(counts))
           /\ Representative(counts) \in Bases(counts)
           /\ ~Conflicting(counts) => Bases(counts) = {Representative(counts)}
<1>1. Representative(counts) \in EffectiveCounts(counts)
  BY RepresentativeIsEffective
<1>2. Bases(counts) \in SUBSET counts
  BY <1>1 DEF Bases, EffectiveCounts
<1>3. IsFiniteSet(Bases(counts))
  BY <1>2, FS_Subset
<1> QED
  BY <1>1, <1>2, <1>3 DEF Bases

(* derive_ledger: the range is the span of the stocks the records allow     *)
(* over all bases; without a range there is one such stock, the derived.    *)
LEMMA DerivedSpans ==
    ASSUME NEW ledger, Summable(ledger.movements), ledger.counts # {},
           IsFiniteSet(ledger.counts), EffectiveCounts(ledger.counts) # {},
           \A c \in ledger.counts : /\ c.value \in Int /\ c.id \in Int
                                    /\ c.fresh \in BOOLEAN
    PROVE  LET stocks == UNION {StocksFrom(c, ledger) : c \in Bases(ledger.counts)}
               derived == Derive(ledger)
           IN  IF derived.range = NoRange
               THEN stocks = {derived.stock}
               ELSE /\ derived.range = <<Min(stocks), Max(stocks)>>
                    /\ derived.stock \in stocks
<1> DEFINE B == Bases(ledger.counts)
           rep == Representative(ledger.counts)
           part == [c \in B |-> FromCount(c, ledger)]
           of == [c \in B |-> StocksFrom(c, ledger)]
           stocks == UNION {of[c] : c \in B}
           lows == {part[c].low : c \in B}
           highs == {part[c].high : c \in B}
<1>1. /\ B \in SUBSET ledger.counts /\ IsFiniteSet(B) /\ rep \in B
      /\ ~Conflicting(ledger.counts) => B = {rep}
  BY BasesAreEffective
<1>2. ASSUME NEW c \in B
      PROVE  /\ of[c] \subseteq Int
             /\ part[c].stock \in of[c]
             /\ part[c].low \in of[c] /\ part[c].high \in of[c]
             /\ \A x \in of[c] : part[c].low <= x /\ x <= part[c].high
             /\ ~part[c].undeterminedSettlement
                   /\ ~part[c].undeterminedMovement => of[c] = {part[c].stock}
  <2>1. c.value \in Int
    BY <1>1
  <2> QED
    BY <2>1, FromCountSpans
<1>3. Derive(ledger).stock = part[rep].stock
  BY <1>1 DEF Derive
<1>4. Derive(ledger).range =
          IF RecheckReasons(ledger) = {} THEN NoRange
          ELSE <<Min(lows), Max(highs)>>
  <2> DEFINE parts == {FromCount(c, ledger) : c \in B}
  <2>1. {q.low : q \in parts} = lows /\ {q.high : q \in parts} = highs
    OBVIOUS
  <2>2. Derive(ledger).range =
          IF RecheckReasons(ledger) = {} THEN NoRange
          ELSE <<Min({q.low : q \in parts}), Max({q.high : q \in parts})>>
    BY DEF Derive
  <2> QED
    BY <2>1, <2>2
<1>5. RecheckReasons(ledger) = {} =>
          /\ ~Conflicting(ledger.counts)
          /\ ~part[rep].undeterminedSettlement
          /\ ~part[rep].undeterminedMovement
  <2> SUFFICES ASSUME RecheckReasons(ledger) = {}
               PROVE  /\ ~Conflicting(ledger.counts)
                      /\ ~part[rep].undeterminedSettlement
                      /\ ~part[rep].undeterminedMovement
    OBVIOUS
  <2>1. FromCount(rep, ledger) \in {FromCount(c, ledger) : c \in B}
    BY <1>1
  <2>2. /\ "undetermined_settlement" \notin RecheckReasons(ledger)
        /\ "same_date_movement" \notin RecheckReasons(ledger)
        /\ "conflicting_counts" \notin RecheckReasons(ledger)
    OBVIOUS
  <2>3. part[rep] = FromCount(rep, ledger)
    BY <1>1
  <2> QED
    BY <2>1, <2>2, <2>3 DEF RecheckReasons
<1>6. /\ lows \in SUBSET Int /\ highs \in SUBSET Int
      /\ lows # {} /\ highs # {}
      /\ IsFiniteSet(lows) /\ IsFiniteSet(highs)
  <2> DEFINE low == [c \in B |-> part[c].low]
             high == [c \in B |-> part[c].high]
  <2>1. IsFiniteSet({low[c] : c \in B}) /\ IsFiniteSet({high[c] : c \in B})
    <3> DOMAIN low = B /\ DOMAIN high = B
      OBVIOUS
    <3> HIDE DEF low, high
    <3>1. IsFiniteSet({low[c] : c \in B})
      BY <1>1, ImageIsFinite
    <3>2. IsFiniteSet({high[c] : c \in B})
      BY <1>1, ImageIsFinite
    <3> QED
      BY <3>1, <3>2
  <2>2. lows = {low[c] : c \in B} /\ highs = {high[c] : c \in B}
    OBVIOUS
  <2> HIDE DEF part, of, B, rep
  <2>3. \A c \in B : part[c].low \in Int /\ part[c].high \in Int
    BY <1>2
  <2>4. lows \in SUBSET Int /\ highs \in SUBSET Int
    BY <2>3
  <2>5. part[rep].low \in lows /\ part[rep].high \in highs
    BY <1>1
  <2> HIDE DEF lows, highs, low, high
  <2> QED
    BY <2>1, <2>2, <2>4, <2>5
<1>7. /\ Min(lows) \in lows /\ \A y \in lows : Min(lows) <= y
      /\ Max(highs) \in highs /\ \A y \in highs : Max(highs) >= y
  <2> HIDE DEF lows, highs
  <2> QED
    BY <1>6, ExtremesExist
<1> HIDE DEF part, of, B, rep
<1>8. stocks \subseteq Int
  BY <1>2
<1>9. Min(lows) \in stocks /\ Max(highs) \in stocks
  <2>1. PICK c \in B : Min(lows) = part[c].low
    BY <1>7
  <2>2. PICK d \in B : Max(highs) = part[d].high
    BY <1>7
  <2>3. \A e \in B : of[e] \subseteq stocks
    OBVIOUS
  <2> HIDE DEF lows, highs, stocks
  <2> QED
    BY <1>2, <2>1, <2>2, <2>3
<1>10. ASSUME NEW x \in stocks PROVE Min(lows) <= x /\ x <= Max(highs)
  <2>1. PICK c \in B : x \in of[c]
    OBVIOUS
  <2>2. /\ part[c].low \in Int /\ part[c].high \in Int /\ x \in Int
        /\ part[c].low <= x /\ x <= part[c].high
    BY <1>2, <2>1
  <2>3. /\ Min(lows) <= part[c].low /\ part[c].high <= Max(highs)
        /\ Min(lows) \in Int /\ Max(highs) \in Int
    BY <1>6, <1>7, <1>2
  <2> HIDE DEF lows, highs
  <2> QED
    BY <2>2, <2>3
<1> HIDE DEF lows, highs
<1>11. Min(stocks) = Min(lows) /\ Max(stocks) = Max(highs)
  <2> HIDE DEF stocks
  <2>1. Min(stocks) \in stocks /\ \A y \in stocks : Min(stocks) <= y
    BY <1>9, <1>10 DEF Min
  <2>2. Max(stocks) \in stocks /\ \A y \in stocks : Max(stocks) >= y
    BY <1>8, <1>9, <1>10 DEF Max
  <2>3. /\ Min(stocks) <= Min(lows) /\ Min(lows) <= Min(stocks)
        /\ Max(stocks) >= Max(highs) /\ Max(highs) >= Max(stocks)
    BY <1>8, <1>9, <1>10, <2>1, <2>2
  <2>4. /\ Min(stocks) \in Int /\ Min(lows) \in Int
        /\ Max(stocks) \in Int /\ Max(highs) \in Int
    BY <1>8, <1>9, <2>1, <2>2
  <2> QED
    BY <2>3, <2>4
<1>12. part[rep].stock \in stocks
  BY <1>1, <1>2
<1>13. RecheckReasons(ledger) = {} => stocks = {part[rep].stock}
  BY <1>1, <1>2, <1>5
<1>14. <<Min(lows), Max(highs)>> # NoRange
  BY DEF NoRange
<1>15. UNION {StocksFrom(c, ledger) : c \in B} = stocks
  BY DEF of
<1> HIDE DEF stocks
<1> QED
  BY <1>3, <1>4, <1>11, <1>12, <1>13, <1>14, <1>15 DEF B

(* A fresh count that comes after every other and contains every movement   *)
(* and every settlement: the stock is its value, and nothing is to be       *)
(* rechecked.                                                               *)
LEMMA LatestContainsAll ==
    ASSUME NEW ledger, NEW n \in ledger.counts, n.value \in Int, n.id \in Int,
           \A c \in ledger.counts : /\ ~IsAfter(c, n)
                                    /\ c = n \/ IsAfter(n, c),
           \A m \in ledger.movements : Included(n, m, ledger.settlements),
           \A s \in ledger.settlements :
              SettlementIncluded(n, s, ledger.settlements)
    PROVE  Derive(ledger).stock = n.value /\ Derive(ledger).range = NoRange
<1> DEFINE part == FromCount(n, ledger)
<1>1. EffectiveCounts(ledger.counts) = {n}
  BY DEF EffectiveCounts
<1>2. ~Conflicting(ledger.counts) /\ Representative(ledger.counts) = n
      /\ Bases(ledger.counts) = {n}
  <2>1. ~Conflicting(ledger.counts)
    BY <1>1 DEF Conflicting
  <2>2. Representative(ledger.counts) \in {n}
    <3>1. \E c \in {n} : \A other \in {n} : ComesFirst(c, other)
      BY DEF ComesFirst
    <3> QED
      BY <1>1, <3>1 DEF Representative
  <2> QED
    BY <2>1, <2>2 DEF Bases
<1> DEFINE open == {m \in ledger.movements :
                      Undetermined(n, m, ledger.settlements)}
           after == {m \in ledger.movements :
                       /\ ~Included(n, m, ledger.settlements)
                       /\ ~Undetermined(n, m, ledger.settlements)}
<1>3. open = {} /\ after = {}
  BY DEF Undetermined
<1>4. /\ part.stock = n.value /\ ~part.undeterminedSettlement
      /\ ~part.undeterminedMovement
  <2>1. \A s \in ledger.settlements :
           ~SettlementUndetermined(n, s, ledger.settlements)
    BY DEF SettlementUndetermined
  <2>2. /\ {m \in open : m.qty < 0} = {} /\ {m \in open : m.qty >= 0} = {}
        /\ \A m \in open : FALSE
    BY <1>3
  <2>3. part.stock = n.value + Total(after) + Total({m \in open : m.qty < 0})
                       + Total({m \in open : m.qty >= 0})
    BY DEF FromCount
  <2>4. /\ part.undeterminedMovement = \E m \in open : m.settlement = NoSettlement
        /\ part.undeterminedSettlement =
              \/ \E m \in open : m.settlement # NoSettlement
              \/ \E s \in ledger.settlements :
                    /\ s.import \in ledger.linkedImports
                    /\ SettlementUndetermined(n, s, ledger.settlements)
    BY DEF FromCount
  <2>5. part.stock = n.value
    BY <1>3, <2>2, <2>3, TotalOfNone
  <2> HIDE DEF part, open
  <2> QED
    BY <2>1, <2>2, <2>4, <2>5
<1>5. RecheckReasons(ledger) = {}
  BY <1>2, <1>4 DEF RecheckReasons
<1>6. Derive(ledger).stock = part.stock
  BY <1>2 DEF Derive
<1>7. Derive(ledger).range = NoRange
  BY <1>5 DEF Derive
<1> QED
  BY <1>4, <1>6, <1>7
=============================================================================
