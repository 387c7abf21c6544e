-------------------------- MODULE PluExportProofs --------------------------
(***************************************************************************)
(* Theorems about PluExport for any products, barcodes, contents of the     *)
(* register and number of memories: the unique index, the acceptance of     *)
(* files, the marks and the memories of the products.                       *)
(***************************************************************************)
EXTENDS PluExport, FiniteSetTheorems, WellFoundedInduction, TLAPS

-----------------------------------------------------------------------------
(* Lemmas about sets of numbers. *)
LEMMA LeastIsElement ==
    ASSUME NEW S \in SUBSET Nat, S # {}
    PROVE  Min(S) \in S /\ \A y \in S : Min(S) <= y
<1> DEFINE Less == {ss \in Nat \X Nat : ss[1] < ss[2]}
<1>1. IsWellFoundedOn(Less, Nat)
  BY NatLessThanWellFounded DEF OpToRel
<1>2. PICK x \in S : \A y \in S : ~(<<y, x>> \in Less)
  <2> HIDE DEF Less
  <2> QED
    BY <1>1, WFMin
<1>3. ASSUME NEW y \in S PROVE x <= y
  <2>1. x \in Nat /\ y \in Nat /\ ~(<<y, x>> \in Less)
    BY <1>2
  <2>2. ~(y < x)
    BY <2>1
  <2> QED
    BY <2>1, <2>2
<1> QED
  BY <1>3 DEF Min

(* What holds of 0 and is passed on holds up to N.                          *)
LEMMA Stepwise ==
    ASSUME NEW N \in Nat, NEW G, 0 \in G,
           \A n \in 0..N : n < N /\ n \in G => n + 1 \in G
    PROVE  \A n \in 0..N : n \in G
<1> DEFINE Bad == {n \in 0..N : n \notin G}
<1>1. SUFFICES ASSUME Bad # {} PROVE FALSE
  OBVIOUS
<1>2. Bad \in SUBSET Nat
  OBVIOUS
<1>3. PICK n \in Bad : \A m \in Bad : n <= m
  <2> HIDE DEF Bad
  <2> QED
    BY <1>1, <1>2, LeastIsElement
<1>4. n \in 0..N /\ n # 0 /\ n \notin G
  OBVIOUS
<1>5. n - 1 \in 0..N /\ n - 1 < N /\ n - 1 \notin Bad
  BY <1>3, <1>4
<1> QED
  BY <1>4, <1>5

(* The functions into T defined step by step, from a: there is one.         *)
StepFunctions(N, T, a, F) ==
    {g \in [0..N -> T] : g[0] = a /\ \A n \in 1..N : g[n] = F[n][g[n - 1]]}

LEMMA StepsExist ==
    ASSUME NEW N \in Nat, NEW T, NEW a \in T, NEW F \in [1..N -> [T -> T]]
    PROVE  StepFunctions(N, T, a, F) # {}
<1> DEFINE G == {m \in 0..N : \E g \in [0..m -> T] :
                    g[0] = a /\ \A n \in 1..m : g[n] = F[n][g[n - 1]]}
<1>1. 0 \in G
  <2> DEFINE g == [n \in 0..0 |-> a]
  <2>1. g \in [0..0 -> T] /\ g[0] = a /\ 1..0 = {}
    OBVIOUS
  <2> HIDE DEF g
  <2> QED
    BY <2>1
<1>2. ASSUME NEW m \in 0..N, m < N, m \in G PROVE m + 1 \in G
  <2>1. PICK g \in [0..m -> T] :
            g[0] = a /\ \A n \in 1..m : g[n] = F[n][g[n - 1]]
    BY <1>2
  <2> DEFINE h == [n \in 0..(m + 1) |-> IF n <= m THEN g[n] ELSE F[m + 1][g[m]]]
  <2>2. F[m + 1][g[m]] \in T
    BY <1>2
  <2>3. h \in [0..(m + 1) -> T] /\ h[0] = a
    BY <2>1, <2>2
  <2>4. ASSUME NEW n \in 1..(m + 1) PROVE h[n] = F[n][h[n - 1]]
    <3>1. h[n - 1] = g[n - 1]
      OBVIOUS
    <3>2. CASE n <= m
      <4>1. h[n] = g[n] /\ n \in 1..m
        BY <3>2
      <4> HIDE DEF h
      <4> QED
        BY <2>1, <3>1, <4>1
    <3>3. CASE n = m + 1
      <4>1. h[n] = F[m + 1][g[m]] /\ n - 1 = m
        BY <3>3
      <4> HIDE DEF h
      <4> QED
        BY <3>1, <3>3, <4>1
    <3> QED
      BY <3>2, <3>3
  <2>5. m + 1 \in 0..N
    BY <1>2
  <2> HIDE DEF h
  <2> QED
    BY <2>3, <2>4, <2>5
<1>3. N \in G
  <2> HIDE DEF G
  <2> N \in 0..N
    OBVIOUS
  <2> QED
    BY <1>1, <1>2, Stepwise
<1> QED
  BY <1>3 DEF StepFunctions

(* How many elements of S are not beyond k.                                 *)
Before(S, k) == Cardinality({t \in S : t <= k})

LEMMA RanksGrow ==
    ASSUME NEW S \in SUBSET Nat, NEW j \in S, NEW k \in Nat, k < j
    PROVE  Before(S, k) \in Nat /\ Before(S, j) \in Nat
           /\ Before(S, k) < Before(S, j)
<1> DEFINE A == {t \in S : t <= k}
           B == {t \in S : t <= j}
<1>1. IsFiniteSet(B)
  BY FS_BoundedSetOfNaturals
<1>2. A \in SUBSET B /\ j \in B /\ j \notin A
  <2>1. ASSUME NEW t \in A PROVE t \in B
    <3>1. t \in Nat /\ j \in Nat /\ t \in S
      OBVIOUS
    <3> QED
      BY <3>1
  <2>2. j \in Nat /\ ~(j <= k) /\ j <= j
    OBVIOUS
  <2> QED
    BY <2>1, <2>2
<1> HIDE DEF A, B
<1>3. IsFiniteSet(A) /\ Cardinality(A) <= Cardinality(B)
      /\ Cardinality(A) # Cardinality(B)
  BY <1>1, <1>2, FS_Subset
<1>4. Cardinality(A) \in Nat /\ Cardinality(B) \in Nat
  BY <1>1, <1>3, FS_CardinalityType
<1> QED
  BY <1>3, <1>4 DEF Before, A, B

(* Every rank up to the size of the set is some element's.                  *)
LEMMA RankIsTaken ==
    ASSUME NEW N \in Nat, NEW S \in SUBSET (1..N), NEW k \in Nat \ {0},
           k <= Cardinality(S)
    PROVE  \E s \in S : Before(S, s) = k
<1> DEFINE M == {n \in 0..N : k <= Before(S, n)}
<1>0. \A t \in S : t \in Nat /\ 1 <= t /\ t <= N
  OBVIOUS
<1>1. IsFiniteSet(S) /\ Cardinality(S) \in Nat
  <2>1. IsFiniteSet(1..N)
    BY FS_Interval
  <2>2. IsFiniteSet(S)
    BY <2>1, FS_Subset
  <2> QED
    BY <2>2, FS_CardinalityType
<1>2. \A n \in 0..N : Before(S, n) \in Nat
  <2>1. ASSUME NEW n \in 0..N PROVE Before(S, n) \in Nat
    <3>1. IsFiniteSet({t \in S : t <= n})
      BY <1>1, FS_Subset
    <3> QED
      BY <3>1, FS_CardinalityType DEF Before
  <2> QED
    BY <2>1
<1>3. N \in M
  <2>1. {t \in S : t <= N} = S
    BY <1>0
  <2> QED
    BY <2>1 DEF Before
<1>4. M \in SUBSET Nat /\ M # {}
  BY <1>3
<1>5. PICK n \in M : \A m \in M : n <= m
  <2> HIDE DEF M
  <2> QED
    BY <1>4, LeastIsElement
<1>6. n \in 0..N /\ k <= Before(S, n)
  OBVIOUS
<1>7. n # 0
  <2>1. {t \in S : t <= 0} = {}
    <3>1. ASSUME NEW t \in S PROVE ~(t <= 0)
      <4>1. t \in Nat /\ 1 <= t
        BY <1>0
      <4> QED
        BY <4>1
    <3> QED
      BY <3>1
  <2>2. Before(S, 0) = 0
    BY <2>1, FS_EmptySet DEF Before
  <2> QED
    BY <1>6, <2>2
<1>8. n - 1 \in 0..N /\ ~(k <= Before(S, n - 1))
  BY <1>5, <1>6, <1>7
<1> DEFINE A == {t \in S : t <= n - 1}
<1>9. n \in S /\ Before(S, n) = Before(S, n - 1) + 1
  <2>1. {t \in S : t <= n} = IF n \in S THEN A \cup {n} ELSE A
    <3>1. ASSUME NEW t \in S
          PROVE  t <= n <=> t <= n - 1 \/ t = n
      BY <1>0, <1>6
    <3> QED
      BY <1>6, <3>1
  <2>2. n \notin A /\ IsFiniteSet(A)
    BY <1>1, <1>6, FS_Subset
  <2>3. Cardinality(A \cup {n}) = Cardinality(A) + 1
    <3> HIDE DEF A
    <3> QED
      BY <2>2, FS_AddElement
  <2>4. CASE n \in S
    BY <2>1, <2>3, <2>4 DEF Before
  <2>5. CASE n \notin S
    <3>1. Before(S, n) = Before(S, n - 1)
      BY <2>1, <2>5 DEF Before
    <3> QED
      BY <1>6, <1>8, <3>1
  <2> QED
    BY <2>4, <2>5
<1>10. Before(S, n) = k
  BY <1>2, <1>6, <1>8, <1>9
<1> QED
  BY <1>9, <1>10
-----------------------------------------------------------------------------
(* The memories. *)
SlotRow ==
    {FreeSlot} \cup [code : Jan, status : Status \ {"free"}, activated : BOOLEAN]

Tables == [Slot -> SlotRow]

LEMMA SlotFields ==
    ASSUME NEW slot \in SlotRow
    PROVE  /\ slot = [code |-> slot.code, status |-> slot.status,
                      activated |-> slot.activated]
           /\ slot.code \in Jan \cup {NoJan} /\ slot.status \in Status
           /\ slot.activated \in BOOLEAN
           /\ slot.status # "free" => slot.code \in Jan
           /\ slot.status = "free" => slot = FreeSlot
           /\ slot.code \in Jan => slot.status # "free"
<1>1. NoJan \notin Jan
  BY PluAssumption
<1>2. CASE slot = FreeSlot
  <2>1. slot.code = NoJan /\ slot.status = "free" /\ slot.activated = FALSE
    BY <1>2 DEF FreeSlot
  <2>2. slot = [code |-> slot.code, status |-> slot.status,
                activated |-> slot.activated]
    BY <1>2 DEF FreeSlot
  <2> QED
    BY <1>1, <1>2, <2>1, <2>2 DEF Status
<1>3. CASE slot \in [code : Jan, status : Status \ {"free"}, activated : BOOLEAN]
  <2>1. slot.code \in Jan /\ slot.status \in Status \ {"free"}
        /\ slot.activated \in BOOLEAN
    BY <1>3
  <2>2. slot = [code |-> slot.code, status |-> slot.status,
                activated |-> slot.activated]
    BY <1>3
  <2> QED
    BY <2>1, <2>2
<1> QED
  BY <1>2, <1>3 DEF SlotRow

(* The unique index, without counting.                                      *)
LEMMA UniqueMeansSame ==
    ASSUME NEW table
    PROVE  LiveCodesUnique(table) <=>
              \A jan \in Jan : \A s, t \in With(table, jan, Live) : s = t
<1>1. ASSUME NEW jan \in Jan, Cardinality(With(table, jan, Live)) <= 1,
             NEW s \in With(table, jan, Live), NEW t \in With(table, jan, Live)
      PROVE  s = t
  <2> DEFINE W == With(table, jan, Live)
  <2>1. IsFiniteSet(W) /\ Cardinality(W) \in Nat
    <3>1. IsFiniteSet(Slot)
      BY FS_Interval, PluAssumption DEF Slot
    <3>2. W \in SUBSET Slot
      BY DEF With
    <3>3. IsFiniteSet(W)
      <4> HIDE DEF W
      <4> QED
        BY <3>1, <3>2, FS_Subset
    <3> QED
      BY <3>3, FS_CardinalityType
  <2>2. {s} \in SUBSET W /\ Cardinality({s}) = 1
    BY FS_Singleton
  <2> HIDE DEF W
  <2>3. Cardinality({s}) <= Cardinality(W)
        /\ (Cardinality(W) = Cardinality({s}) => W = {s})
    BY <2>1, <2>2, FS_Subset
  <2>4. W = {s}
    BY <1>1, <2>1, <2>2, <2>3 DEF W
  <2> QED
    BY <1>1, <2>4 DEF W
<1>2. ASSUME NEW jan \in Jan, \A s, t \in With(table, jan, Live) : s = t
      PROVE  Cardinality(With(table, jan, Live)) <= 1
  <2>1. CASE With(table, jan, Live) = {}
    BY <2>1, FS_EmptySet
  <2>2. CASE With(table, jan, Live) # {}
    <3>1. PICK s \in With(table, jan, Live) : TRUE
      BY <2>2
    <3>2. With(table, jan, Live) = {s}
      BY <1>2, <3>1
    <3>3. Cardinality({s}) = 1
      BY FS_Singleton
    <3> QED
      BY <3>2, <3>3
  <2> QED
    BY <2>1, <2>2
<1> QED
  BY <1>1, <1>2 DEF LiveCodesUnique

(* A table whose live memories were live with the same barcodes keeps it.    *)
LEMMA UniqueStays ==
    ASSUME NEW old, NEW table, LiveCodesUnique(old),
           \A s \in Slot : table[s].status \in Live =>
               old[s].status \in Live /\ old[s].code = table[s].code
    PROVE  LiveCodesUnique(table)
<1>1. \A jan \in Jan : With(table, jan, Live) \subseteq With(old, jan, Live)
  BY DEF With
<1> QED
  BY <1>1, UniqueMeansSame

-----------------------------------------------------------------------------
(* Reading the register. *)
LEMMA ObservedTyped ==
    ASSUME NEW table \in Tables, NEW s \in Slot, NEW code \in Jan \cup {NoJan}
    PROVE  /\ Observed(table, s, code) \in Tables
           /\ \A t \in Slot \ {s} : Observed(table, s, code)[t] = table[t]
           /\ table[s].status \in Managed =>
                 \/ /\ Observed(table, s, code)[s].code = table[s].code
                    /\ Observed(table, s, code)[s].status \in Managed
                 \/ /\ table[s].status = "reserved"
                    /\ Observed(table, s, code)[s].status = "external"
<1> DEFINE o == Observed(table, s, code)
           Put(status) == [code |-> code, status |-> status,
                           activated |-> status = "active"]
<1>1. table[s] \in SlotRow
  BY DEF Tables
<1>2. /\ table[s].status \in Status
      /\ table[s] = [code |-> table[s].code, status |-> table[s].status,
                     activated |-> table[s].activated]
  BY <1>1, SlotFields
<1>3. \/ o = table
      \/ o = [table EXCEPT ![s] = FreeSlot] /\ table[s].status \notin Managed
      \/ /\ code \in Jan
         /\ \E status \in Status \ {"free"} : o = [table EXCEPT ![s] = Put(status)]
         /\ table[s].status \in Managed =>
               /\ table[s].status = "reserved"
               /\ \/ o = [table EXCEPT ![s] = Put("active")] /\ table[s].code = code
                  \/ o = [table EXCEPT ![s] = Put("external")]
  <2>1. CASE code = NoJan
    BY <2>1 DEF Observed
  <2>2. CASE code # NoJan /\ table[s].status = "free"
    BY <2>2 DEF Observed, Managed, Status, Live
  <2>3. CASE code # NoJan /\ table[s].status = "reserved"
    BY <2>3 DEF Observed, Managed, Status, Live
  <2>4. CASE code # NoJan /\ table[s].status # "free" /\ table[s].status # "reserved"
    BY <2>4 DEF Observed, Managed, Status, Live
  <2> QED
    BY <2>1, <2>2, <2>3, <2>4
<1> HIDE DEF o
<1>4. \A status \in Status \ {"free"} : code \in Jan => Put(status) \in SlotRow
  BY DEF SlotRow
<1>5. FreeSlot \in SlotRow
  BY DEF SlotRow
<1>6. o \in Tables
  BY <1>3, <1>4, <1>5 DEF Tables
<1>7. \A t \in Slot \ {s} : o[t] = table[t]
  BY <1>3 DEF Tables
<1>8. ASSUME table[s].status \in Managed
      PROVE  \/ o[s].code = table[s].code /\ o[s].status \in Managed
             \/ table[s].status = "reserved" /\ o[s].status = "external"
  BY <1>3, <1>8 DEF Tables, Managed
<1> QED
  BY <1>6, <1>7, <1>8 DEF o

(* One unfolding of the recursive function of ReadRegister, and the          *)
(* function itself: the tables after each of the memories.                  *)
Observing(seen, g) ==
    [n \in 0..LastSlot |->
        IF n = 0 THEN slots ELSE Observed(g[n - 1], n, seen[n])]

After(seen) == CHOOSE g : g = Observing(seen, g)

LEMMA ReadRegisterReads ==
    ASSUME ReadRegister
    PROVE  \E seen \in Observation :
              /\ \A n \in Slot : LiveCodesUnique(After(seen)[n])
              /\ slots' = After(seen)[LastSlot]
              /\ \E lost :
                    products' = [p \in DOMAIN products |->
                        [products[p] EXCEPT !.dirty = @ \/ products[p].jan \in lost]]
              /\ UNCHANGED screen
  BY DEF ReadRegister, After, Observing

LEMMA AfterUnfolds ==
    ASSUME slots \in Tables, NEW seen \in [Slot -> Jan \cup {NoJan}]
    PROVE  /\ After(seen)[0] = slots
           /\ \A n \in Slot :
                 After(seen)[n] = Observed(After(seen)[n - 1], n, seen[n])
<1> DEFINE F == [n \in 1..LastSlot |-> [t \in Tables |-> Observed(t, n, seen[n])]]
<1>1. LastSlot \in Nat
  BY PluAssumption
<1>2. F \in [1..LastSlot -> [Tables -> Tables]]
  BY ObservedTyped DEF Slot
<1>3. \E g : g = Observing(seen, g)
  <2>1. PICK g \in [0..LastSlot -> Tables] :
            g[0] = slots /\ \A n \in 1..LastSlot : g[n] = F[n][g[n - 1]]
    <3>1. StepFunctions(LastSlot, Tables, slots, F) # {}
      <4> HIDE DEF F
      <4> QED
        BY <1>1, <1>2, StepsExist
    <3> HIDE DEF F
    <3> QED
      BY <3>1 DEF StepFunctions
  <2>2. ASSUME NEW n \in 0..LastSlot, n # 0
        PROVE  F[n][g[n - 1]] = Observed(g[n - 1], n, seen[n])
    <3>1. n \in 1..LastSlot /\ n - 1 \in 0..LastSlot
      BY <1>1, <2>2
    <3> QED
      BY <2>1, <3>1
  <2> HIDE DEF F
  <2>3. ASSUME NEW n \in 0..LastSlot
        PROVE  g[n] = IF n = 0 THEN slots ELSE Observed(g[n - 1], n, seen[n])
    <3>1. n # 0 => n \in 1..LastSlot
      BY <1>1
    <3> QED
      BY <2>1, <2>2, <3>1
  <2>4. g = [n \in 0..LastSlot |-> g[n]]
    BY <2>1
  <2>5. g = [n \in 0..LastSlot |->
                IF n = 0 THEN slots ELSE Observed(g[n - 1], n, seen[n])]
    BY <2>3, <2>4
  <2>6. g = Observing(seen, g)
    BY <2>5 DEF Observing
  <2> QED
    BY <2>6
<1>4. After(seen) = Observing(seen, After(seen))
  BY <1>3 DEF After
<1>5. ASSUME NEW n \in 0..LastSlot
      PROVE  After(seen)[n] =
                IF n = 0 THEN slots ELSE Observed(After(seen)[n - 1], n, seen[n])
  <2>1. After(seen)[n] = Observing(seen, After(seen))[n]
    BY <1>4
  <2> QED
    BY ONLY <2>1, n \in 0..LastSlot DEF Observing
<1>6. 0 \in 0..LastSlot /\ \A n \in Slot : n \in 0..LastSlot /\ n # 0
  BY <1>1 DEF Slot
<1> QED
  BY <1>5, <1>6

(* Each memory is looked at once.                                           *)
LEMMA AfterTyped ==
    ASSUME slots \in Tables, NEW seen \in [Slot -> Jan \cup {NoJan}]
    PROVE  /\ After(seen)[LastSlot] \in Tables
           /\ \A s \in Slot : slots[s].status \in Managed =>
                 \/ /\ After(seen)[LastSlot][s].code = slots[s].code
                    /\ After(seen)[LastSlot][s].status \in Managed
                 \/ /\ slots[s].status = "reserved"
                    /\ After(seen)[LastSlot][s].status = "external"
<1> DEFINE Kept(t, s) ==
              slots[s].status \in Managed =>
                 \/ t[s].code = slots[s].code /\ t[s].status \in Managed
                 \/ slots[s].status = "reserved" /\ t[s].status = "external"
           G == {n \in 0..LastSlot :
                    /\ After(seen)[n] \in Tables
                    /\ \A s \in Slot : s > n => After(seen)[n][s] = slots[s]
                    /\ \A s \in Slot : s <= n => Kept(After(seen)[n], s)}
<1>1. LastSlot \in Nat /\ \A s \in Slot : s \in Nat /\ 1 <= s /\ s <= LastSlot
  BY PluAssumption DEF Slot
<1>2. 0 \in G
  <2>1. \A s \in Slot : ~(s <= 0)
    BY <1>1
  <2> HIDE DEF Kept
  <2> QED
    BY <1>1, <2>1, AfterUnfolds
<1>3. ASSUME NEW n \in 0..LastSlot, n < LastSlot, n \in G PROVE n + 1 \in G
  <2> DEFINE m == n + 1
             t == After(seen)[n]
  <2>1. m \in Slot /\ m \in 0..LastSlot /\ m - 1 = n /\ m > n
    BY <1>1, <1>3 DEF Slot
  <2>2. After(seen)[m] = Observed(t, m, seen[m])
    BY <2>1, AfterUnfolds
  <2>3. /\ t \in Tables /\ t[m] = slots[m]
        /\ \A s \in Slot : s > n => t[s] = slots[s]
        /\ \A s \in Slot : s <= n => Kept(t, s)
    BY <1>3, <2>1
  <2>4. seen[m] \in Jan \cup {NoJan}
    BY <2>1
  <2>5. \A s \in Slot : (s > m => s > n /\ s # m) /\ (s <= m => s <= n \/ s = m)
                        /\ (s <= n => s # m)
    BY <1>1, <2>1
  <2> HIDE DEF m, t
  <2>6. /\ After(seen)[m] \in Tables
        /\ \A s \in Slot \ {m} : After(seen)[m][s] = t[s]
        /\ Kept(After(seen)[m], m)
    BY <2>1, <2>2, <2>3, <2>4, ObservedTyped
  <2>7. ASSUME NEW s \in Slot, s <= m PROVE Kept(After(seen)[m], s)
    <3>1. CASE s = m
      BY <2>6, <3>1
    <3>2. CASE s # m
      <4>1. After(seen)[m][s] = t[s] /\ Kept(t, s)
        BY <2>3, <2>5, <2>6, <2>7, <3>2
      <4> QED
        BY <4>1
    <3> QED
      BY <3>1, <3>2
  <2>8. ASSUME NEW s \in Slot, s > m PROVE After(seen)[m][s] = slots[s]
    BY <2>3, <2>5, <2>6, <2>8
  <2>9. m \in G
    <3> HIDE DEF Kept
    <3> QED
      BY <2>1, <2>6, <2>7, <2>8
  <2> QED
    BY <2>9 DEF m
<1>4. LastSlot \in G
  <2>1. LastSlot \in 0..LastSlot
    BY <1>1
  <2> HIDE DEF G
  <2> QED
    BY <1>1, <1>2, <1>3, <2>1, Stepwise
<1> QED
  BY <1>1, <1>4
-----------------------------------------------------------------------------
(* Where a file puts the barcodes. *)

(* A turn is the rank of a barcode among those that need a memory.          *)
LEMMA TurnsDiffer ==
    ASSUME NEW mode, NEW jan \in Needing(mode), NEW other \in Needing(mode),
           Turn(mode, jan) = Turn(mode, other)
    PROVE  jan = other
<1>1. Needing(mode) \in SUBSET Nat
  BY PluAssumption DEF Needing, Exportable
<1>2. Turn(mode, jan) = Before(Needing(mode), jan)
      /\ Turn(mode, other) = Before(Needing(mode), other)
  BY DEF Turn, Before
<1> DEFINE b(k) == Before(Needing(mode), k)
<1>3. jan \in Nat /\ other \in Nat /\ b(jan) = b(other)
  BY <1>1, <1>2
<1>4. ASSUME jan < other PROVE FALSE
  <2>1. b(jan) \in Nat /\ b(other) \in Nat /\ b(jan) < b(other)
    BY <1>1, <1>3, <1>4, RanksGrow
  <2> HIDE DEF b
  <2> QED
    BY <1>3, <2>1
<1>5. ASSUME other < jan PROVE FALSE
  <2>1. b(jan) \in Nat /\ b(other) \in Nat /\ b(other) < b(jan)
    BY <1>1, <1>3, <1>5, RanksGrow
  <2> HIDE DEF b
  <2> QED
    BY <1>3, <2>1
<1> QED
  BY <1>3, <1>4, <1>5

LEMMA TurnIsPositive ==
    ASSUME NEW mode, NEW jan \in Needing(mode)
    PROVE  Turn(mode, jan) \in Nat \ {0}
<1>1. Needing(mode) \in SUBSET Nat /\ jan \in Nat \ {0} /\ 0 \in Nat
  BY PluAssumption DEF Needing, Exportable, NoJan
<1>2. /\ Before(Needing(mode), 0) \in Nat /\ Before(Needing(mode), jan) \in Nat
      /\ Before(Needing(mode), 0) < Before(Needing(mode), jan)
  BY <1>1, RanksGrow
<1>3. Turn(mode, jan) = Before(Needing(mode), jan)
  BY DEF Turn, Before
<1> QED
  BY <1>2, <1>3

(* A barcode goes to a memory that has it, live or about to be cleared, or  *)
(* to the free memory of its turn.                                          *)
LEMMA PlaceIsKnown ==
    ASSUME slots \in Tables, NEW mode, NEW jan \in Placed(mode)
    PROVE  LET s == Place(mode, jan)
           IN  /\ s \in Slot
               /\ \/ s \in With(slots, jan, Live)
                  \/ /\ With(slots, jan, Live) = {}
                     /\ s \in With(slots, jan, {"release_pending"})
                  \/ /\ jan \in Needing(mode)
                     /\ s \in Free /\ Before(Free, s) = Turn(mode, jan)
<1> DEFINE s == Place(mode, jan)
<1>1. \A states : With(slots, jan, states) \in SUBSET Nat
                  /\ With(slots, jan, states) \in SUBSET Slot
  BY PluAssumption DEF With, Slot
<1>2. CASE With(slots, jan, Live) # {}
  <2>1. CASE With(slots, jan, Managed) # {}
    <3>1. s = Min(With(slots, jan, Managed))
      BY <1>2, <2>1 DEF Place
    <3>2. s \in With(slots, jan, Managed)
      BY <1>1, <2>1, <3>1, LeastIsElement
    <3> QED
      BY <1>1, <3>2 DEF With, Live
  <2>2. CASE With(slots, jan, Managed) = {}
    <3>1. s = Min(With(slots, jan, {"external"}))
      BY <1>2, <2>2 DEF Place
    <3>2. With(slots, jan, {"external"}) # {}
      BY <1>2, <2>2 DEF With, Live
    <3>3. s \in With(slots, jan, {"external"})
      BY <1>1, <3>1, <3>2, LeastIsElement
    <3> QED
      BY <1>1, <3>3 DEF With, Live
  <2> QED
    BY <2>1, <2>2
<1>3. CASE With(slots, jan, Live) = {} /\ jan \notin Needing(mode)
  <2>1. s = Min(With(slots, jan, {"release_pending"}))
    BY <1>3 DEF Place
  <2>2. With(slots, jan, Status \ {"free"}) # {}
    BY <1>3 DEF Placed, Needing
  <2>3. With(slots, jan, {"release_pending"}) # {}
    BY <1>3, <2>2 DEF With, Status
  <2>4. s \in With(slots, jan, {"release_pending"})
    BY <1>1, <2>1, <2>3, LeastIsElement
  <2> QED
    BY <1>1, <1>3, <2>4
<1>4. CASE With(slots, jan, Live) = {} /\ jan \in Needing(mode)
  <2> DEFINE k == Turn(mode, jan)
  <2>1. s = FreeNo(k)
    BY <1>4 DEF Place
  <2>2. k \in Nat \ {0} /\ k <= Cardinality(Free)
    BY <1>4, TurnIsPositive DEF Placed
  <2>3. Free \in SUBSET (1..LastSlot) /\ LastSlot \in Nat
    BY PluAssumption DEF Free, Slot
  <2> HIDE DEF k
  <2>4. \E t \in Free : Before(Free, t) = k
    BY <2>2, <2>3, RankIsTaken
  <2>5. s \in Free /\ Before(Free, s) = k
    BY <2>1, <2>4 DEF FreeNo, Before
  <2>6. s \in Slot
    BY <2>5 DEF Free
  <2> QED
    BY <1>4, <2>5, <2>6 DEF k
<1> QED
  BY <1>2, <1>3, <1>4

LEMMA PlacesDiffer ==
    ASSUME slots \in Tables, NEW mode,
           NEW jan \in Placed(mode), NEW other \in Placed(mode),
           Place(mode, jan) = Place(mode, other)
    PROVE  jan = other
<1> DEFINE s == Place(mode, jan)
<1>1. /\ s \in Slot
      /\ \/ s \in With(slots, jan, Live)
         \/ s \in With(slots, jan, {"release_pending"})
         \/ jan \in Needing(mode) /\ s \in Free /\ Before(Free, s) = Turn(mode, jan)
  BY PlaceIsKnown
<1>2. \/ s \in With(slots, other, Live)
      \/ s \in With(slots, other, {"release_pending"})
      \/ /\ other \in Needing(mode) /\ s \in Free
         /\ Before(Free, s) = Turn(mode, other)
  BY PlaceIsKnown
<1> HIDE DEF s
<1>3. CASE slots[s].status = "free"
  BY <1>1, <1>2, <1>3, TurnsDiffer DEF With, Live, Managed
<1>4. CASE slots[s].status # "free"
  BY <1>1, <1>2, <1>4 DEF With, Free
<1> QED
  BY <1>3, <1>4

(* A prepared memory is taken for the barcode placed in it, or left alone.  *)
LEMMA PreparedSlots ==
    ASSUME slots \in Tables, NEW mode
    PROVE  /\ \A jan \in Placed(mode) :
                 SlotsPrepared(mode)[Place(mode, jan)]
                     = Taken(slots[Place(mode, jan)], jan)
           /\ \A s \in Slot :
                 (\A jan \in Placed(mode) : Place(mode, jan) # s)
                     => SlotsPrepared(mode)[s] = slots[s]
<1> DEFINE jans(s) == {jan \in Placed(mode) : Place(mode, jan) = s}
<1>1. \A s \in Slot : SlotsPrepared(mode)[s] =
          IF jans(s) = {} THEN slots[s]
          ELSE Taken(slots[s], CHOOSE jan \in jans(s) : TRUE)
  BY DEF SlotsPrepared
<1>2. ASSUME NEW jan \in Placed(mode)
      PROVE  SlotsPrepared(mode)[Place(mode, jan)]
                 = Taken(slots[Place(mode, jan)], jan)
  <2>1. Place(mode, jan) \in Slot
    BY PlaceIsKnown
  <2>2. jans(Place(mode, jan)) = {jan}
    BY PlacesDiffer
  <2> HIDE DEF jans
  <2> QED
    BY <1>1, <2>1, <2>2
<1>3. ASSUME NEW s \in Slot, \A jan \in Placed(mode) : Place(mode, jan) # s
      PROVE  SlotsPrepared(mode)[s] = slots[s]
  BY <1>1, <1>3
<1> QED
  BY <1>2, <1>3

LEMMA TakenIsManaged ==
    ASSUME NEW slot, NEW jan \in Jan
    PROVE  /\ Taken(slot, jan) \in SlotRow
           /\ Taken(slot, jan).code = jan
           /\ Taken(slot, jan).status \in Managed
<1> DEFINE active == \/ slot.status \in {"active", "external"}
                     \/ slot.status = "release_pending" /\ slot.activated
           row(a) == [code |-> jan, status |-> IF a THEN "active" ELSE "reserved",
                      activated |-> a]
<1>1. Taken(slot, jan) = row(active)
  BY DEF Taken
<1>2. CASE active
  <2>1. Taken(slot, jan) = [code |-> jan, status |-> "active", activated |-> active]
    BY <1>1, <1>2
  <2>2. active \in BOOLEAN
    BY <1>2
  <2> HIDE DEF active
  <2> QED
    BY <2>1, <2>2 DEF SlotRow, Status, Live, Managed
<1>3. CASE ~active
  <2>1. Taken(slot, jan) = [code |-> jan, status |-> "reserved", activated |-> active]
    BY <1>1, <1>3
  <2>2. active \in BOOLEAN
    OBVIOUS
  <2> HIDE DEF active
  <2> QED
    BY <2>1, <2>2 DEF SlotRow, Status, Live, Managed
<1> QED
  BY <1>2, <1>3

LEMMA PlacedIsJan ==
    ASSUME NEW mode, NEW jan \in Placed(mode)
    PROVE  jan \in Jan /\ jan # NoJan
  BY PluAssumption DEF Placed, Exportable

LEMMA PreparedTyped ==
    ASSUME slots \in Tables, NEW mode
    PROVE  SlotsPrepared(mode) \in Tables
<1>1. ASSUME NEW s \in Slot PROVE SlotsPrepared(mode)[s] \in SlotRow
  <2>1. CASE \E jan \in Placed(mode) : Place(mode, jan) = s
    <3>1. PICK jan \in Placed(mode) : Place(mode, jan) = s
      BY <2>1
    <3> QED
      BY <3>1, PreparedSlots, TakenIsManaged, PlacedIsJan
  <2>2. CASE ~\E jan \in Placed(mode) : Place(mode, jan) = s
    BY <2>2, PreparedSlots DEF Tables
  <2> QED
    BY <2>1, <2>2
<1>2. SlotsPrepared(mode) = [s \in Slot |-> SlotsPrepared(mode)[s]]
  BY DEF SlotsPrepared
<1> QED
  BY <1>1, <1>2 DEF Tables

(* What a file takes stays unique: a barcode with a live memory goes there. *)
LEMMA PreparedIsUnique ==
    ASSUME slots \in Tables, LiveCodesUnique(slots), NEW mode
    PROVE  LiveCodesUnique(SlotsPrepared(mode))
<1> DEFINE after == SlotsPrepared(mode)
<1>1. ASSUME NEW jan \in Jan, NEW s \in With(after, jan, Live)
      PROVE  \/ jan \in Placed(mode) /\ Place(mode, jan) = s
             \/ s \in With(slots, jan, Live)
  <2>1. s \in Slot /\ after[s].code = jan /\ after[s].status \in Live
    BY DEF With
  <2>2. CASE \E other \in Placed(mode) : Place(mode, other) = s
    <3>1. PICK other \in Placed(mode) : Place(mode, other) = s
      BY <2>2
    <3>2. after[s].code = other
      BY <3>1, PreparedSlots, TakenIsManaged, PlacedIsJan
    <3> QED
      BY <2>1, <3>1, <3>2
  <2>3. CASE ~\E other \in Placed(mode) : Place(mode, other) = s
    <3>1. after[s] = slots[s]
      BY <2>1, <2>3, PreparedSlots
    <3> QED
      BY <2>1, <3>1 DEF With
  <2> QED
    BY <2>2, <2>3
<1>2. ASSUME NEW jan \in Placed(mode), NEW s \in With(slots, jan, Live)
      PROVE  Place(mode, jan) = s
  <2>1. Place(mode, jan) \in With(slots, jan, Live)
    <3>1. With(slots, jan, Live) # {} /\ jan \notin Needing(mode)
      BY <1>2 DEF Needing, With, Status, Live, Managed
    <3> QED
      BY <3>1, PlaceIsKnown
  <2> QED
    BY <2>1, PlacedIsJan, UniqueMeansSame
<1>3. ASSUME NEW jan \in Jan, NEW s \in With(after, jan, Live),
             NEW t \in With(after, jan, Live)
      PROVE  s = t
  BY <1>1, <1>2, UniqueMeansSame
<1> HIDE DEF after
<1>4. LiveCodesUnique(after)
  BY <1>3, UniqueMeansSame
<1> QED
  BY <1>4 DEF after
-----------------------------------------------------------------------------
(* The product commands release memories, and take none.                    *)
LEMMA ReleasedSlots ==
    ASSUME NEW table \in Tables, NEW jan, NEW remaining, NEW s \in Slot
    PROVE  LET r == Released(table, jan, remaining)[s]
           IN  /\ r \in SlotRow
               /\ r.status \in Live => r = table[s]
               /\ IsSold(remaining, table[s].code) => r = table[s]
               /\ r = table[s]
                     \/ r = Released(table, table[s].code, remaining)[s]
<1> DEFINE r == Released(table, jan, remaining)[s]
           pending == [table[s] EXCEPT !.status = "release_pending"]
<1>1. /\ r = IF table[s].code # jan \/ jan = NoJan \/ IsSold(remaining, jan)
             THEN table[s]
             ELSE IF table[s].status = "reserved" THEN FreeSlot
             ELSE IF table[s].status = "active" THEN pending
             ELSE table[s]
  BY DEF Released
<1>2. table[s] \in SlotRow
  BY DEF Tables
<1>3. table[s].status = "active" =>
          pending \in SlotRow /\ pending.status = "release_pending"
  <2> SUFFICES ASSUME table[s].status = "active"
               PROVE  pending \in SlotRow /\ pending.status = "release_pending"
    OBVIOUS
  <2>1. /\ table[s] = [code |-> table[s].code, status |-> table[s].status,
                       activated |-> table[s].activated]
        /\ table[s].code \in Jan /\ table[s].activated \in BOOLEAN
    BY <1>2, SlotFields
  <2>2. pending = [code |-> table[s].code, status |-> "release_pending",
                   activated |-> table[s].activated]
    BY <2>1
  <2> HIDE DEF pending
  <2> QED
    BY <2>1, <2>2 DEF SlotRow, Status, Live, Managed
<1>4. FreeSlot \in SlotRow /\ FreeSlot.status = "free"
  BY DEF SlotRow, FreeSlot
<1> HIDE DEF pending
<1>5. r \in SlotRow /\ (r.status \in Live => r = table[s])
  BY <1>1, <1>2, <1>3, <1>4 DEF Live, Managed
<1>6. IsSold(remaining, table[s].code) => r = table[s]
  BY <1>1
<1>7. r = table[s] \/ r = Released(table, table[s].code, remaining)[s]
  BY <1>1
<1> QED
  BY <1>5, <1>6, <1>7

LEMMA EditsRelease ==
    ASSUME slots \in Tables, products \in [DOMAIN products -> Marked], EditProduct
    PROVE  /\ products' \in [DOMAIN products' -> Marked]
           /\ \A p \in DOMAIN products :
                 p \in DOMAIN products' /\ (products[p].dirty => products'[p].dirty)
           /\ DOMAIN slots' = Slot /\ slots' = [s \in Slot |-> slots'[s]]
           /\ \A s \in Slot :
                 \/ slots'[s] = slots[s]
                 \/ slots'[s] = Released(slots, slots[s].code, products')[s]
           /\ unsaved' = NoFile /\ saved' = saved
<1>1. slots = [s \in Slot |-> slots[s]] /\ DOMAIN slots = Slot
  BY DEF Tables
<1>2. ASSUME NEW p \in DOMAIN products
      PROVE  /\ products[p] = [jan |-> products[p].jan, price |-> products[p].price,
                   tax |-> products[p].tax, target |-> products[p].target,
                   discontinued |-> products[p].discontinued,
                   dirty |-> products[p].dirty]
             /\ products[p] \in Marked
  BY DEF Marked
<1>3. ASSUME NEW jan, slots' = Released(slots, jan, products')
      PROVE  /\ DOMAIN slots' = Slot /\ slots' = [s \in Slot |-> slots'[s]]
             /\ \A s \in Slot :
                   \/ slots'[s] = slots[s]
                   \/ slots'[s] = Released(slots, slots[s].code, products')[s]
  <2>1. DOMAIN slots' = Slot /\ slots' = [s \in Slot |-> slots'[s]]
    BY <1>3 DEF Released
  <2>2. ASSUME NEW s \in Slot
        PROVE  \/ slots'[s] = slots[s]
               \/ slots'[s] = Released(slots, slots[s].code, products')[s]
    BY <1>3, ReleasedSlots
  <2> QED
    BY <2>1, <2>2
<1>4. ASSUME NEW p \in Product, NEW jan \in Jan \cup {NoJan}, NEW price \in Price,
             NEW tax \in Tax, NEW target \in BOOLEAN,
             CreateProduct(p, jan, price, tax, target)
      PROVE  /\ products' \in [DOMAIN products' -> Marked]
             /\ \A q \in DOMAIN products :
                   q \in DOMAIN products' /\ products'[q] = products[q]
             /\ slots' = slots /\ unsaved' = NoFile /\ saved' = saved
  <2> DEFINE new == [jan |-> jan, price |-> price, tax |-> tax, target |-> target,
                     discontinued |-> FALSE, dirty |-> TRUE]
  <2>1. /\ p \notin DOMAIN products
        /\ products' = [q \in DOMAIN products \cup {p} |->
                           IF q = p THEN new ELSE products[q]]
        /\ slots' = slots /\ unsaved' = NoFile /\ saved' = saved
    BY <1>4 DEF CreateProduct, Editing
  <2>2. new \in Marked
    BY DEF Marked
  <2> HIDE DEF new
  <2> QED
    BY <2>1, <2>2
<1>5. ASSUME NEW p \in DOMAIN products, NEW new \in Marked, new.dirty = TRUE \/
                 (products[p].dirty => new.dirty),
             products' = [products EXCEPT ![p] = new]
      PROVE  /\ products' \in [DOMAIN products' -> Marked]
             /\ \A q \in DOMAIN products :
                   q \in DOMAIN products' /\ (products[q].dirty => products'[q].dirty)
  BY <1>5
<1>6. ASSUME NEW p \in DOMAIN products, NEW price \in Price, NEW tax \in Tax,
             NEW target \in BOOLEAN, UpdateProduct(p, price, tax, target)
      PROVE  /\ products' \in [DOMAIN products' -> Marked]
             /\ \A q \in DOMAIN products :
                   q \in DOMAIN products' /\ (products[q].dirty => products'[q].dirty)
             /\ slots' = slots \/ slots' = Released(slots, products[p].jan, products')
             /\ unsaved' = NoFile /\ saved' = saved
  <2> DEFINE old == products[p]
             new == [old EXCEPT !.price = price, !.tax = tax, !.target = target,
                       !.dirty = @ \/ price # old.price \/ (target /\ ~old.target)]
  <2>1. /\ products' = [products EXCEPT ![p] = new]
        /\ slots' = slots \/ slots' = Released(slots, old.jan, products')
        /\ unsaved' = NoFile /\ saved' = saved
    BY <1>6 DEF UpdateProduct, Editing
  <2>2. new \in Marked /\ (old.dirty => new.dirty)
    BY <1>2 DEF Marked
  <2> HIDE DEF new
  <2> QED
    BY <1>5, <2>1, <2>2
<1>7. ASSUME NEW p \in DOMAIN products, ToggleDiscontinue(p)
      PROVE  /\ products' \in [DOMAIN products' -> Marked]
             /\ \A q \in DOMAIN products :
                   q \in DOMAIN products' /\ (products[q].dirty => products'[q].dirty)
             /\ slots' = slots \/ slots' = Released(slots, products[p].jan, products')
             /\ unsaved' = NoFile /\ saved' = saved
  <2> DEFINE old == products[p]
             new == IF old.discontinued THEN [old EXCEPT !.discontinued = FALSE]
                    ELSE [old EXCEPT !.discontinued = TRUE, !.target = FALSE,
                                     !.dirty = TRUE]
  <2>1. /\ products' = [products EXCEPT ![p] = new]
        /\ slots' = slots \/ slots' = Released(slots, old.jan, products')
        /\ unsaved' = NoFile /\ saved' = saved
    BY <1>7 DEF ToggleDiscontinue, Editing
  <2>2. new \in Marked /\ (old.dirty => new.dirty)
    BY <1>2 DEF Marked
  <2> HIDE DEF new
  <2> QED
    BY <1>5, <2>1, <2>2
<1>8. ASSUME NEW p \in DOMAIN products, NEW jan \in Jan \cup {NoJan},
             NEW price \in Price, NEW tax \in Tax, NEW target \in BOOLEAN,
             OverwriteProduct(p, jan, price, tax, target)
      PROVE  /\ products' \in [DOMAIN products' -> Marked]
             /\ \A q \in DOMAIN products :
                   q \in DOMAIN products' /\ (products[q].dirty => products'[q].dirty)
             /\ slots' = slots \/ slots' = Released(slots, products[p].jan, products')
             /\ unsaved' = NoFile /\ saved' = saved
  <2> DEFINE old == products[p]
             new == [old EXCEPT !.jan = jan, !.price = price, !.tax = tax,
                                !.target = target, !.dirty = TRUE]
  <2>1. /\ products' = [products EXCEPT ![p] = new]
        /\ slots' = slots \/ slots' = Released(slots, old.jan, products')
        /\ unsaved' = NoFile /\ saved' = saved
    BY <1>8 DEF OverwriteProduct, Editing
  <2>2. new \in Marked /\ (old.dirty => new.dirty)
    BY <1>2 DEF Marked
  <2> HIDE DEF new
  <2> QED
    BY <1>5, <2>1, <2>2
<1>9. ASSUME NEW P \in SUBSET DOMAIN products, TargetMany(P) \/ UntargetMany(P)
      PROVE  /\ products' \in [DOMAIN products' -> Marked]
             /\ \A q \in DOMAIN products :
                   q \in DOMAIN products' /\ (products[q].dirty => products'[q].dirty)
             /\ unsaved' = NoFile /\ saved' = saved
  <2>1. unsaved' = NoFile /\ saved' = saved
    BY <1>9 DEF TargetMany, UntargetMany, Editing
  <2>2. \/ \E turned : products' = [p \in DOMAIN products |->
              IF p \in turned THEN [products[p] EXCEPT !.target = TRUE, !.dirty = TRUE]
              ELSE products[p]]
        \/ \E turned : products' = [p \in DOMAIN products |->
              IF p \in turned THEN [products[p] EXCEPT !.target = FALSE]
              ELSE products[p]]
    BY <1>9 DEF TargetMany, UntargetMany
  <2>3. DOMAIN products' = DOMAIN products
        /\ products' = [p \in DOMAIN products |-> products'[p]]
    BY <2>2
  <2>4. ASSUME NEW p \in DOMAIN products
        PROVE  products'[p] \in Marked /\ (products[p].dirty => products'[p].dirty)
    <3>1. \/ products'[p] = products[p]
          \/ products'[p] = [products[p] EXCEPT !.target = TRUE, !.dirty = TRUE]
          \/ products'[p] = [products[p] EXCEPT !.target = FALSE]
      BY <2>2
    <3> QED
      BY <1>2, <3>1 DEF Marked
  <2> QED
    BY <2>1, <2>3, <2>4
<1>10. ASSUME NEW P \in SUBSET DOMAIN products, UntargetMany(P)
       PROVE  /\ DOMAIN slots' = Slot /\ slots' = [s \in Slot |-> slots'[s]]
              /\ \A s \in Slot :
                    \/ slots'[s] = slots[s]
                    \/ slots'[s] = Released(slots, slots[s].code, products')[s]
  BY <1>10 DEF UntargetMany
<1>11. ASSUME NEW P \in SUBSET DOMAIN products, TargetMany(P) PROVE slots' = slots
  BY <1>11 DEF TargetMany
<1>12. CASE \E p \in Product, jan \in Jan \cup {NoJan}, price \in Price,
               tax \in Tax, target \in BOOLEAN :
               CreateProduct(p, jan, price, tax, target)
  <2>1. PICK p \in Product, jan \in Jan \cup {NoJan}, price \in Price,
             tax \in Tax, target \in BOOLEAN :
             CreateProduct(p, jan, price, tax, target)
    BY <1>12
  <2> QED
    BY <1>1, <1>4, <2>1
<1>13. CASE \E p \in DOMAIN products, price \in Price, tax \in Tax,
               target \in BOOLEAN : UpdateProduct(p, price, tax, target)
  <2>1. PICK p \in DOMAIN products, price \in Price, tax \in Tax,
             target \in BOOLEAN : UpdateProduct(p, price, tax, target)
    BY <1>13
  <2> QED
    BY <1>1, <1>3, <1>6, <2>1
<1>14. CASE \E p \in DOMAIN products : ToggleDiscontinue(p)
  <2>1. PICK p \in DOMAIN products : ToggleDiscontinue(p)
    BY <1>14
  <2> QED
    BY <1>1, <1>3, <1>7, <2>1
<1>15. CASE \E P \in SUBSET DOMAIN products : TargetMany(P) \/ UntargetMany(P)
  <2>1. PICK P \in SUBSET DOMAIN products : TargetMany(P) \/ UntargetMany(P)
    BY <1>15
  <2> QED
    BY <1>1, <1>9, <1>10, <1>11, <2>1
<1>16. CASE \E p \in DOMAIN products, jan \in Jan \cup {NoJan}, price \in Price,
               tax \in Tax, target \in BOOLEAN :
               OverwriteProduct(p, jan, price, tax, target)
  <2>1. PICK p \in DOMAIN products, jan \in Jan \cup {NoJan}, price \in Price,
             tax \in Tax, target \in BOOLEAN :
             OverwriteProduct(p, jan, price, tax, target)
    BY <1>16
  <2> QED
    BY <1>1, <1>3, <1>8, <2>1
<1> QED
  BY <1>12, <1>13, <1>14, <1>15, <1>16 DEF EditProduct
-----------------------------------------------------------------------------
(* Files. *)
WellFormed(file) ==
    \A row \in file : /\ row.slot \in Slot /\ row.kind \in {"product", "clear"}
                      /\ row.kind = "clear" => row.products = {}

LEMMA RowsOfFile ==
    ASSUME NEW mode, NEW row \in File(mode)
    PROVE  \/ \E jan \in Placed(mode) :
                 /\ row.kind = "product" /\ row.slot = Place(mode, jan)
                 /\ row.products = Group(mode, jan)
           \/ /\ row.kind = "clear" /\ row.slot \in Slot /\ row.products = {}
              /\ SlotsPrepared(mode)[row.slot].status = "release_pending"
              /\ SlotsPrepared(mode)[row.slot].code \notin BlockedCodes(mode)
<1>1. CASE row \in ProductRows(mode)
  BY <1>1 DEF ProductRows
<1>2. CASE row \in ClearRows(mode)
  BY <1>2 DEF ClearRows
<1> QED
  BY <1>1, <1>2 DEF File

LEMMA FileIsWellFormed ==
    ASSUME slots \in Tables, NEW mode
    PROVE  WellFormed(File(mode))
<1> SUFFICES ASSUME NEW row \in File(mode)
             PROVE  /\ row.slot \in Slot /\ row.kind \in {"product", "clear"}
                    /\ row.kind = "clear" => row.products = {}
  BY DEF WellFormed
<1> QED
  BY RowsOfFile, PlaceIsKnown

(* A file fits the tables it leaves.                                        *)
LEMMA FileIsAccepted ==
    ASSUME slots \in Tables, NEW mode, File(mode) # NoFile
    PROVE  Accepted(File(mode), SlotsPrepared(mode), products)
<1> DEFINE after == SlotsPrepared(mode)
<1>1. ASSUME NEW jan \in Placed(mode)
      PROVE  /\ after[Place(mode, jan)].code = jan
             /\ after[Place(mode, jan)].status \in Managed
  BY PreparedSlots, TakenIsManaged, PlacedIsJan
<1>2. ASSUME NEW row \in File(mode)
      PROVE  RowStands(row, after, products)
  <2>1. CASE row.kind = "product"
    <3>1. PICK jan \in Placed(mode) :
              row.slot = Place(mode, jan) /\ row.products = Group(mode, jan)
      BY <2>1, RowsOfFile
    <3>2. \A p \in row.products : p \in DOMAIN products /\ products[p].jan = jan
      BY <3>1 DEF Group, Selected
    <3> QED
      BY <1>1, <2>1, <3>1, <3>2 DEF RowStands
  <2>2. CASE row.kind # "product"
    <3>1. after[row.slot].status = "release_pending"
      BY <2>2, RowsOfFile
    <3> QED
      BY <2>2, <3>1 DEF RowStands
  <2> QED
    BY <2>1, <2>2
<1>3. ASSUME NEW row \in File(mode), NEW other \in File(mode), row.slot = other.slot
      PROVE  row = other
  <2>1. CASE row \in ProductRows(mode) /\ other \in ProductRows(mode)
    <3> DEFINE rowOf(jan) ==
              [kind |-> "product", slot |-> Place(mode, jan),
               products |-> Group(mode, jan), content |-> Content(mode, jan)]
    <3>1. PICK j \in Placed(mode) : row = rowOf(j)
      BY <2>1 DEF ProductRows
    <3>2. PICK k \in Placed(mode) : other = rowOf(k)
      BY <2>1 DEF ProductRows
    <3>3. Place(mode, j) = Place(mode, k)
      BY <1>3, <3>1, <3>2
    <3>4. j = k
      BY <3>3, PlacesDiffer
    <3> QED
      BY <3>1, <3>2, <3>4
  <2>2. CASE row \in ClearRows(mode) /\ other \in ClearRows(mode)
    BY <1>3, <2>2 DEF ClearRows
  <2>3. ASSUME NEW r \in ProductRows(mode), NEW c \in ClearRows(mode)
        PROVE  r.slot # c.slot
    <3>1. PICK j \in Placed(mode) : r.slot = Place(mode, j)
      BY DEF ProductRows
    <3>2. after[c.slot].status = "release_pending"
      BY DEF ClearRows
    <3> QED
      BY <1>1, <3>1, <3>2 DEF Managed
  <2> QED
    BY <1>3, <2>1, <2>2, <2>3 DEF File
<1> QED
  BY <1>2, <1>3 DEF Accepted

LEMMA ActivatedSlot ==
    ASSUME NEW slot \in SlotRow, slot.status # "free"
    PROVE  LET a == [slot EXCEPT !.status = "active", !.activated = TRUE]
           IN  a \in SlotRow /\ a.status = "active" /\ a.code = slot.code
<1>1. slot \in [code : Jan, status : Status \ {"free"}, activated : BOOLEAN]
  BY DEF SlotRow, FreeSlot
<1> QED
  BY <1>1 DEF SlotRow, Status, Live, Managed

(* Confirming takes the memories of the product rows and frees those of the *)
(* clearing rows.                                                           *)
LEMMA ConfirmedSlots ==
    ASSUME slots \in Tables, NEW file, WellFormed(file),
           Accepted(file, slots, products)
    PROVE  /\ SlotsConfirmed(file) \in Tables
           /\ \A row \in file :
                 IF row.kind = "clear"
                 THEN SlotsConfirmed(file)[row.slot] = FreeSlot
                 ELSE /\ SlotsConfirmed(file)[row.slot].status = "active"
                      /\ SlotsConfirmed(file)[row.slot].code = slots[row.slot].code
                      /\ slots[row.slot].status \in Managed
           /\ \A s \in Slot : (\A row \in file : row.slot # s)
                                 => SlotsConfirmed(file)[s] = slots[s]
<1> DEFINE c == SlotsConfirmed(file)
           active(slot) == [slot EXCEPT !.status = "active", !.activated = TRUE]
<1>1. ASSUME NEW row \in file
      PROVE  c[row.slot] = IF row.kind = "clear" THEN FreeSlot
                           ELSE active(slots[row.slot])
  <2>1. RowOf(file, row.slot) = row
    BY DEF RowOf, Accepted
  <2>2. row.slot \in Slot
    BY DEF WellFormed
  <2> HIDE DEF active
  <2> QED
    BY <2>1, <2>2 DEF SlotsConfirmed, active
<1>2. ASSUME NEW s \in Slot, slots[s].status \in Managed
      PROVE  /\ active(slots[s]) \in SlotRow
             /\ active(slots[s]).status = "active"
             /\ active(slots[s]).code = slots[s].code
  <2>1. slots[s] \in SlotRow
    BY DEF Tables
  <2> QED
    BY <1>2, <2>1, ActivatedSlot DEF Managed
<1>3. ASSUME NEW row \in file, row.kind # "clear"
      PROVE  slots[row.slot].status \in Managed /\ row.slot \in Slot
  BY <1>3 DEF Accepted, RowStands, WellFormed
<1>4. ASSUME NEW s \in Slot, \A row \in file : row.slot # s
      PROVE  c[s] = slots[s]
  BY <1>4 DEF SlotsConfirmed
<1>5. FreeSlot \in SlotRow
  BY DEF SlotRow
<1>6. c = [s \in Slot |-> c[s]]
  BY DEF SlotsConfirmed
<1> HIDE DEF c, active
<1>7. ASSUME NEW s \in Slot PROVE c[s] \in SlotRow
  <2>1. CASE \E row \in file : row.slot = s
    BY <1>1, <1>2, <1>3, <1>5, <2>1
  <2>2. CASE \A row \in file : row.slot # s
    BY <1>4, <2>2 DEF Tables
  <2> QED
    BY <2>1, <2>2
<1>8. c \in Tables
  BY <1>6, <1>7 DEF Tables
<1>9. ASSUME NEW row \in file
      PROVE  IF row.kind = "clear" THEN c[row.slot] = FreeSlot
             ELSE /\ c[row.slot].status = "active"
                  /\ c[row.slot].code = slots[row.slot].code
                  /\ slots[row.slot].status \in Managed
  BY <1>1, <1>2, <1>3
<1> QED
  BY <1>4, <1>8, <1>9 DEF c

-----------------------------------------------------------------------------
(* The tables keep their shapes and the unique index; the files on the      *)
(* screen are lists of rows for memories.                                   *)
PluInvariant ==
    /\ slots \in Tables
    /\ products \in [DOMAIN products -> Marked]
    /\ LiveCodesUnique(slots)
    /\ WellFormed(unsaved) /\ WellFormed(saved)

LEMMA PluInit == Init => PluInvariant
<1> SUFFICES ASSUME Init PROVE PluInvariant
  OBVIOUS
<1>1. slots = [s \in Slot |-> FreeSlot] /\ products = Catalogue
      /\ unsaved = {} /\ saved = {}
  BY DEF Init, NoFile
<1>2. slots \in Tables
  BY <1>1 DEF Tables, SlotRow
<1>3. \A s \in Slot : slots[s].status \notin Live
  BY <1>1 DEF FreeSlot, Live, Managed
<1>4. LiveCodesUnique(slots)
  BY <1>3, UniqueMeansSame DEF With
<1> QED
  BY <1>1, <1>2, <1>4, PluAssumption DEF PluInvariant, WellFormed

LEMMA ReadKeeps ==
    ASSUME PluInvariant, ReadRegister
    PROVE  PluInvariant'
<1>1. PICK seen \in Observation :
          /\ \A n \in Slot : LiveCodesUnique(After(seen)[n])
          /\ slots' = After(seen)[LastSlot]
          /\ \E lost :
                products' = [p \in DOMAIN products |->
                    [products[p] EXCEPT !.dirty = @ \/ products[p].jan \in lost]]
          /\ UNCHANGED screen
  BY ReadRegisterReads
<1>2. seen \in [Slot -> Jan \cup {NoJan}]
  BY PluAssumption
<1>3. slots' \in Tables
  BY <1>1, <1>2, AfterTyped DEF PluInvariant
<1>4. LiveCodesUnique(slots')
  <2>1. CASE LastSlot = 0
    <3>1. Slot = {}
      BY <2>1 DEF Slot
    <3> QED
      BY <3>1, UniqueMeansSame DEF With
  <2>2. CASE LastSlot # 0
    <3>1. LastSlot \in Slot
      BY <2>2, PluAssumption DEF Slot
    <3> QED
      BY <1>1, <3>1
  <2> QED
    BY <2>1, <2>2
<1>5. LiveCodesUnique(slots)'
  BY <1>4 DEF LiveCodesUnique, With
<1>6. products' \in [DOMAIN products' -> Marked]
  <2>1. PICK lost :
            products' = [p \in DOMAIN products |->
                [products[p] EXCEPT !.dirty = @ \/ products[p].jan \in lost]]
    BY <1>1
  <2>2. ASSUME NEW p \in DOMAIN products
        PROVE  [products[p] EXCEPT !.dirty = @ \/ products[p].jan \in lost] \in Marked
    BY DEF PluInvariant, Marked
  <2> QED
    BY <2>1, <2>2
<1>7. unsaved' = unsaved /\ saved' = saved
  BY <1>1 DEF screen
<1> QED
  BY <1>3, <1>5, <1>6, <1>7 DEF PluInvariant, WellFormed

LEMMA PrepareKeeps ==
    ASSUME PluInvariant, NEW mode, Prepare(mode)
    PROVE  PluInvariant'
<1>1. /\ LiveCodesUnique(SlotsPrepared(mode)) /\ slots' = SlotsPrepared(mode)
      /\ unsaved' = File(mode) /\ UNCHANGED <<products, saved>>
  BY DEF Prepare
<1>2. slots' \in Tables /\ WellFormed(File(mode))
  BY <1>1, PreparedTyped, FileIsWellFormed DEF PluInvariant
<1>3. LiveCodesUnique(slots)'
  BY <1>1 DEF LiveCodesUnique, With
<1>4. WellFormed(unsaved)' /\ WellFormed(saved)'
  BY <1>1, <1>2 DEF PluInvariant, WellFormed
<1> QED
  BY <1>1, <1>2, <1>3, <1>4 DEF PluInvariant

LEMMA ConfirmKeeps ==
    ASSUME PluInvariant, Confirm
    PROVE  PluInvariant'
<1>1. /\ Accepted(saved, slots, products) /\ slots' = SlotsConfirmed(saved)
      /\ products' = [p \in DOMAIN products |->
            IF \E row \in saved : p \in row.products
            THEN [products[p] EXCEPT !.dirty = FALSE] ELSE products[p]]
      /\ saved' \in {NoFile, saved} /\ unsaved' = unsaved
  BY DEF Confirm
<1>2. slots \in Tables /\ WellFormed(saved)
  BY DEF PluInvariant
<1>3. slots' \in Tables
  BY <1>1, <1>2, ConfirmedSlots
<1>4. ASSUME NEW s \in Slot, slots'[s].status \in Live
      PROVE  slots[s].status \in Live /\ slots[s].code = slots'[s].code
  <2>1. CASE \E row \in saved : row.slot = s
    <3>1. PICK row \in saved : row.slot = s
      BY <2>1
    <3>2. row.kind # "clear"
      BY <1>1, <1>2, <1>4, <3>1, ConfirmedSlots DEF FreeSlot, Live, Managed
    <3> QED
      BY <1>1, <1>2, <3>1, <3>2, ConfirmedSlots DEF Live
  <2>2. CASE \A row \in saved : row.slot # s
    <3>1. slots'[s] = slots[s]
      BY <1>1, <1>2, <2>2, ConfirmedSlots
    <3> QED
      BY <1>4, <3>1
  <2> QED
    BY <2>1, <2>2
<1>5. LiveCodesUnique(slots')
  BY <1>4, UniqueStays DEF PluInvariant
<1>6. LiveCodesUnique(slots)'
  BY <1>5 DEF LiveCodesUnique, With
<1>7. products' \in [DOMAIN products' -> Marked]
  <2>1. ASSUME NEW p \in DOMAIN products
        PROVE  [products[p] EXCEPT !.dirty = FALSE] \in Marked
               /\ products[p] \in Marked
    BY DEF PluInvariant, Marked
  <2> QED
    BY <1>1, <2>1
<1>8. WellFormed(unsaved)' /\ WellFormed(saved)'
  BY <1>1 DEF PluInvariant, WellFormed, NoFile
<1> QED
  BY <1>3, <1>6, <1>7, <1>8 DEF PluInvariant

LEMMA EditKeeps ==
    ASSUME PluInvariant, EditProduct
    PROVE  PluInvariant'
<1>1. /\ products' \in [DOMAIN products' -> Marked]
      /\ slots' = [s \in Slot |-> slots'[s]]
      /\ \A s \in Slot :
            \/ slots'[s] = slots[s]
            \/ slots'[s] = Released(slots, slots[s].code, products')[s]
      /\ unsaved' = NoFile /\ saved' = saved
  BY EditsRelease DEF PluInvariant
<1>2. ASSUME NEW s \in Slot
      PROVE  slots'[s] \in SlotRow /\ (slots'[s].status \in Live => slots'[s] = slots[s])
  <2>1. slots \in Tables /\ slots[s] \in SlotRow
    BY DEF PluInvariant, Tables
  <2> QED
    BY <1>1, <2>1, ReleasedSlots
<1>3. slots' \in Tables
  BY <1>1, <1>2 DEF Tables
<1>4. LiveCodesUnique(slots')
  BY <1>2, UniqueStays DEF PluInvariant
<1>5. LiveCodesUnique(slots)'
  BY <1>4 DEF LiveCodesUnique, With
<1>6. WellFormed(unsaved)' /\ WellFormed(saved)'
  BY <1>1 DEF PluInvariant, WellFormed, NoFile
<1> QED
  BY <1>1, <1>3, <1>5, <1>6 DEF PluInvariant

LEMMA PluStep == PluInvariant /\ [Next]_vars => PluInvariant'
<1> SUFFICES ASSUME PluInvariant, [Next]_vars PROVE PluInvariant'
  OBVIOUS
<1>1. CASE Save \/ CancelSave \/ Discard \/ UNCHANGED vars
  <2>1. /\ UNCHANGED <<products, slots>>
        /\ unsaved' \in {NoFile, unsaved} /\ saved' \in {NoFile, unsaved, saved}
    BY <1>1 DEF Save, CancelSave, Discard, vars, screen, database
  <2>2. WellFormed(unsaved)' /\ WellFormed(saved)'
    BY <2>1 DEF PluInvariant, WellFormed, NoFile
  <2> QED
    BY <2>1, <2>2 DEF PluInvariant, LiveCodesUnique, With
<1> QED
  BY <1>1, ReadKeeps, PrepareKeeps, ConfirmKeeps, EditKeeps DEF Next, Export

LEMMA PluInvariance == Spec => []PluInvariant
  BY PluInit, PluStep, PTL DEF Spec

(* In every shop, whatever the register holds and however the products have  *)
(* changed, no preparation of a file runs into the unique index.            *)
THEOREM FilesNeverConflict == Spec => []PrepareNeverConflicts
<1>1. PluInvariant => PrepareNeverConflicts
  BY PreparedIsUnique DEF PluInvariant, PrepareNeverConflicts
<1> QED
  BY <1>1, PluInvariance, PTL

(* A product is no longer due only by a confirmation, which finds the       *)
(* product's barcode in a memory and takes the memory.                      *)
LEMMA ConfirmTakes ==
    ASSUME PluInvariant, Confirm
    PROVE  /\ DOMAIN products' = DOMAIN products
           /\ \A p \in DOMAIN products :
                 /\ products'[p].jan = products[p].jan
                 /\ products[p].dirty /\ ~products'[p].dirty =>
                       \E row \in saved : p \in row.products
           /\ \A row \in saved : row.kind = "product" =>
                 /\ slots[row.slot].status \in Managed
                 /\ slots'[row.slot].status = "active"
                 /\ slots'[row.slot].code = slots[row.slot].code
                 /\ \A p \in row.products : /\ p \in DOMAIN products
                                            /\ products[p].jan = slots[row.slot].code
           /\ \A row \in saved : row.kind # "product" =>
                 /\ slots'[row.slot] = FreeSlot /\ row.products = {}
                 /\ slots[row.slot].status = "release_pending" \/ slots[row.slot] = FreeSlot
<1>1. /\ Accepted(saved, slots, products) /\ slots' = SlotsConfirmed(saved)
      /\ products' = [p \in DOMAIN products |->
            IF \E row \in saved : p \in row.products
            THEN [products[p] EXCEPT !.dirty = FALSE] ELSE products[p]]
  BY DEF Confirm
<1>2. slots \in Tables /\ WellFormed(saved)
  BY DEF PluInvariant
<1>3. ASSUME NEW p \in DOMAIN products
      PROVE  /\ products'[p].jan = products[p].jan
             /\ products[p].dirty /\ ~products'[p].dirty =>
                   \E row \in saved : p \in row.products
  BY <1>1 DEF PluInvariant, Marked
<1>4. ASSUME NEW row \in saved, row.kind = "product"
      PROVE  /\ slots[row.slot].status \in Managed
             /\ slots'[row.slot].status = "active"
             /\ slots'[row.slot].code = slots[row.slot].code
             /\ \A p \in row.products : /\ p \in DOMAIN products
                                        /\ products[p].jan = slots[row.slot].code
  <2>1. RowStands(row, slots, products)
    BY <1>1 DEF Accepted
  <2>2. /\ slots'[row.slot].status = "active"
        /\ slots'[row.slot].code = slots[row.slot].code
    BY <1>1, <1>2, <1>4, ConfirmedSlots
  <2> QED
    BY <1>4, <2>1, <2>2 DEF RowStands
<1>5. ASSUME NEW row \in saved, row.kind # "product"
      PROVE  /\ slots'[row.slot] = FreeSlot /\ row.products = {}
             /\ slots[row.slot].status = "release_pending" \/ slots[row.slot] = FreeSlot
  <2>1. RowStands(row, slots, products) /\ row.kind = "clear" /\ row.products = {}
    BY <1>1, <1>2, <1>5 DEF Accepted, WellFormed
  <2>2. slots'[row.slot] = FreeSlot
    BY <1>1, <1>2, <2>1, ConfirmedSlots
  <2> QED
    BY <1>5, <2>1, <2>2 DEF RowStands
<1>6. DOMAIN products' = DOMAIN products
  BY <1>1
<1> QED
  BY <1>3, <1>4, <1>5, <1>6

LEMMA ClearedStep ==
    ASSUME PluInvariant, Next,
           NEW p \in DOMAIN products, products[p].dirty, ~products'[p].dirty
    PROVE  \E s \in Slot : slots'[s].code = products'[p].jan /\ slots'[s].status = "active"
<1>1. CASE ReadRegister
  <2>1. PICK lost :
            products' = [q \in DOMAIN products |->
                [products[q] EXCEPT !.dirty = @ \/ products[q].jan \in lost]]
    BY <1>1, ReadRegisterReads
  <2>2. products'[p].dirty = (products[p].dirty \/ products[p].jan \in lost)
    BY <2>1 DEF PluInvariant, Marked
  <2> QED
    BY <2>2
<1>2. CASE (\E mode \in {"full", "diff"} : Prepare(mode)) \/ Save \/ CancelSave \/ Discard
  BY <1>2 DEF Prepare, Save, CancelSave, Discard, database
<1>3. CASE Confirm
  <2>1. PICK row \in saved : p \in row.products
    BY <1>3, ConfirmTakes
  <2>2. row.kind = "product"
    BY <1>3, <2>1, ConfirmTakes
  <2>3. row.slot \in Slot
    BY DEF PluInvariant, WellFormed
  <2> QED
    BY <1>3, <2>1, <2>2, <2>3, ConfirmTakes
<1>4. CASE EditProduct
  BY <1>4, EditsRelease DEF PluInvariant
<1> QED
  BY <1>1, <1>2, <1>3, <1>4 DEF Next, Export

(* Whatever happened between a file and its confirmation, a product stops   *)
(* being due for the register only when a memory is taken for its barcode.  *)
THEOREM ProductsAreClearedWithTheirSlot == Spec => ClearedWithSlot
<1>1. PluInvariant /\ [Next]_vars =>
      [\A p \in DOMAIN products : products[p].dirty /\ ~products'[p].dirty =>
          \E s \in Slot : slots'[s].code = products'[p].jan
                          /\ slots'[s].status = "active"]_vars
  BY ClearedStep
<1> QED
  BY <1>1, PluInvariance, PTL DEF Spec, ClearedWithSlot

LEMMA RetryStep ==
    ASSUME PluInvariant, Next
    PROVE  /\ unsaved' \notin {NoFile, unsaved} => Accepted(unsaved', slots', products')
           /\ Confirm => Accepted(saved, slots', products')
<1>1. ASSUME unsaved' \notin {NoFile, unsaved}
      PROVE  Accepted(unsaved', slots', products')
  <2>1. PICK mode \in {"full", "diff"} : Prepare(mode)
    <3>1. ~ReadRegister
      BY <1>1, ReadRegisterReads DEF screen
    <3>2. ~EditProduct
      BY <1>1, EditsRelease DEF PluInvariant
    <3> QED
      BY <1>1, <3>1, <3>2 DEF Next, Export, Save, CancelSave, Discard, Confirm
  <2>2. /\ File(mode) # NoFile /\ slots' = SlotsPrepared(mode)
        /\ unsaved' = File(mode) /\ products' = products
    BY <2>1 DEF Prepare
  <2> QED
    BY <2>2, FileIsAccepted DEF PluInvariant
<1>2. ASSUME Confirm PROVE Accepted(saved, slots', products')
  <2>1. Accepted(saved, slots, products)
    BY <1>2 DEF Confirm
  <2>2. ASSUME NEW row \in saved PROVE RowStands(row, slots', products')
    <3>1. CASE row.kind = "product"
      BY <1>2, <3>1, ConfirmTakes DEF RowStands, Managed
    <3>2. CASE row.kind # "product"
      BY <1>2, <3>2, ConfirmTakes DEF RowStands
    <3> QED
      BY <3>1, <3>2
  <2> QED
    BY <2>1, <2>2 DEF Accepted
<1> QED
  BY <1>1, <1>2

(* A file just prepared is accepted if nothing changes, and a file that was  *)
(* confirmed may be confirmed once more.                                    *)
THEOREM RetriesAreAccepted == Spec => RetryIsAccepted
<1>1. PluInvariant /\ [Next]_vars =>
      [/\ unsaved' \notin {NoFile, unsaved} => Accepted(unsaved', slots', products')
       /\ Confirm => Accepted(saved, slots', products')]_vars
  BY RetryStep
<1> QED
  BY <1>1, PluInvariance, PTL DEF Spec, RetryIsAccepted

(* A memory that is cleared has a barcode that no selected product shares,   *)
(* or the file gives that barcode another memory.                           *)
LEMMA ClearSpares ==
    ASSUME slots \in Tables, NEW mode, NEW row \in File(mode), NEW p \in Selected(mode),
           row.kind = "clear", slots[row.slot].code = products[p].jan
    PROVE  \E other \in File(mode) : p \in other.products
<1> DEFINE s == row.slot
           jan == products[p].jan
<1>1. /\ s \in Slot /\ SlotsPrepared(mode)[s].status = "release_pending"
      /\ SlotsPrepared(mode)[s].code \notin BlockedCodes(mode)
  BY RowsOfFile
<1>2. ASSUME NEW other \in Placed(mode) PROVE Place(mode, other) # s
  BY <1>1, PreparedSlots, TakenIsManaged, PlacedIsJan DEF Managed
<1>3. SlotsPrepared(mode)[s] = slots[s]
  BY <1>1, <1>2, PreparedSlots
<1>4. slots[s] \in SlotRow /\ slots[s].code = jan
  BY <1>1 DEF Tables
<1>5. jan \in Jan
  BY <1>1, <1>3, <1>4, SlotFields
<1>6. p \in Group(mode, jan)
  BY DEF Group
<1>7. jan \in Exportable(mode)
  BY <1>1, <1>3, <1>4, <1>5, <1>6 DEF BlockedCodes, Exportable
<1>8. s \in With(slots, jan, Status \ {"free"})
  BY <1>1, <1>3, <1>4 DEF With, Status
<1>9. jan \in Placed(mode)
  BY <1>7, <1>8 DEF Placed, Needing
<1> DEFINE other == [kind |-> "product", slot |-> Place(mode, jan),
                     products |-> Group(mode, jan), content |-> Content(mode, jan)]
<1>10. other \in File(mode)
  BY <1>9 DEF File, ProductRows
<1>11. p \in other.products
  BY <1>6
<1> QED
  BY <1>10, <1>11

(* No file clears a barcode it was to register from the register.           *)
THEOREM SelectedAreSpared == Spec => ClearSparesSelected
<1>1. PluInvariant /\ [Next]_vars =>
      [unsaved' \notin {NoFile, unsaved} =>
          \A mode \in {"full", "diff"} : unsaved' = File(mode) =>
          \A row \in unsaved', p \in Selected(mode) :
              row.kind = "clear" /\ slots[row.slot].code = products[p].jan =>
                  \E other \in unsaved' : p \in other.products]_vars
  <2> SUFFICES ASSUME PluInvariant, NEW mode, unsaved' = File(mode),
                      NEW row \in unsaved', NEW p \in Selected(mode),
                      row.kind = "clear", slots[row.slot].code = products[p].jan
               PROVE  \E other \in unsaved' : p \in other.products
    OBVIOUS
  <2> QED
    BY ClearSpares DEF PluInvariant
<1> QED
  BY <1>1, PluInvariance, PTL DEF Spec, ClearSparesSelected

LEMMA StickyStep ==
    ASSUME PluInvariant, Next, NEW s \in Slot, NEW p \in DOMAIN products,
           slots[s].status \in Managed, products[p].jan = slots[s].code,
           Sold(products'[p]), products'[p].jan = products[p].jan
    PROVE  \/ slots'[s].code = slots[s].code /\ slots'[s].status \in Managed
           \/ slots[s].status = "reserved" /\ slots'[s].status = "external"
<1> DEFINE jan == slots[s].code
<1>0. slots \in Tables /\ slots[s] \in SlotRow /\ jan \in Jan
  <2>1. slots \in Tables /\ slots[s] \in SlotRow
    BY DEF PluInvariant, Tables
  <2> QED
    BY <2>1, SlotFields DEF Managed
<1>1. CASE ReadRegister
  <2>1. PICK seen \in Observation : slots' = After(seen)[LastSlot]
    BY <1>1, ReadRegisterReads
  <2>2. seen \in [Slot -> Jan \cup {NoJan}]
    BY PluAssumption
  <2> QED
    BY <1>0, <2>1, <2>2, AfterTyped
<1>2. CASE \E mode \in {"full", "diff"} : Prepare(mode)
  <2>1. PICK mode \in {"full", "diff"} : Prepare(mode)
    BY <1>2
  <2>2. slots' = SlotsPrepared(mode)
    BY <2>1 DEF Prepare
  <2>3. CASE \E other \in Placed(mode) : Place(mode, other) = s
    <3>1. PICK other \in Placed(mode) : Place(mode, other) = s
      BY <2>3
    <3>2. s \in With(slots, other, Live)
      BY <1>0, <3>1, PlaceIsKnown DEF With, Managed, Free
    <3>3. other = jan
      BY <3>2 DEF With
    <3> QED
      BY <1>0, <2>2, <3>1, <3>3, PreparedSlots, TakenIsManaged
  <2>4. CASE ~\E other \in Placed(mode) : Place(mode, other) = s
    BY <1>0, <2>2, <2>4, PreparedSlots
  <2> QED
    BY <2>3, <2>4
<1>3. CASE Save \/ CancelSave \/ Discard
  BY <1>3 DEF Save, CancelSave, Discard, database
<1>4. CASE Confirm
  <2>1. CASE \E row \in saved : row.slot = s
    <3>1. PICK row \in saved : row.slot = s
      BY <2>1
    <3>2. row.kind = "product"
      BY <1>4, <3>1, ConfirmTakes DEF Managed, FreeSlot
    <3> QED
      BY <1>4, <3>1, <3>2, ConfirmTakes DEF Managed
  <2>2. CASE \A row \in saved : row.slot # s
    <3>1. slots' = SlotsConfirmed(saved) /\ slots \in Tables /\ WellFormed(saved)
          /\ Accepted(saved, slots, products)
      BY <1>4 DEF Confirm, PluInvariant
    <3> QED
      BY <2>2, <3>1, ConfirmedSlots
  <2> QED
    BY <2>1, <2>2
<1>5. CASE EditProduct
  <2>1. /\ p \in DOMAIN products'
        /\ slots'[s] = slots[s] \/ slots'[s] = Released(slots, slots[s].code, products')[s]
    BY <1>5, EditsRelease DEF PluInvariant
  <2>2. IsSold(products', jan)
    BY <1>0, <2>1 DEF IsSold
  <2> QED
    BY <1>0, <2>1, <2>2, ReleasedSlots
<1> QED
  BY <1>1, <1>2, <1>3, <1>4, <1>5 DEF Next, Export

(* The memory of a barcode stays with it for as long as one of its products *)
(* is sold, whatever is done to the others.                                 *)
THEOREM SlotsStayWithTheirProducts == Spec => SlotsAreSticky
<1>1. PluInvariant /\ [Next]_vars =>
      [\A s \in Slot, p \in DOMAIN products :
          /\ slots[s].status \in Managed /\ products[p].jan = slots[s].code
          /\ Sold(products[p]) /\ Sold(products'[p]) /\ products'[p].jan = products[p].jan
          => \/ slots'[s].code = slots[s].code /\ slots'[s].status \in Managed
             \/ slots[s].status = "reserved" /\ slots'[s].status = "external"]_vars
  BY StickyStep
<1> QED
  BY <1>1, PluInvariance, PTL DEF Spec, SlotsAreSticky
=============================================================================
