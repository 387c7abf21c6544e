----------------------- MODULE InventoryRecordsProofs -----------------------
(***************************************************************************)
(* Theorems about InventoryRecords: types, the copy of the stock, the axis  *)
(* of the settlements, the barcodes of linked products, the rows of an       *)
(* import and the preview of a file of products; and about the counts: that *)
(* one can always be placed among the others of its product, what a fresh   *)
(* one settles and keeps contained, and the range of a product to recheck.  *)
(***************************************************************************)
EXTENDS InventoryRecords, StockLedgerProofs, SequenceTheorems

-----------------------------------------------------------------------------
(* Lemmas about the helpers. *)

(* The product a register line is credited to is one of those with its JAN. *)
LEMMA FirstCandidateIsCandidate ==
    ASSUME NEW jan, DOMAIN products \subseteq Product, Candidates(jan) # {}
    PROVE  FirstCandidate(jan) \in Candidates(jan)
<1>1. Candidates(jan) \in SUBSET Nat
  BY ShopAssumption DEF Candidates
<1> QED
  BY <1>1, MinIsElement DEF FirstCandidate

(* Ranks number the elements of a finite set of naturals from 1.           *)
LEMMA RankIsIndex ==
    ASSUME NEW S \in SUBSET Nat, IsFiniteSet(S), NEW k \in S
    PROVE  Cardinality(S) \in Nat /\ Rank(k, S) \in 1..Cardinality(S)
<1> DEFINE T == {j \in S : j <= k}
<1>1. IsFiniteSet(T) /\ Cardinality(T) <= Cardinality(S)
  BY FS_Subset
<1>2. T # {}
  OBVIOUS
<1>3. Cardinality(S) \in Nat /\ Cardinality(T) \in Nat /\ Cardinality(T) # 0
  BY <1>1, <1>2, FS_CardinalityType, FS_EmptySet
<1> QED
  BY <1>1, <1>3 DEF Rank

-----------------------------------------------------------------------------
(* Recompute changes nothing but the stock and the range of the products    *)
(* concerned, and those to what the tables derive, within the limit.        *)
LEMMA RecomputeKeeps ==
    ASSUME NEW table, NEW P, Recompute(table, P)
    PROVE  /\ DOMAIN products' = DOMAIN table
           /\ \A p \in DOMAIN table : p \notin P => products'[p] = table[p]
  BY DEF Recompute

LEMMA RecomputeWrites ==
    ASSUME NEW table, NEW P, Recompute(table, P), NEW p \in P
    PROVE  LET derived == Derive(LedgerIn(p, counts', movements', imports',
                                          sales'))
           IN  /\ WithinStockLimit(derived)
               /\ p \in DOMAIN table =>
                     products'[p] = [table[p] EXCEPT !.stock = derived.stock,
                                                     !.range = derived.range]
  BY DEF Recompute

(* What a recomputation writes into well-formed rows is well-formed.        *)
LEMMA RecomputeTyped ==
    ASSUME NEW table, NEW P, Recompute(table, P),
           DOMAIN table \subseteq Product,
           \A p \in DOMAIN table :
              \/ table[p] \in ProductRow
              \/ /\ p \in P
                 /\ table[p] \in [jan : Jan \cup {NoJan}, sync : BOOLEAN,
                                  stock : Nat, range : {NoRange}]
    PROVE  DOMAIN products' \subseteq Product
           /\ products' \in [DOMAIN products' -> ProductRow]
<1>1. DOMAIN products' = DOMAIN table
  BY RecomputeKeeps
<1>2. SUFFICES ASSUME NEW p \in DOMAIN table
               PROVE  products'[p] \in ProductRow
  BY <1>1 DEF Recompute
<1>3. CASE p \notin P
  <2>1. products'[p] = table[p]
    BY <1>3, RecomputeKeeps
  <2> QED
    BY <2>1, <1>3
<1>4. CASE p \in P
  <2> DEFINE derived == Derive(LedgerIn(p, counts', movements', imports',
                                        sales'))
  <2>1. /\ WithinStockLimit(derived)
        /\ products'[p] = [table[p] EXCEPT !.stock = derived.stock,
                                           !.range = derived.range]
    BY <1>4, RecomputeWrites
  <2>2. derived.stock \in StockLimit
    BY <2>1 DEF WithinStockLimit
  <2>3. derived.range \in {NoRange} \cup (StockLimit \X StockLimit)
    <3>1. \/ derived.range = NoRange
          \/ \E a, b : derived.range = <<a, b>>
      BY RangeShape
    <3> HIDE DEF derived
    <3> QED
      BY <3>1, <2>1 DEF WithinStockLimit
  <2> HIDE DEF derived
  <2> QED
    BY <2>1, <2>2, <2>3 DEF ProductRow
<1> QED
  BY <1>3, <1>4

-----------------------------------------------------------------------------
(* Types.  One lemma for each command that writes rows.                     *)

LEMMA OperationTyped ==
    ASSUME TypeOK, NEW op \in Operation, RecordOperation(op)
    PROVE  TypeOK'
<1>1. op.date \in Nat /\ Len(op.lines) \in Nat
      /\ DOMAIN op.lines = 1..Len(op.lines)
      /\ \A k \in DOMAIN op.lines :
            op.lines[k].product \in Product /\ op.lines[k].qty \in Int
  <2>1. op.date \in Nat \ {0}
        /\ op.lines \in Seq([product : Product, qty : Int \ {0}])
    BY FilesAssumption
  <2>2. \A k \in 1..Len(op.lines) :
            op.lines[k] \in [product : Product, qty : Int \ {0}]
    BY <2>1, ElementOfSeq
  <2> QED
    BY <2>1, <2>2
<1>2. last.movement \in 0..MaxMovement
      /\ last.movement + Len(op.lines) <= MaxMovement
  BY DEF TypeOK, RecordOperation
<1>3. Written(op, Len(op.lines)) \subseteq MovementRow
  <2>1. ASSUME NEW j \in 1..Len(op.lines)
        PROVE  /\ last.movement + j \in 1..MaxMovement
               /\ op.lines[j].product \in Product /\ op.lines[j].qty \in Int
    BY <1>1, <1>2, BoundsAssumption
  <2>2. 0 \in 0..MaxImport
    BY BoundsAssumption
  <2>3. ASSUME NEW j \in 1..Len(op.lines)
        PROVE  [id |-> last.movement + j, product |-> op.lines[j].product,
                qty |-> op.lines[j].qty, date |-> op.date, initial |-> FALSE,
                settlement |-> NoSettlement, import |-> 0,
                voided |-> FALSE] \in MovementRow
    BY <1>1, <2>1, <2>2 DEF MovementRow
  <2> QED
    BY <2>3 DEF Written
<1>4. movements' \subseteq MovementRow
  BY <1>3 DEF TypeOK, RecordOperation
<1>5. last' \in [count : 0..MaxCount, movement : 0..MaxMovement,
                 import : 0..MaxImport]
  <2>1. last.movement + Len(op.lines) \in 0..MaxMovement
    BY <1>1, <1>2, BoundsAssumption
  <2> QED
    BY <2>1 DEF TypeOK, RecordOperation
<1>6. DOMAIN products' \subseteq Product
      /\ products' \in [DOMAIN products' -> ProductRow]
  BY RecomputeTyped DEF TypeOK, RecordOperation
<1> QED
  BY <1>4, <1>5, <1>6 DEF TypeOK, RecordOperation

(* The lines of a file that become sales, and among them movements.         *)
LEMMA LinesTyped ==
    ASSUME TypeOK, NEW f \in Z004
    PROVE  /\ f.no \in Nat /\ f.date \in Nat
           /\ MatchedLines(f) \subseteq Nat
           /\ StockLines(f) \subseteq MatchedLines(f)
           /\ IsFiniteSet(StockLines(f))
           /\ Cardinality(StockLines(f)) \in Nat
           /\ \A k \in MatchedLines(f) :
                 /\ f.rows[k].qty \in Int /\ f.rows[k].amount \in Int
                 /\ FirstCandidate(f.rows[k].jan) \in DOMAIN products
<1>1. f.no \in Nat /\ f.date \in Nat /\ Len(f.rows) \in Nat
      /\ DOMAIN f.rows = 1..Len(f.rows)
      /\ \A k \in DOMAIN f.rows : f.rows[k].qty \in Int
                                  /\ f.rows[k].amount \in Int
  <2>1. f.no \in Nat /\ f.date \in Nat
        /\ f.rows \in Seq([jan : Jan, qty : Int, amount : Int])
    BY FilesAssumption
  <2>2. \A k \in 1..Len(f.rows) :
            f.rows[k] \in [jan : Jan, qty : Int, amount : Int]
    BY <2>1, ElementOfSeq
  <2>3. Len(f.rows) \in Nat /\ DOMAIN f.rows = 1..Len(f.rows)
    BY <2>1
  <2>4. \A k \in 1..Len(f.rows) : f.rows[k].qty \in Int
                                   /\ f.rows[k].amount \in Int
    BY <2>2
  <2> QED
    BY <2>1, <2>3, <2>4
<1>2. StockLines(f) \subseteq MatchedLines(f)
      /\ MatchedLines(f) \subseteq 1..Len(f.rows)
  BY <1>1 DEF StockLines, MatchedLines
<1>3. IsFiniteSet(StockLines(f)) /\ Cardinality(StockLines(f)) \in Nat
  <2>1. IsFiniteSet(1..Len(f.rows))
    <3>1. Len(f.rows) \in Int
      BY <1>1
    <3> QED
      BY <3>1, FS_Interval
  <2>2. StockLines(f) \in SUBSET (1..Len(f.rows))
    BY <1>2
  <2> QED
    BY <2>1, <2>2, FS_Subset, FS_CardinalityType
<1>4. ASSUME NEW k \in MatchedLines(f)
      PROVE  FirstCandidate(f.rows[k].jan) \in DOMAIN products
  <2>1. Candidates(f.rows[k].jan) # {}
    BY DEF MatchedLines
  <2>2. FirstCandidate(f.rows[k].jan) \in Candidates(f.rows[k].jan)
    BY <2>1, FirstCandidateIsCandidate DEF TypeOK
  <2> QED
    BY <2>2 DEF Candidates
<1> QED
  BY <1>1, <1>2, <1>3, <1>4

LEMMA ImportTyped ==
    ASSUME TypeOK, NEW f \in Z004, ImportSettlement(f)
    PROVE  TypeOK'
<1> DEFINE id == last.import + 1
<1>1. id \in 1..MaxImport /\ last.movement \in 0..MaxMovement
      /\ last.movement + Cardinality(StockLines(f)) <= MaxMovement
  BY BoundsAssumption DEF TypeOK, ImportSettlement
<1>2. imports' \subseteq ImportRow
  <2>1. f.no \in Nat /\ f.date \in Nat
    BY LinesTyped
  <2>2. [id |-> id, hash |-> f.hash, machine |-> f.machine, no |-> f.no,
         date |-> f.date, rolledBack |-> FALSE] \in ImportRow
    BY <1>1, <2>1 DEF ImportRow
  <2> QED
    BY <2>2 DEF TypeOK, ImportSettlement
<1>3. sales' \subseteq SaleRow
  <2>1. SaleRows(f, id) \subseteq SaleRow
    <3>1. \A k \in MatchedLines(f) : RowLinked(f.rows[k]) \in BOOLEAN
      <4>1. ASSUME NEW k \in MatchedLines(f)
            PROVE  products[FirstCandidate(f.rows[k].jan)].sync \in BOOLEAN
        <5>1. FirstCandidate(f.rows[k].jan) \in DOMAIN products
          BY LinesTyped
        <5>2. products[FirstCandidate(f.rows[k].jan)] \in ProductRow
          BY <5>1 DEF TypeOK
        <5> QED
          BY <5>2 DEF ProductRow
      <4> QED
        BY <4>1 DEF RowLinked
    <3>2. ASSUME NEW k \in MatchedLines(f)
          PROVE  /\ k \in Nat /\ f.rows[k].qty \in Int
                 /\ f.rows[k].amount \in Int
                 /\ FirstCandidate(f.rows[k].jan) \in Product
      BY LinesTyped DEF TypeOK
    <3>3. ASSUME NEW k \in MatchedLines(f)
          PROVE  [import |-> id, line |-> k,
                  product |-> FirstCandidate(f.rows[k].jan),
                  qty |-> f.rows[k].qty, amount |-> f.rows[k].amount,
                  linked |-> RowLinked(f.rows[k]),
                  voided |-> FALSE] \in SaleRow
      BY <3>1, <3>2, <1>1 DEF SaleRow
    <3> QED
      BY <3>3 DEF SaleRows
  <2> QED
    BY <2>1 DEF TypeOK, ImportSettlement
<1>4. movements' \subseteq MovementRow
  <2>1. MovementRows(f, id) \subseteq MovementRow
    <3>1. ASSUME NEW k \in StockLines(f)
          PROVE  last.movement + Rank(k, StockLines(f)) \in 1..MaxMovement
      <4>1. Rank(k, StockLines(f)) \in 1..Cardinality(StockLines(f))
        BY LinesTyped, RankIsIndex
      <4> QED
        BY <4>1, <1>1, LinesTyped, BoundsAssumption
    <3>2. ASSUME NEW k \in StockLines(f)
          PROVE  /\ -f.rows[k].qty \in Int
                 /\ FirstCandidate(f.rows[k].jan) \in Product
      BY LinesTyped DEF TypeOK
    <3>3. f.no \in Nat /\ f.date \in Nat /\ id \in 0..MaxImport
      BY <1>1, LinesTyped
    <3>4. ASSUME NEW k \in StockLines(f)
          PROVE  [id |-> last.movement + Rank(k, StockLines(f)),
                  product |-> FirstCandidate(f.rows[k].jan),
                  qty |-> -f.rows[k].qty, date |-> f.date, initial |-> FALSE,
                  settlement |-> f.no, import |-> id,
                  voided |-> FALSE] \in MovementRow
      BY <3>1, <3>2, <3>3 DEF MovementRow
    <3> QED
      BY <3>4 DEF MovementRows
  <2> QED
    BY <2>1 DEF TypeOK, ImportSettlement
<1>5. last' \in [count : 0..MaxCount, movement : 0..MaxMovement,
                 import : 0..MaxImport]
  <2>1. /\ last.movement + Cardinality(StockLines(f)) \in 0..MaxMovement
        /\ id \in 0..MaxImport
    BY <1>1, LinesTyped, BoundsAssumption
  <2>2. last' = [last EXCEPT !.import = id,
                             !.movement = @ + Cardinality(StockLines(f))]
    BY DEF ImportSettlement
  <2> QED
    BY <2>1, <2>2 DEF TypeOK
<1>6. DOMAIN products' \subseteq Product
      /\ products' \in [DOMAIN products' -> ProductRow]
  BY RecomputeTyped DEF TypeOK, ImportSettlement
<1> QED
  BY <1>2, <1>3, <1>4, <1>5, <1>6 DEF TypeOK, ImportSettlement

LEMMA RollbackTyped ==
    ASSUME TypeOK, NEW i \in imports, RollbackImport(i)
    PROVE  TypeOK'
<1>1. imports' \subseteq ImportRow
  <2>1. ASSUME NEW r \in ImportRow
        PROVE  [r EXCEPT !.rolledBack = @ \/ r.id = i.id] \in ImportRow
    BY DEF ImportRow
  <2> QED
    BY <2>1 DEF TypeOK, RollbackImport
<1>2. sales' \subseteq SaleRow
  BY DEF TypeOK, RollbackImport, SaleRow
<1>3. movements' \subseteq MovementRow
  BY DEF TypeOK, RollbackImport, MovementRow
<1>4. DOMAIN products' \subseteq Product
      /\ products' \in [DOMAIN products' -> ProductRow]
  BY RecomputeTyped DEF TypeOK, RollbackImport
<1> QED
  BY <1>1, <1>2, <1>3, <1>4 DEF TypeOK, RollbackImport

LEMMA CountTyped ==
    ASSUME TypeOK, NEW p \in DOMAIN products, NEW value \in CountValue,
           NEW fresh \in BOOLEAN, NEW date \in 1..MaxDate,
           SaveCount(p, value, fresh, date)
    PROVE  TypeOK'
<1>1. NewCount(p, value, fresh, date) \in CountRow
  BY BoundsAssumption DEF NewCount, CountRow, TypeOK, SaveCount, Dates
<1>2. last' \in [count : 0..MaxCount, movement : 0..MaxMovement,
                 import : 0..MaxImport]
  BY BoundsAssumption DEF TypeOK, SaveCount
<1>3. DOMAIN products' \subseteq Product
      /\ products' \in [DOMAIN products' -> ProductRow]
  BY RecomputeTyped DEF TypeOK, SaveCount
<1> QED
  BY <1>1, <1>2, <1>3 DEF TypeOK, SaveCount

LEMMA CreateTyped ==
    ASSUME TypeOK, NEW p \in Product, NEW jan \in Jan \cup {NoJan},
           NEW shared \in BOOLEAN, NEW sync \in BOOLEAN,
           NEW initial \in InitialStock,
           CreateProduct(p, jan, shared, sync, initial)
    PROVE  TypeOK'
<1> DEFINE relinked == {q \in Candidates(jan) :
                          shared /\ jan # NoJan /\ products[q].sync}
           table == [q \in DOMAIN products \cup {p} |->
                      IF q = p THEN [jan |-> jan, sync |-> sync,
                                     stock |-> initial, range |-> NoRange]
                      ELSE IF q \in relinked
                           THEN [products[q] EXCEPT !.sync = FALSE]
                           ELSE products[q]]
<1>1. initial \in Nat /\ last.movement \in 0..MaxMovement
      /\ (initial > 0 => last.movement < MaxMovement)
  BY ShopAssumption DEF TypeOK, CreateProduct
<1>2. movements' \subseteq MovementRow
  <2>1. ASSUME NEW q \in {initial} \ {0}
        PROVE  [id |-> last.movement + 1, product |-> p, qty |-> q,
                date |-> today, initial |-> TRUE,
                settlement |-> NoSettlement, import |-> 0,
                voided |-> FALSE] \in MovementRow
    <3>1. q \in Int /\ last.movement + 1 \in 1..MaxMovement /\ today \in Nat
          /\ 0 \in 0..MaxImport
      BY <1>1, BoundsAssumption DEF TypeOK, Dates
    <3> QED
      BY <3>1 DEF MovementRow
  <2> QED
    BY <2>1 DEF TypeOK, CreateProduct
<1>3. last' \in [count : 0..MaxCount, movement : 0..MaxMovement,
                 import : 0..MaxImport]
  <2>1. (IF initial > 0 THEN last.movement + 1 ELSE last.movement)
            \in 0..MaxMovement
    BY <1>1, BoundsAssumption
  <2> QED
    BY <2>1 DEF TypeOK, CreateProduct
<1>4. DOMAIN products' \subseteq Product
      /\ products' \in [DOMAIN products' -> ProductRow]
  <2>1. Recompute(table, {p} \cup relinked) /\ p \notin DOMAIN products
    BY DEF CreateProduct
  <2>2. DOMAIN table \subseteq Product
    BY DEF TypeOK
  <2>3. ASSUME NEW q \in DOMAIN table
        PROVE  \/ table[q] \in ProductRow
               \/ /\ q \in {p} \cup relinked
                  /\ table[q] \in [jan : Jan \cup {NoJan}, sync : BOOLEAN,
                                   stock : Nat, range : {NoRange}]
    <3>1. CASE q = p
      BY <3>1, <1>1
    <3>2. CASE q # p
      <4>1. products[q] \in ProductRow
        BY <3>2 DEF TypeOK
      <4> QED
        BY <3>2, <4>1 DEF ProductRow
    <3> QED
      BY <3>1, <3>2
  <2> HIDE DEF table, relinked
  <2> QED
    BY <2>1, <2>2, <2>3, RecomputeTyped
<1> QED
  BY <1>2, <1>3, <1>4 DEF TypeOK, CreateProduct

LEMMA LinkTyped ==
    ASSUME TypeOK, NEW p \in DOMAIN products, StartLinking(p) \/ StopLinking(p)
    PROVE  TypeOK'
<1>1. PICK sync \in BOOLEAN :
          Recompute([products EXCEPT ![p].sync = sync], {p})
  BY DEF StartLinking, StopLinking
<1> DEFINE table == [products EXCEPT ![p].sync = sync]
<1>2. DOMAIN table \subseteq Product
  BY DEF TypeOK
<1>3. \A q \in DOMAIN table : table[q] \in ProductRow
  BY DEF TypeOK, ProductRow
<1>4. DOMAIN products' \subseteq Product
      /\ products' \in [DOMAIN products' -> ProductRow]
  <2> HIDE DEF table
  <2>1. Recompute(table, {p})
    BY <1>1 DEF table
  <2> QED
    BY <2>1, <1>2, <1>3, RecomputeTyped
<1> QED
  BY <1>4 DEF TypeOK, StartLinking, StopLinking

(* The rows of a product file; what is written of them.                     *)
LEMMA ProductRows ==
    ASSUME NEW f \in ProductFile
    PROVE  /\ Len(f) \in Nat /\ DOMAIN f = 1..Len(f)
           /\ \A k \in DOMAIN f :
                 /\ f[k].product \in Product /\ f[k].jan \in Jan \cup {NoJan}
                 /\ f[k].initial \in Nat
           /\ \A j, k \in DOMAIN f : f[j].product = f[k].product => j = k
<1>1. f \in Seq([product : Product, jan : Jan \cup {NoJan},
                link : {"keep", "on", "off"}, initial : Nat])
      /\ \A j, k \in DOMAIN f : f[j].product = f[k].product => j = k
  BY ProductFilesAssumption
<1>2. \A k \in 1..Len(f) :
          f[k] \in [product : Product, jan : Jan \cup {NoJan},
                   link : {"keep", "on", "off"}, initial : Nat]
  BY <1>1, ElementOfSeq
<1> QED
  BY <1>1, <1>2

(* After some rows of a file their products are as written, the others as   *)
(* before: no row of the file is of the product of another.                 *)
LEMMA AfterRowsAt ==
    ASSUME NEW f \in ProductFile, NEW done \in SUBSET DOMAIN f
    PROVE  LET table == AfterRows(f, done)
           IN  /\ DOMAIN table =
                     DOMAIN products \cup {f[k].product : k \in done}
               /\ \A k \in done :
                     table[f[k].product] = WrittenProduct(f[k])
               /\ \A p \in DOMAIN products :
                     (~\E k \in done : p = f[k].product) =>
                        table[p] = products[p]
<1>1. ASSUME NEW k \in done
      PROVE  RowFor(f, done, f[k].product) = k
  BY ProductRows DEF RowFor
<1> QED
  BY <1>1 DEF AfterRows

LEMMA WrittenProductTyped ==
    ASSUME TypeOK, NEW f \in ProductFile, NEW k \in DOMAIN f
    PROVE  LET new == WrittenProduct(f[k])
           IN  /\ {"jan", "sync", "stock", "range"} \subseteq DOMAIN new
               /\ IsNew(f[k]) =>
                     new \in [jan : Jan \cup {NoJan}, sync : BOOLEAN,
                             stock : Nat, range : {NoRange}]
               /\ ~IsNew(f[k]) =>
                     /\ new \in ProductRow
                     /\ new.stock = products[f[k].product].stock
                     /\ new.range = products[f[k].product].range
<1> DEFINE link == LinkOf(f[k])
<1>1. f[k].jan \in Jan \cup {NoJan} /\ f[k].initial \in Nat
  BY ProductRows
<1>2. CASE IsNew(f[k])
  <2>1. link \in BOOLEAN
    BY <1>2 DEF LinkOf
  <2>2. WrittenProduct(f[k]) = [jan |-> f[k].jan, sync |-> link,
                                stock |-> f[k].initial, range |-> NoRange]
    BY <1>2 DEF WrittenProduct
  <2> HIDE DEF link
  <2> QED
    BY <1>1, <1>2, <2>1, <2>2
<1>3. CASE ~IsNew(f[k])
  <2>1. products[f[k].product] \in ProductRow
    BY <1>3 DEF TypeOK, IsNew
  <2>2. link \in BOOLEAN
    BY <2>1 DEF LinkOf, ProductRow
  <2>3. WrittenProduct(f[k]) =
            [products[f[k].product] EXCEPT !.jan = f[k].jan, !.sync = link]
    BY <1>3 DEF WrittenProduct
  <2> HIDE DEF link
  <2> QED
    BY <1>1, <1>3, <2>1, <2>2, <2>3 DEF ProductRow
<1> QED
  BY <1>2, <1>3

LEMMA ProductsTyped ==
    ASSUME TypeOK, NEW f \in ProductFile, NEW sent \in SUBSET DOMAIN f,
           ImportProducts(f, sent)
    PROVE  TypeOK'
<1> DEFINE stocked == StockedRows(f, sent)
           table == AfterRows(f, sent)
           P == {f[k].product : k \in RecomputedRows(f, sent)}
<1>0. /\ DOMAIN table = DOMAIN products \cup {f[k].product : k \in sent}
      /\ \A k \in sent : table[f[k].product] = WrittenProduct(f[k])
      /\ \A p \in DOMAIN products :
            (~\E k \in sent : p = f[k].product) => table[p] = products[p]
  BY AfterRowsAt
<1>1. /\ stocked \in SUBSET Nat /\ IsFiniteSet(stocked)
      /\ stocked \subseteq DOMAIN f /\ Cardinality(stocked) \in Nat
  <2>1. Len(f) \in Int /\ DOMAIN f = 1..Len(f)
    BY ProductRows
  <2>2. IsFiniteSet(1..Len(f))
    BY <2>1, FS_Interval
  <2>3. stocked \subseteq 1..Len(f)
    BY <2>1 DEF StockedRows
  <2>4. IsFiniteSet(stocked)
    BY <2>2, <2>3, FS_Subset
  <2> HIDE DEF stocked
  <2> QED
    BY <2>1, <2>3, <2>4, FS_CardinalityType
<1>2. /\ last.movement \in 0..MaxMovement /\ MaxMovement \in Nat
      /\ last.movement + Cardinality(stocked) <= MaxMovement
  BY BoundsAssumption DEF TypeOK, ImportProducts
<1>3. movements' \subseteq MovementRow
  <2>1. ASSUME NEW k \in stocked
        PROVE  [id |-> last.movement + Rank(k, stocked),
                product |-> f[k].product, qty |-> f[k].initial, date |-> today,
                initial |-> TRUE, settlement |-> NoSettlement, import |-> 0,
                voided |-> FALSE] \in MovementRow
    <3>1. Rank(k, stocked) \in 1..Cardinality(stocked)
      <4> HIDE DEF stocked
      <4> QED
        BY <1>1, RankIsIndex
    <3> HIDE DEF stocked
    <3>2. last.movement + Rank(k, stocked) \in 1..MaxMovement
      BY <1>1, <1>2, <3>1
    <3>3. f[k].product \in Product /\ f[k].initial \in Int
          /\ today \in Nat /\ 0 \in 0..MaxImport
      BY <1>1, ProductRows, BoundsAssumption DEF TypeOK, Dates
    <3> QED
      BY <3>2, <3>3 DEF MovementRow
  <2>2. movements' = movements \cup
            {[id |-> last.movement + Rank(k, stocked),
              product |-> f[k].product, qty |-> f[k].initial, date |-> today,
              initial |-> TRUE, settlement |-> NoSettlement, import |-> 0,
              voided |-> FALSE] : k \in stocked}
    BY DEF ImportProducts
  <2> HIDE DEF stocked
  <2> QED
    BY <2>1, <2>2 DEF TypeOK
<1>4. last' \in [count : 0..MaxCount, movement : 0..MaxMovement,
                 import : 0..MaxImport]
  <2>1. last' = [last EXCEPT !.movement = @ + Cardinality(stocked)]
    BY DEF ImportProducts
  <2> HIDE DEF stocked
  <2>2. last.movement + Cardinality(stocked) \in 0..MaxMovement
    BY <1>1, <1>2
  <2> QED
    BY <2>1, <2>2 DEF TypeOK
<1>5. DOMAIN products' \subseteq Product
      /\ products' \in [DOMAIN products' -> ProductRow]
  <2>1. Recompute(table, P)
    BY DEF ImportProducts
  <2>2. DOMAIN table \subseteq Product
    <3> HIDE DEF table
    <3> QED
      BY <1>0, ProductRows DEF TypeOK
  <2>3. ASSUME NEW q \in DOMAIN table
        PROVE  \/ table[q] \in ProductRow
               \/ /\ q \in P
                  /\ table[q] \in [jan : Jan \cup {NoJan}, sync : BOOLEAN,
                                   stock : Nat, range : {NoRange}]
    <3>1. CASE \E k \in sent : q = f[k].product
      <4>1. PICK k \in sent : q = f[k].product
        BY <3>1
      <4>2. table[q] = WrittenProduct(f[k]) /\ k \in DOMAIN f
        BY <1>0, <4>1
      <4>3. IsNew(f[k]) => q \in P
        BY <4>1 DEF RecomputedRows
      <4> HIDE DEF table, P
      <4> QED
        BY <4>2, <4>3, WrittenProductTyped
    <3>2. CASE ~\E k \in sent : q = f[k].product
      <4> HIDE DEF table
      <4>1. q \in DOMAIN products /\ table[q] = products[q]
        BY <1>0, <3>2
      <4> QED
        BY <4>1 DEF TypeOK
    <3> QED
      BY <3>1, <3>2
  <2> HIDE DEF table, P
  <2> QED
    BY <2>1, <2>2, <2>3, RecomputeTyped
<1>6. UNCHANGED <<today, counts, imports, sales>>
  BY DEF ImportProducts
<1> QED
  BY <1>3, <1>4, <1>5, <1>6 DEF TypeOK

LEMMA TypeStep == TypeOK /\ [Next]_vars => TypeOK'
<1> SUFFICES ASSUME TypeOK, [Next]_vars PROVE TypeOK'
  OBVIOUS
<1>1. CASE NextDay
  BY <1>1, BoundsAssumption DEF NextDay, TypeOK, tables, Dates
<1>2. CASE SetClockBack
  BY <1>2, BoundsAssumption DEF SetClockBack, TypeOK, tables, Dates
<1>3. CASE \E op \in Operation : RecordOperation(op)
  BY <1>3, OperationTyped
<1>4. CASE \E f \in Z004 : ImportSettlement(f)
  BY <1>4, ImportTyped
<1>5. CASE \E i \in imports : RollbackImport(i)
  BY <1>5, RollbackTyped
<1>6. CASE SaveSomeCount
  BY <1>6, CountTyped DEF SaveSomeCount
<1>7. CASE CreateSomeProduct
  BY <1>7, CreateTyped DEF CreateSomeProduct
<1>8. CASE \E p \in DOMAIN products : StartLinking(p) \/ StopLinking(p)
  BY <1>8, LinkTyped
<1>9. CASE ImportSomeProducts
  BY <1>9, ProductsTyped DEF ImportSomeProducts
<1>10. CASE UNCHANGED vars
  BY <1>10 DEF vars, tables, TypeOK
<1> QED
  BY <1>1, <1>2, <1>3, <1>4, <1>5, <1>6, <1>7, <1>8, <1>9, <1>10 DEF Next

LEMMA TypeInit == Init => TypeOK
  BY BoundsAssumption, ShopAssumption DEF Init, TypeOK, Dates, ProductRow,
     StockLimit

(* The tables never hold anything but rows of their shapes, whatever the    *)
(* shop, its files and its operations; in particular every stock and every  *)
(* range lies within the limit.                                            *)
THEOREM TypeCorrect == Spec => []TypeOK
  BY TypeInit, TypeStep, PTL DEF Spec

-----------------------------------------------------------------------------
(* The axis of the settlements. *)

(* An import keeps every row of imports but its own; a rollback only marks  *)
(* one.  Every other step leaves the imports alone.                         *)
LEMMA ImportsChange ==
    ASSUME [Next]_vars
    PROVE  \/ imports' = imports
           \/ \E f \in Z004 : ImportSettlement(f)
           \/ \E i \in imports : RollbackImport(i)
<1>1. CASE SaveSomeCount
  BY <1>1 DEF SaveSomeCount, SaveCount
<1>2. CASE CreateSomeProduct
  BY <1>2 DEF CreateSomeProduct, CreateProduct
<1>3. CASE \E op \in Operation : RecordOperation(op)
  BY <1>3 DEF RecordOperation
<1>4. CASE \E p \in DOMAIN products : StartLinking(p) \/ StopLinking(p)
  BY <1>4 DEF StartLinking, StopLinking
<1>5. CASE NextDay \/ SetClockBack \/ UNCHANGED vars
  BY <1>5 DEF NextDay, SetClockBack, vars, tables
<1>6. CASE ImportSomeProducts
  BY <1>6 DEF ImportSomeProducts, ImportProducts
<1> QED
  BY <1>1, <1>2, <1>3, <1>4, <1>5, <1>6 DEF Next

LEMMA AxisStep ==
    TypeOK /\ SettlementsFormOneAxis /\ [Next]_vars => SettlementsFormOneAxis'
<1> SUFFICES ASSUME TypeOK, SettlementsFormOneAxis, [Next]_vars
             PROVE  SettlementsFormOneAxis'
  OBVIOUS
<1>1. CASE imports' = imports
  BY <1>1 DEF SettlementsFormOneAxis, Active
<1>2. CASE \E f \in Z004 : ImportSettlement(f)
  <2>1. PICK f \in Z004 : ImportSettlement(f)
    BY <1>2
  <2> DEFINE new == [id |-> last.import + 1, hash |-> f.hash,
                     machine |-> f.machine, no |-> f.no, date |-> f.date,
                     rolledBack |-> FALSE]
  <2>2. imports' = imports \cup {new} /\ SettlementRules(f)
    BY <2>1 DEF ImportSettlement
  <2>3. Active(imports') = Active(imports) \cup {new}
    BY <2>2 DEF Active
  <2>4. /\ new.hash = f.hash /\ new.machine = f.machine
        /\ new.no = f.no /\ new.date = f.date
    OBVIOUS
  <2>5. f.no \in Nat /\ f.date \in Nat
        /\ \A i \in imports : i.no \in Nat /\ i.date \in Nat
    BY FilesAssumption DEF TypeOK, ImportRow
  <2>6. \A i \in Active(imports) : i \in imports
    BY DEF Active
  <2> HIDE DEF new
  <2>7. \A i, j \in imports' : i.machine = j.machine
    BY <2>2, <2>4 DEF SettlementRules, SettlementsFormOneAxis
  <2>8. ASSUME NEW i \in Active(imports'), NEW j \in Active(imports'), i # j
        PROVE  /\ i.no # j.no /\ i.hash # j.hash
               /\ i.no < j.no => i.date <= j.date
    BY <2>2, <2>3, <2>4, <2>5, <2>6, <2>8
    DEF SettlementRules, SettlementsFormOneAxis
  <2> QED
    BY <2>7, <2>8 DEF SettlementsFormOneAxis
<1>3. CASE \E i \in imports : RollbackImport(i)
  <2>1. PICK r \in imports : RollbackImport(r)
    BY <1>3
  <2>2. imports' = {[i EXCEPT !.rolledBack = @ \/ i.id = r.id]
                       : i \in imports}
    BY <2>1 DEF RollbackImport
  <2>3. ASSUME NEW i \in imports'
        PROVE  \E k \in imports : /\ i.machine = k.machine
                                  /\ ~i.rolledBack => i = k
    <3>1. PICK k \in imports : i = [k EXCEPT !.rolledBack = @ \/ k.id = r.id]
      BY <2>2
    <3>2. k \in ImportRow
      BY DEF TypeOK
    <3>3. i.machine = k.machine /\ (~i.rolledBack => i = k)
      BY <3>1, <3>2 DEF ImportRow
    <3> QED
      BY <3>3
  <2>4. \A i \in Active(imports') : i \in Active(imports)
    BY <2>3 DEF Active
  <2> QED
    BY <2>3, <2>4 DEF SettlementsFormOneAxis, Active
<1> QED
  BY <1>1, <1>2, <1>3, ImportsChange

(* SPEC-STK-CNT-D4, for every set of files the register may write: however  *)
(* they are imported, rolled back and imported again, the active ones have  *)
(* one register, one number and one file each, and dates in the order of    *)
(* their numbers (check_settlement_rules).                                  *)
THEOREM AxisIsKept == Spec => []SettlementsFormOneAxis
<1>1. Init => SettlementsFormOneAxis
  BY DEF Init, SettlementsFormOneAxis, Active
<1> QED
  BY <1>1, AxisStep, TypeCorrect, PTL DEF Spec

-----------------------------------------------------------------------------
(* The copy of the stock. *)

(* A recomputation leaves the copy derived when no other product's records  *)
(* derive something new and the products it starts from hold the old copy.  *)
LEMMA CopyAfterRecompute ==
    ASSUME NEW table, NEW P, Recompute(table, P), CopyIsDerived,
           \A p \in DOMAIN table : {"stock", "range"} \subseteq DOMAIN table[p],
           \A p \in DOMAIN table : p \notin P =>
              /\ p \in DOMAIN products
              /\ table[p].stock = products[p].stock
              /\ table[p].range = products[p].range
              /\ Derive(Ledger(p))' = Derive(Ledger(p))
    PROVE  CopyIsDerived'
<1> SUFFICES ASSUME NEW p \in DOMAIN products'
             PROVE  /\ products'[p].stock = Derive(Ledger(p))'.stock
                    /\ products'[p].range = Derive(Ledger(p))'.range
  BY DEF CopyIsDerived
<1>1. p \in DOMAIN table
  BY RecomputeKeeps
<1>2. CASE p \notin P
  <2>1. products'[p] = table[p]
    BY <1>1, <1>2, RecomputeKeeps
  <2> QED
    BY <1>1, <1>2, <2>1 DEF CopyIsDerived
<1>3. CASE p \in P
  <2> DEFINE derived == Derive(LedgerIn(p, counts', movements', imports',
                                        sales'))
  <2>1. products'[p] = [table[p] EXCEPT !.stock = derived.stock,
                                        !.range = derived.range]
    <3>1. Recompute(table, P) /\ p \in P /\ p \in DOMAIN table
      BY <1>1, <1>3
    <3> QED
      BY ONLY <3>1, RecomputeWrites
  <2>2. products'[p].stock = derived.stock /\ products'[p].range = derived.range
    <3> HIDE DEF derived
    <3> QED
      BY <1>1, <2>1
  <2> QED
    BY <2>2 DEF Ledger
<1> QED
  BY <1>2, <1>3

(* The rows of products have the fields of the copy.                       *)
LEMMA ProductFields ==
    ASSUME TypeOK, NEW p \in DOMAIN products
    PROVE  {"jan", "sync", "stock", "range"} \subseteq DOMAIN products[p]
<1>1. products[p] \in ProductRow
  BY DEF TypeOK
<1> QED
  BY <1>1 DEF ProductRow

(* A product's ledger reads only its own counts and movements, and the      *)
(* imports and their sales.                                                *)
LEMMA SameLedger ==
    ASSUME NEW p, CountsOf(p, counts') = CountsOf(p, counts),
           MovementsOf(p, movements') = MovementsOf(p, movements),
           imports' = imports, sales' = sales
    PROVE  Derive(Ledger(p))' = Derive(Ledger(p))
  BY DEF Ledger, LedgerIn

(* A product without counts derives the same while its movements do not     *)
(* change.                                                                 *)
LEMMA SameWithoutCounts ==
    ASSUME NEW p, counts' = counts, CountsOf(p, counts) = {},
           MovementsOf(p, movements') = MovementsOf(p, movements)
    PROVE  Derive(Ledger(p))' = Derive(Ledger(p))
<1>1. /\ Ledger(p)'.counts = {} /\ Ledger(p).counts = {}
      /\ Ledger(p)'.movements = Ledger(p).movements
  BY DEF Ledger, LedgerIn
<1>2. \A one, other :
         one.counts = {} /\ other.counts = {} /\ one.movements = other.movements
            => Derive(one) = Derive(other)
  BY DeriveWithoutCounts
<1> QED
  BY <1>1, <1>2

LEMMA OperationCopies ==
    ASSUME TypeOK, CopyIsDerived, NEW op \in Operation, RecordOperation(op)
    PROVE  CopyIsDerived'
<1> DEFINE P == {op.lines[k].product : k \in DOMAIN op.lines}
<1>1. Recompute(products, P)
  BY DEF RecordOperation
<1>2. \A m \in Written(op, Len(op.lines)) : m.product \in P
  <2>1. DOMAIN op.lines = 1..Len(op.lines)
    BY FilesAssumption
  <2> QED
    BY <2>1 DEF Written
<1>3. ASSUME NEW p \in DOMAIN products, p \notin P
      PROVE  Derive(Ledger(p))' = Derive(Ledger(p))
  <2> HIDE DEF P
  <2>1. movements' = movements \cup Written(op, Len(op.lines))
        /\ counts' = counts /\ imports' = imports /\ sales' = sales
    BY DEF RecordOperation
  <2>2. MovementsOf(p, movements') = MovementsOf(p, movements)
    BY <1>2, <1>3, <2>1 DEF MovementsOf
  <2> QED
    BY <2>1, <2>2, SameLedger
<1> HIDE DEF P
<1> QED
  BY <1>1, <1>3, ProductFields, CopyAfterRecompute

LEMMA CountCopies ==
    ASSUME TypeOK, CopyIsDerived, NEW p \in DOMAIN products, NEW value,
           NEW fresh, NEW date, SaveCount(p, value, fresh, date)
    PROVE  CopyIsDerived'
<1>1. Recompute(products, {p}) /\ imports' = imports /\ sales' = sales
      /\ movements' = movements
      /\ counts' = counts \cup {NewCount(p, value, fresh, date)}
  BY DEF SaveCount
<1>2. ASSUME NEW q \in DOMAIN products, q \notin {p}
      PROVE  Derive(Ledger(q))' = Derive(Ledger(q))
  <2>1. NewCount(p, value, fresh, date).product = p
    BY DEF NewCount
  <2>2. CountsOf(q, counts') = CountsOf(q, counts)
    BY <1>1, <1>2, <2>1 DEF CountsOf
  <2>3. MovementsOf(q, movements') = MovementsOf(q, movements)
    BY <1>1
  <2> QED
    BY <1>1, <2>2, <2>3, SameLedger
<1> QED
  BY <1>1, <1>2, ProductFields, CopyAfterRecompute

LEMMA LinkCopies ==
    ASSUME TypeOK, CopyIsDerived, NEW p \in DOMAIN products,
           StartLinking(p) \/ StopLinking(p)
    PROVE  CopyIsDerived'
<1>1. PICK on \in BOOLEAN : Recompute([products EXCEPT ![p].sync = on], {p})
  BY DEF StartLinking, StopLinking
<1> DEFINE table == [products EXCEPT ![p].sync = on]
<1>2. UNCHANGED <<counts, movements, imports, sales>>
  BY DEF StartLinking, StopLinking
<1>3. ASSUME NEW q \in DOMAIN table
      PROVE  {"stock", "range"} \subseteq DOMAIN table[q]
  <2>1. CASE q = p
    BY <2>1, ProductFields
  <2>2. CASE q # p
    BY <2>2, ProductFields
  <2> QED
    BY <2>1, <2>2
<1>4. ASSUME NEW q \in DOMAIN table, q \notin {p}
      PROVE  /\ q \in DOMAIN products /\ table[q] = products[q]
             /\ Derive(Ledger(q))' = Derive(Ledger(q))
  <2>1. q \in DOMAIN products /\ table[q] = products[q]
    BY <1>4
  <2>2. Derive(Ledger(q))' = Derive(Ledger(q))
    BY <1>2, SameLedger
  <2> QED
    BY <2>1, <2>2
<1>5. Recompute(table, {p})
  BY <1>1
<1> HIDE DEF table
<1> QED
  BY <1>3, <1>4, <1>5, CopyAfterRecompute

LEMMA CreateCopies ==
    ASSUME TypeOK, CopyIsDerived, NEW p, NEW jan, NEW shared, NEW sync,
           NEW initial, CreateProduct(p, jan, shared, sync, initial)
    PROVE  CopyIsDerived'
<1> DEFINE relinked == {q \in Candidates(jan) :
                          shared /\ jan # NoJan /\ products[q].sync}
           table == [q \in DOMAIN products \cup {p} |->
                      IF q = p THEN [jan |-> jan, sync |-> sync,
                                     stock |-> initial, range |-> NoRange]
                      ELSE IF q \in relinked
                           THEN [products[q] EXCEPT !.sync = FALSE]
                           ELSE products[q]]
<1>1. Recompute(table, {p} \cup relinked)
  BY DEF CreateProduct
<1>2. ASSUME NEW q \in DOMAIN table
      PROVE  {"stock", "range"} \subseteq DOMAIN table[q]
  <2>1. CASE q = p
    BY <2>1
  <2>2. CASE q # p
    <3>1. table[q] = products[q]
          \/ table[q] = [products[q] EXCEPT !.sync = FALSE]
      BY <2>2
    <3>2. q \in DOMAIN products
      BY <2>2
    <3> HIDE DEF table
    <3> QED
      BY <3>1, <3>2, ProductFields
  <2> QED
    BY <2>1, <2>2
<1>3. ASSUME NEW q \in DOMAIN table, q \notin {p} \cup relinked
      PROVE  /\ q \in DOMAIN products /\ table[q] = products[q]
             /\ Derive(Ledger(q))' = Derive(Ledger(q))
  <2>1. q # p /\ q \in DOMAIN products /\ table[q] = products[q]
    BY <1>3
  <2>2. UNCHANGED <<counts, imports, sales>>
    BY DEF CreateProduct
  <2>3. \A m \in movements' : m \in movements \/ m.product = p
    BY DEF CreateProduct
  <2>4. movements \subseteq movements'
    BY DEF CreateProduct
  <2>5. MovementsOf(q, movements') = MovementsOf(q, movements)
    BY <2>1, <2>3, <2>4 DEF MovementsOf
  <2>6. Derive(Ledger(q))' = Derive(Ledger(q))
    BY <2>2, <2>5, SameLedger
  <2> QED
    BY <2>1, <2>6
<1> HIDE DEF table, relinked
<1> QED
  BY <1>1, <1>2, <1>3, CopyAfterRecompute

(* An import concerns the products with counts and those it has rows of;    *)
(* the others have no counts and keep their movements.                      *)
LEMMA ImportCopies ==
    ASSUME TypeOK, CopyIsDerived, NEW f, ImportSettlement(f)
    PROVE  CopyIsDerived'
<1> DEFINE id == last.import + 1
           P == SettlementTargets(last'.import, sales', movements')
<1>1. Recompute(products, P) /\ counts' = counts /\ last'.import = id
      /\ movements' = movements \cup MovementRows(f, id)
  BY DEF ImportSettlement, TypeOK
<1>2. ASSUME NEW p \in DOMAIN products, p \notin P
      PROVE  Derive(Ledger(p))' = Derive(Ledger(p))
  <2>1. CountsOf(p, counts) = {}
    BY <1>2 DEF SettlementTargets, CountsOf
  <2>2. \A m \in MovementRows(f, id) : m.import = id
    BY DEF MovementRows
  <2>3. \A m \in MovementRows(f, id) : m.product \in P
    BY <1>1, <2>2 DEF SettlementTargets
  <2> HIDE DEF P
  <2>4. MovementsOf(p, movements') = MovementsOf(p, movements)
    BY <1>1, <1>2, <2>3 DEF MovementsOf
  <2> QED
    BY <1>1, <2>1, <2>4, SameWithoutCounts
<1> HIDE DEF P
<1> QED
  BY <1>1, <1>2, ProductFields, CopyAfterRecompute

LEMMA RollbackCopies ==
    ASSUME TypeOK, CopyIsDerived, NEW i, RollbackImport(i)
    PROVE  CopyIsDerived'
<1> DEFINE P == SettlementTargets(i.id, sales, movements)
           voided(m) == [m EXCEPT !.voided = @ \/ m.import = i.id]
<1>1. Recompute(products, P) /\ counts' = counts
      /\ movements' = {voided(m) : m \in movements}
  BY DEF RollbackImport
<1>2. ASSUME NEW m \in movements
      PROVE  /\ voided(m).product = m.product
             /\ m.import # i.id => voided(m) = m
  <2>1. m \in MovementRow
    BY DEF TypeOK
  <2> QED
    BY <2>1 DEF MovementRow
<1>3. ASSUME NEW p \in DOMAIN products, p \notin P
      PROVE  Derive(Ledger(p))' = Derive(Ledger(p))
  <2>1. CountsOf(p, counts) = {}
    BY <1>3 DEF SettlementTargets, CountsOf
  <2>2. \A m \in movements : m.product = p => m.import # i.id
    BY <1>3 DEF SettlementTargets
  <2> HIDE DEF P, voided
  <2>3. MovementsOf(p, movements') = MovementsOf(p, movements)
    BY <1>1, <1>2, <2>2 DEF MovementsOf
  <2> QED
    BY <1>1, <2>1, <2>3, SameWithoutCounts
<1> HIDE DEF P
<1> QED
  BY <1>1, <1>3, ProductFields, CopyAfterRecompute

LEMMA ProductsCopy ==
    ASSUME TypeOK, CopyIsDerived, NEW f \in ProductFile,
           NEW sent \in SUBSET DOMAIN f, ImportProducts(f, sent)
    PROVE  CopyIsDerived'
<1> DEFINE table == AfterRows(f, sent)
           P == {f[k].product : k \in RecomputedRows(f, sent)}
           stocked == StockedRows(f, sent)
<1>0. /\ DOMAIN table = DOMAIN products \cup {f[k].product : k \in sent}
      /\ \A k \in sent : table[f[k].product] = WrittenProduct(f[k])
      /\ \A p \in DOMAIN products :
            (~\E k \in sent : p = f[k].product) => table[p] = products[p]
  BY AfterRowsAt
<1>1. Recompute(table, P)
  BY DEF ImportProducts
<1>2. ASSUME NEW q \in DOMAIN table
      PROVE  /\ {"stock", "range"} \subseteq DOMAIN table[q]
             /\ q \notin P => /\ q \in DOMAIN products
                             /\ table[q].stock = products[q].stock
                             /\ table[q].range = products[q].range
  <2>1. CASE \E k \in sent : q = f[k].product
    <3>1. PICK k \in sent : q = f[k].product
      BY <2>1
    <3>2. table[q] = WrittenProduct(f[k]) /\ k \in DOMAIN f
      BY <1>0, <3>1
    <3>3. IsNew(f[k]) => q \in P
      BY <3>1 DEF RecomputedRows
    <3>4. ~IsNew(f[k]) => q \in DOMAIN products
      BY <3>1 DEF IsNew
    <3> HIDE DEF table, P
    <3> QED
      BY <3>1, <3>2, <3>3, <3>4, WrittenProductTyped
  <2>2. CASE ~\E k \in sent : q = f[k].product
    <3> HIDE DEF table, P
    <3>1. q \in DOMAIN products /\ table[q] = products[q]
      BY <1>0, <2>2
    <3> QED
      BY <3>1, ProductFields
  <2> QED
    BY <2>1, <2>2
<1>3. ASSUME NEW q \in DOMAIN products, q \notin P
      PROVE  Derive(Ledger(q))' = Derive(Ledger(q))
  <2>1. UNCHANGED <<counts, imports, sales>> /\ movements \subseteq movements'
    BY DEF ImportProducts
  <2>2. ASSUME NEW m \in movements' PROVE m \in movements \/ m.product \in P
    <3>1. CASE m \notin movements
      <4>1. PICK k \in stocked : m.product = f[k].product
        BY <3>1 DEF ImportProducts
      <4>2. k \in RecomputedRows(f, sent)
        BY DEF StockedRows, RecomputedRows
      <4> QED
        BY <4>1, <4>2
    <3> QED
      BY <3>1
  <2> HIDE DEF P
  <2>3. MovementsOf(q, movements') = MovementsOf(q, movements)
    BY <1>3, <2>1, <2>2 DEF MovementsOf
  <2> QED
    BY <2>1, <2>3, SameLedger
<1> HIDE DEF table, P
<1> QED
  BY <1>1, <1>2, <1>3, CopyAfterRecompute

LEMMA CopyInit == Init => CopyIsDerived
<1> SUFFICES ASSUME Init PROVE CopyIsDerived
  OBVIOUS
<1>1. ASSUME NEW p \in DOMAIN products
      PROVE  Derive(Ledger(p)) = [stock |-> 0, range |-> NoRange]
  <2>1. Ledger(p).counts = {} /\ Ledger(p).movements = {}
    BY DEF Init, Ledger, LedgerIn, CountsOf, MovementsOf
  <2> QED
    BY <2>1, TotalOfNone DEF Derive
<1> QED
  BY <1>1 DEF Init, CopyIsDerived

LEMMA CopyStep == TypeOK /\ CopyIsDerived /\ [Next]_vars => CopyIsDerived'
<1> SUFFICES ASSUME TypeOK, CopyIsDerived, [Next]_vars PROVE CopyIsDerived'
  OBVIOUS
<1>1. CASE NextDay \/ SetClockBack \/ UNCHANGED vars
  <2>1. UNCHANGED <<products, counts, movements, imports, sales>>
    BY <1>1 DEF NextDay, SetClockBack, vars, tables
  <2> QED
    BY <2>1, SameLedger DEF CopyIsDerived
<1>2. CASE \E op \in Operation : RecordOperation(op)
  BY <1>2, OperationCopies
<1>3. CASE \E f \in Z004 : ImportSettlement(f)
  BY <1>3, ImportCopies
<1>4. CASE \E i \in imports : RollbackImport(i)
  BY <1>4, RollbackCopies
<1>5. CASE SaveSomeCount
  BY <1>5, CountCopies DEF SaveSomeCount
<1>6. CASE CreateSomeProduct
  BY <1>6, CreateCopies DEF CreateSomeProduct
<1>7. CASE \E p \in DOMAIN products : StartLinking(p) \/ StopLinking(p)
  BY <1>7, LinkCopies
<1>8. CASE ImportSomeProducts
  BY <1>8, ProductsCopy DEF ImportSomeProducts
<1> QED
  BY <1>1, <1>2, <1>3, <1>4, <1>5, <1>6, <1>7, <1>8 DEF Next

(* SPEC-STK-CNT-D2: after every command the copy of each product is what    *)
(* its records derive, for every shop and every set of files.  The products *)
(* a settlement neither has rows of nor finds counts of derive the same     *)
(* stock as before, which is why recompute_for_settlement_change may skip   *)
(* them.                                                                   *)
THEOREM CopyStaysDerived == Spec => []CopyIsDerived
  BY CopyInit, CopyStep, TypeCorrect, PTL DEF Spec

-----------------------------------------------------------------------------
(* The barcodes of linked products. *)

(* A recomputation keeps barcodes and links.                               *)
LEMMA RecomputeKeepsLinks ==
    ASSUME NEW table, NEW P, Recompute(table, P),
           \A p \in DOMAIN table : {"jan", "sync"} \subseteq DOMAIN table[p]
    PROVE  /\ DOMAIN products' = DOMAIN table
           /\ \A p \in DOMAIN table : /\ products'[p].jan = table[p].jan
                                      /\ products'[p].sync = table[p].sync
  BY DEF Recompute

(* Of two products with a barcode after a bulk import, the row written last *)
(* was held against the other as it is written.                             *)
LEMMA ProductsUnshared ==
    ASSUME TypeOK, LinkedJanIsUnshared, NEW f \in ProductFile,
           NEW sent \in SUBSET DOMAIN f, ImportProducts(f, sent)
    PROVE  LinkedJanIsUnshared'
<1> DEFINE table == AfterRows(f, sent)
           before(k) == SentBefore(f, sent, k)
           upTo(k) == before(k) \cup {k}
           at(k) == AfterRows(f, upTo(k))
<1>1. /\ Recompute(table, {f[k].product : k \in RecomputedRows(f, sent)})
      /\ \A k \in sent : RowAllowed(f, before(k), k)
  BY DEF ImportProducts
<1>2. /\ DOMAIN table = DOMAIN products \cup {f[k].product : k \in sent}
      /\ \A k \in sent : table[f[k].product] = WrittenProduct(f[k])
      /\ \A p \in DOMAIN products :
            (~\E k \in sent : p = f[k].product) => table[p] = products[p]
  BY AfterRowsAt
<1>3. ASSUME NEW k \in sent
      PROVE  /\ upTo(k) \in SUBSET DOMAIN f /\ upTo(k) \subseteq sent
             /\ ~SharesLinkedJan(at(k), f[k].product)
             /\ DOMAIN at(k) = DOMAIN products \cup {f[j].product : j \in upTo(k)}
             /\ at(k)[f[k].product] = table[f[k].product]
             /\ \A j \in before(k) : at(k)[f[j].product] = table[f[j].product]
             /\ \A p \in DOMAIN products :
                   (~\E j \in sent : p = f[j].product) => at(k)[p] = table[p]
  <2>1. upTo(k) \subseteq sent
    BY DEF SentBefore
  <2>2. upTo(k) \in SUBSET DOMAIN f
    BY <2>1
  <2>3. ~SharesLinkedJan(at(k), f[k].product)
    BY <1>1 DEF RowAllowed
  <2>4. /\ DOMAIN at(k) = DOMAIN products \cup {f[j].product : j \in upTo(k)}
        /\ \A j \in upTo(k) : at(k)[f[j].product] = WrittenProduct(f[j])
        /\ \A p \in DOMAIN products :
              (~\E j \in upTo(k) : p = f[j].product) => at(k)[p] = products[p]
    BY <2>2, AfterRowsAt
  <2> HIDE DEF table, at
  <2> QED
    BY <1>2, <2>1, <2>2, <2>3, <2>4
<1>4. ASSUME NEW j \in sent, NEW k \in sent, j # k
      PROVE  j \in before(k) \/ k \in before(j)
  <2>1. j \in Nat /\ k \in Nat
    BY ProductRows
  <2> QED
    BY <1>4, <2>1 DEF SentBefore, IsNew
<1>5. ASSUME NEW k \in sent, NEW q \in DOMAIN table,
             q \in DOMAIN at(k), at(k)[q] = table[q],
             Sharing(table, f[k].product, q) \/ Sharing(table, q, f[k].product)
      PROVE  ~table[f[k].product].sync /\ ~table[q].sync
  <2>1. at(k)[f[k].product] = table[f[k].product]
        /\ ~SharesLinkedJan(at(k), f[k].product)
    BY <1>3
  <2> HIDE DEF table, at
  <2> QED
    BY <1>5, <2>1 DEF Sharing, SharesLinkedJan
<1>6. ASSUME NEW a \in DOMAIN table, NEW b \in DOMAIN table,
             Sharing(table, a, b)
      PROVE  ~table[a].sync
  <2>1. CASE \E j, k \in sent : a = f[j].product /\ b = f[k].product
    <3>1. PICK j \in sent, k \in sent : a = f[j].product /\ b = f[k].product
      BY <2>1
    <3>2. j # k
      BY <1>6, <3>1 DEF Sharing
    <3>3. CASE j \in before(k)
      <4>1. a \in DOMAIN at(k) /\ at(k)[a] = table[a]
        <5> HIDE DEF at, table
        <5> QED
          BY <1>3, <3>1, <3>3
      <4> HIDE DEF at, table
      <4> QED
        BY <1>5, <1>6, <3>1, <4>1
    <3>4. CASE k \in before(j)
      <4>1. b \in DOMAIN at(j) /\ at(j)[b] = table[b]
        <5> HIDE DEF at, table
        <5> QED
          BY <1>3, <3>1, <3>4
      <4> HIDE DEF at, table
      <4> QED
        BY <1>5, <1>6, <3>1, <4>1
    <3> QED
      BY <1>4, <3>2, <3>3, <3>4
  <2>2. ASSUME NEW k \in sent, NEW p \in DOMAIN products,
               ~\E j \in sent : p = f[j].product
        PROVE  p \in DOMAIN at(k) /\ at(k)[p] = table[p]
    <3> HIDE DEF at, table
    <3> QED
      BY <1>3, <2>2
  <2>3. CASE (\E k \in sent : a = f[k].product) /\ ~\E k \in sent : b = f[k].product
    <3>1. PICK k \in sent : a = f[k].product
      BY <2>3
    <3>2. b \in DOMAIN products
      BY <1>2, <2>3
    <3>3. b \in DOMAIN at(k) /\ at(k)[b] = table[b]
      BY <2>2, <2>3, <3>2
    <3> HIDE DEF at, table
    <3> QED
      BY <1>5, <1>6, <3>1, <3>3
  <2>4. CASE (\E k \in sent : b = f[k].product) /\ ~\E k \in sent : a = f[k].product
    <3>1. PICK k \in sent : b = f[k].product
      BY <2>4
    <3>2. a \in DOMAIN products
      BY <1>2, <2>4
    <3>3. a \in DOMAIN at(k) /\ at(k)[a] = table[a]
      BY <2>2, <2>4, <3>2
    <3> HIDE DEF at, table
    <3> QED
      BY <1>5, <1>6, <3>1, <3>3
  <2>5. CASE ~(\E k \in sent : a = f[k].product)
             /\ ~\E k \in sent : b = f[k].product
    <3> HIDE DEF table
    <3>1. /\ a \in DOMAIN products /\ b \in DOMAIN products
          /\ table[a] = products[a] /\ table[b] = products[b]
      BY <1>2, <2>5
    <3> QED
      BY <1>6, <3>1 DEF Sharing, LinkedJanIsUnshared
  <2> QED
    BY <2>1, <2>3, <2>4, <2>5
<1>7. \A p \in DOMAIN table : {"jan", "sync"} \subseteq DOMAIN table[p]
  <2>1. ASSUME NEW p \in DOMAIN table
        PROVE  {"jan", "sync"} \subseteq DOMAIN table[p]
    <3> HIDE DEF table
    <3>1. CASE \E k \in sent : p = f[k].product
      <4>1. PICK k \in sent : p = f[k].product
        BY <3>1
      <4>2. table[p] = WrittenProduct(f[k]) /\ k \in DOMAIN f
        BY <1>2, <4>1
      <4> QED
        BY <4>2, WrittenProductTyped
    <3>2. CASE ~\E k \in sent : p = f[k].product
      <4>1. p \in DOMAIN products /\ table[p] = products[p]
        BY <1>2, <3>2
      <4> QED
        BY <4>1, ProductFields
    <3> QED
      BY <3>1, <3>2
  <2> QED
    BY <2>1
<1> HIDE DEF table
<1> QED
  BY <1>1, <1>6, <1>7, RecomputeKeepsLinks DEF LinkedJanIsUnshared, Sharing

(* A linked product shares its barcode with no other, in every shop:        *)
(* shared_jan_conflict is asked of each registration and of each start of a *)
(* link, and a registration under a shared barcode takes the others' links. *)
THEOREM LinkedStaysUnshared == Spec => []LinkedJanIsUnshared
<1>1. Init => LinkedJanIsUnshared
  BY ShopAssumption DEF Init, LinkedJanIsUnshared, Sharing
<1>2. TypeOK /\ LinkedJanIsUnshared /\ [Next]_vars => LinkedJanIsUnshared'
  <2> SUFFICES ASSUME TypeOK, LinkedJanIsUnshared, [Next]_vars
               PROVE  LinkedJanIsUnshared'
    OBVIOUS
  <2>1. ASSUME NEW P, Recompute(products, P)
        PROVE  LinkedJanIsUnshared'
    BY <2>1, ProductFields, RecomputeKeepsLinks
    DEF LinkedJanIsUnshared, Sharing
  <2>2. CASE NextDay \/ SetClockBack \/ UNCHANGED vars
    BY <2>2 DEF NextDay, SetClockBack, vars, tables, LinkedJanIsUnshared,
       Sharing
  <2>3. CASE \/ \E op \in Operation : RecordOperation(op)
             \/ \E f \in Z004 : ImportSettlement(f)
             \/ \E i \in imports : RollbackImport(i)
             \/ SaveSomeCount
    <3>1. \E P : Recompute(products, P)
      BY <2>3 DEF RecordOperation, ImportSettlement, RollbackImport,
         SaveSomeCount, SaveCount
    <3> QED
      BY <3>1, <2>1
  <2>4. CASE CreateSomeProduct
    <3>1. PICK p, jan, shared, sync, initial :
              CreateProduct(p, jan, shared, sync, initial)
      BY <2>4 DEF CreateSomeProduct
    <3> DEFINE relinked == {q \in Candidates(jan) :
                              shared /\ jan # NoJan /\ products[q].sync}
               table == [q \in DOMAIN products \cup {p} |->
                          IF q = p THEN [jan |-> jan, sync |-> sync,
                                         stock |-> initial, range |-> NoRange]
                          ELSE IF q \in relinked
                               THEN [products[q] EXCEPT !.sync = FALSE]
                               ELSE products[q]]
    <3>2. /\ p \notin DOMAIN products /\ ~SharesLinkedJan(table, p)
          /\ Recompute(table, {p} \cup relinked)
      BY <3>1 DEF CreateProduct
    <3>3. ASSUME NEW q \in DOMAIN products
          PROVE  /\ q \in DOMAIN table /\ q # p
                 /\ {"jan", "sync"} \subseteq DOMAIN table[q]
                 /\ table[q].jan = products[q].jan
                 /\ table[q].sync => products[q].sync
      <4>1. products[q] \in ProductRow /\ q # p
        BY <3>2 DEF TypeOK
      <4> QED
        BY <4>1 DEF ProductRow
    <3>4. DOMAIN table = DOMAIN products \cup {p}
          /\ {"jan", "sync"} \subseteq DOMAIN table[p]
      OBVIOUS
    <3> HIDE DEF table, relinked
    <3>5. ASSUME NEW a \in DOMAIN table, NEW b \in DOMAIN table,
                 Sharing(table, a, b)
          PROVE  ~table[a].sync
      BY <3>2, <3>3, <3>4, <3>5 DEF Sharing, SharesLinkedJan,
         LinkedJanIsUnshared
    <3> QED
      BY <3>2, <3>3, <3>4, <3>5, RecomputeKeepsLinks
      DEF LinkedJanIsUnshared, Sharing
  <2>5. CASE \E p \in DOMAIN products : StartLinking(p)
    <3>1. PICK p \in DOMAIN products : StartLinking(p)
      BY <2>5
    <3> DEFINE table == [products EXCEPT ![p].sync = TRUE]
    <3>2. ~SharesLinkedJan(table, p) /\ Recompute(table, {p})
      BY <3>1 DEF StartLinking
    <3>3. /\ DOMAIN table = DOMAIN products
          /\ \A q \in DOMAIN products :
                /\ {"jan", "sync"} \subseteq DOMAIN table[q]
                /\ table[q].jan = products[q].jan
                /\ q # p => table[q].sync = products[q].sync
      <4>1. \A q \in DOMAIN products : products[q] \in ProductRow
        BY DEF TypeOK
      <4>2. ASSUME NEW q \in DOMAIN products, q # p
            PROVE  table[q] = products[q]
        BY <4>2
      <4>3. table[p] = [products[p] EXCEPT !.sync = TRUE]
        OBVIOUS
      <4>4. /\ table[p].jan = products[p].jan /\ table[p].sync = TRUE
            /\ {"jan", "sync"} \subseteq DOMAIN table[p]
        <5> HIDE DEF table
        <5> QED
          BY <4>1, <4>3 DEF ProductRow
      <4>5. DOMAIN table = DOMAIN products
        OBVIOUS
      <4> HIDE DEF table
      <4> QED
        BY <4>2, <4>4, <4>5, ProductFields
    <3> HIDE DEF table
    <3>4. ASSUME NEW a \in DOMAIN table, NEW b \in DOMAIN table,
                 Sharing(table, a, b)
          PROVE  ~table[a].sync
      BY <3>2, <3>3, <3>4 DEF Sharing, SharesLinkedJan, LinkedJanIsUnshared
    <3> QED
      BY <3>2, <3>3, <3>4, RecomputeKeepsLinks
      DEF LinkedJanIsUnshared, Sharing
  <2>6. CASE \E p \in DOMAIN products : StopLinking(p)
    <3>1. PICK p \in DOMAIN products : StopLinking(p)
      BY <2>6
    <3> DEFINE table == [products EXCEPT ![p].sync = FALSE]
    <3>2. Recompute(table, {p})
      BY <3>1 DEF StopLinking
    <3>3. /\ DOMAIN table = DOMAIN products
          /\ \A q \in DOMAIN products :
                /\ {"jan", "sync"} \subseteq DOMAIN table[q]
                /\ table[q].jan = products[q].jan
                /\ table[q].sync => products[q].sync
      <4>1. \A q \in DOMAIN products : products[q] \in ProductRow
        BY DEF TypeOK
      <4>2. ASSUME NEW q \in DOMAIN products, q # p
            PROVE  table[q] = products[q]
        BY <4>2
      <4>3. table[p] = [products[p] EXCEPT !.sync = FALSE]
        OBVIOUS
      <4>4. /\ table[p].jan = products[p].jan /\ table[p].sync = FALSE
            /\ {"jan", "sync"} \subseteq DOMAIN table[p]
        <5> HIDE DEF table
        <5> QED
          BY <4>1, <4>3 DEF ProductRow
      <4>5. DOMAIN table = DOMAIN products
        OBVIOUS
      <4> HIDE DEF table
      <4> QED
        BY <4>2, <4>4, <4>5, ProductFields
    <3> HIDE DEF table
    <3> QED
      BY <3>2, <3>3, RecomputeKeepsLinks DEF LinkedJanIsUnshared, Sharing
  <2>7. CASE ImportSomeProducts
    BY <2>7, ProductsUnshared DEF ImportSomeProducts
  <2> QED
    BY <2>2, <2>3, <2>4, <2>5, <2>6, <2>7 DEF Next
<1> QED
  BY <1>1, <1>2, TypeCorrect, PTL DEF Spec
-----------------------------------------------------------------------------
(* The rows of an import. *)

(* What the commands keep of the tables besides the types: finite tables    *)
(* with ids given out before; a movement is of an active or rolled back     *)
(* import or of none; the rows of an import follow it.                      *)
ImportedMovements(id, p) == {m \in movements : m.import = id /\ m.product = p}

LinkedSales(id, p) == {s \in sales : s.import = id /\ s.linked /\ s.product = p}

RowsAreFinite ==
    IsFiniteSet(counts) /\ IsFiniteSet(movements) /\ IsFiniteSet(imports)
        /\ IsFiniteSet(sales)

IdsAreGivenOut ==
    /\ \A c \in counts : /\ c.id <= last.count
                         /\ c.seenMovement <= last.movement
                         /\ c.seenImport <= last.import
    /\ \A m \in movements : m.id <= last.movement
    /\ \A i \in imports : i.id <= last.import
    /\ \A s \in sales : s.import <= last.import

MovementsBelong ==
    \A m \in movements :
        IF m.import = 0 THEN ~m.voided /\ m.settlement = NoSettlement
                        ELSE \E i \in imports : i.id = m.import

RowsFollowImports ==
    \A i \in imports :
        /\ \A s \in sales : s.import = i.id => s.voided = i.rolledBack
        /\ \A m \in movements : m.import = i.id =>
              m.voided = i.rolledBack /\ m.settlement = i.no /\ m.date = i.date

SumsAgree ==
    \A i \in imports, p \in Product :
        Total(ImportedMovements(i.id, p)) = -Total(LinkedSales(i.id, p))

RecordsInvariant ==
    /\ RowsAreFinite
    /\ IdsAreGivenOut
    /\ MovementsBelong
    /\ RowsFollowImports
    /\ SumsAgree

(* The rows of an import are rows that can be summed.                       *)
LEMMA RowsSummable ==
    ASSUME TypeOK, RowsAreFinite
    PROVE  Summable(movements) /\ Summable(sales)
  BY DEF TypeOK, RowsAreFinite, Summable, MovementRow, SaleRow

(* Movements of no import that are added leave the imports' rows alone.     *)
LEMMA AddedMovementsAgree ==
    ASSUME TypeOK, RecordsInvariant, NEW added,
           movements' = movements \cup added, IsFiniteSet(added),
           UNCHANGED <<counts, imports, sales>>,
           last'.count = last.count, last'.import = last.import,
           last'.movement \in Nat, last.movement <= last'.movement,
           \A m \in added : /\ m.import = 0 /\ ~m.voided
                            /\ m.settlement = NoSettlement
                            /\ m.id <= last'.movement
    PROVE  RecordsInvariant'
<1>1. RowsAreFinite'
  BY FS_Union DEF RecordsInvariant, RowsAreFinite
<1>2. IdsAreGivenOut'
  <2>1. last.movement \in Nat
    BY DEF TypeOK
  <2>2. \A m \in movements : m.id \in Nat /\ m.id <= last.movement
    BY DEF TypeOK, MovementRow, RecordsInvariant, IdsAreGivenOut
  <2>3. \A m \in movements' : m.id <= last'.movement
    BY <2>1, <2>2
  <2>4. \A c \in counts : c.seenMovement \in Nat /\ c.seenMovement <= last.movement
    BY DEF TypeOK, CountRow, RecordsInvariant, IdsAreGivenOut
  <2>5. \A c \in counts : c.seenMovement <= last'.movement
    BY <2>1, <2>4
  <2> QED
    BY <2>3, <2>5 DEF RecordsInvariant, IdsAreGivenOut
<1>3. MovementsBelong'
  BY DEF RecordsInvariant, MovementsBelong
<1>4. \A i \in imports : i.id # 0
  BY DEF TypeOK, ImportRow
<1>5. RowsFollowImports'
  BY <1>4 DEF RecordsInvariant, RowsFollowImports
<1>6. ASSUME NEW i \in imports, NEW p \in Product
      PROVE  /\ ImportedMovements(i.id, p)' = ImportedMovements(i.id, p)
             /\ LinkedSales(i.id, p)' = LinkedSales(i.id, p)
  BY <1>4 DEF ImportedMovements, LinkedSales
<1>7. SumsAgree'
  BY <1>6 DEF RecordsInvariant, SumsAgree
<1> QED
  BY <1>1, <1>2, <1>3, <1>5, <1>7 DEF RecordsInvariant

LEMMA OperationAgrees ==
    ASSUME TypeOK, RecordsInvariant, NEW op \in Operation, RecordOperation(op)
    PROVE  RecordsInvariant'
<1> DEFINE n == Len(op.lines)
           row == [k \in 1..n |->
                     [id |-> last.movement + k, product |-> op.lines[k].product,
                      qty |-> op.lines[k].qty, date |-> op.date,
                      initial |-> FALSE, settlement |-> NoSettlement,
                      import |-> 0, voided |-> FALSE]]
<1>1. n \in Nat
  BY FilesAssumption
<1>2. Written(op, n) = {row[k] : k \in 1..n} /\ DOMAIN row = 1..n
  BY DEF Written
<1>3. IsFiniteSet(Written(op, n))
  <2>1. IsFiniteSet(1..n)
    BY <1>1, FS_Interval
  <2> HIDE DEF row
  <2> QED
    BY <1>2, <2>1, ImageIsFinite
<1>4. last.movement \in Nat
      /\ last' = [last EXCEPT !.movement = last.movement + n]
  BY DEF TypeOK, RecordOperation
<1>5. /\ last'.count = last.count /\ last'.import = last.import
      /\ last'.movement = last.movement + n
  BY <1>4 DEF TypeOK
<1>6. ASSUME NEW m \in Written(op, n)
      PROVE  /\ m.import = 0 /\ ~m.voided /\ m.settlement = NoSettlement
             /\ m.id <= last'.movement
  <2>1. PICK k \in 1..n : m = row[k]
    BY <1>2
  <2>2. last.movement + k <= last.movement + n
    BY <1>1, <1>4
  <2> QED
    BY <1>5, <2>1, <2>2
<1>7. movements' = movements \cup Written(op, n)
      /\ UNCHANGED <<counts, imports, sales>>
  BY DEF RecordOperation
<1>8. last'.movement \in Nat /\ last.movement <= last'.movement
  BY <1>1, <1>4, <1>5
<1> HIDE DEF n
<1> QED
  BY <1>3, <1>5, <1>6, <1>7, <1>8, AddedMovementsAgree

LEMMA CreateAgrees ==
    ASSUME TypeOK, RecordsInvariant, NEW p, NEW jan, NEW shared, NEW sync,
           NEW initial \in InitialStock,
           CreateProduct(p, jan, shared, sync, initial)
    PROVE  RecordsInvariant'
<1> DEFINE stocked == {initial} \ {0}
           row == [q \in stocked |->
                     [id |-> last.movement + 1, product |-> p, qty |-> q,
                      date |-> today, initial |-> TRUE,
                      settlement |-> NoSettlement, import |-> 0,
                      voided |-> FALSE]]
           added == {row[q] : q \in stocked}
<1>1. initial \in Nat /\ last.movement \in Nat
  BY ShopAssumption DEF TypeOK
<1>2. /\ movements' = movements \cup added
      /\ last' = [last EXCEPT !.movement =
                    IF initial > 0 THEN last.movement + 1 ELSE last.movement]
      /\ UNCHANGED <<counts, imports, sales>>
  BY DEF CreateProduct
<1>3. /\ last'.count = last.count /\ last'.import = last.import
      /\ last'.movement =
            IF initial > 0 THEN last.movement + 1 ELSE last.movement
  BY <1>2 DEF TypeOK
<1>4. IsFiniteSet(added)
  <2>1. IsFiniteSet(stocked) /\ DOMAIN row = stocked
    BY FS_Singleton, FS_Subset
  <2> HIDE DEF row, stocked
  <2> QED
    BY <2>1, ImageIsFinite
<1>5. ASSUME NEW m \in added
      PROVE  /\ m.import = 0 /\ ~m.voided /\ m.settlement = NoSettlement
             /\ m.id <= last'.movement
  BY <1>1, <1>3
<1>6. last'.movement \in Nat /\ last.movement <= last'.movement
  BY <1>1, <1>3
<1> HIDE DEF added
<1> QED
  BY <1>2, <1>3, <1>4, <1>5, <1>6, AddedMovementsAgree

LEMMA ProductsAgree ==
    ASSUME TypeOK, RecordsInvariant, NEW f \in ProductFile,
           NEW sent \in SUBSET DOMAIN f, ImportProducts(f, sent)
    PROVE  RecordsInvariant'
<1> DEFINE stocked == StockedRows(f, sent)
           row == [k \in stocked |->
                     [id |-> last.movement + Rank(k, stocked),
                      product |-> f[k].product, qty |-> f[k].initial,
                      date |-> today, initial |-> TRUE,
                      settlement |-> NoSettlement, import |-> 0,
                      voided |-> FALSE]]
           added == {row[k] : k \in stocked}
<1>1. Len(f) \in Nat /\ DOMAIN f = 1..Len(f)
  BY ProductRows
<1>2. stocked \in SUBSET Nat /\ IsFiniteSet(stocked)
      /\ Cardinality(stocked) \in Nat
  <2>1. IsFiniteSet(1..Len(f))
    BY <1>1, FS_Interval
  <2>2. stocked \in SUBSET (1..Len(f))
    BY <1>1 DEF StockedRows
  <2> QED
    BY <2>1, <2>2, FS_Subset, FS_CardinalityType
<1>3. /\ movements' = movements \cup added
      /\ last' = [last EXCEPT !.movement = last.movement + Cardinality(stocked)]
      /\ UNCHANGED <<counts, imports, sales>>
  BY DEF ImportProducts
<1>4. /\ last.movement \in Nat
      /\ last'.count = last.count /\ last'.import = last.import
      /\ last'.movement = last.movement + Cardinality(stocked)
  BY <1>3 DEF TypeOK
<1>5. IsFiniteSet(added)
  <2> DOMAIN row = stocked
    OBVIOUS
  <2> HIDE DEF row, stocked
  <2> QED
    BY <1>2, ImageIsFinite
<1>6. ASSUME NEW m \in added
      PROVE  /\ m.import = 0 /\ ~m.voided /\ m.settlement = NoSettlement
             /\ m.id <= last'.movement
  <2>1. PICK k \in stocked : m = row[k]
    OBVIOUS
  <2>2. Rank(k, stocked) \in 1..Cardinality(stocked)
    BY <1>2, RankIsIndex
  <2>3. last.movement + Rank(k, stocked) <= last'.movement
    BY <1>2, <1>4, <2>2
  <2> QED
    BY <2>1, <2>3
<1>7. last'.movement \in Nat /\ last.movement <= last'.movement
  BY <1>2, <1>4
<1> HIDE DEF added, stocked
<1> QED
  BY <1>3, <1>4, <1>5, <1>6, <1>7, AddedMovementsAgree

LEMMA CountAgrees ==
    ASSUME TypeOK, RecordsInvariant, NEW p, NEW value, NEW fresh \in BOOLEAN,
           NEW date, SaveCount(p, value, fresh, date)
    PROVE  RecordsInvariant'
<1> DEFINE new == NewCount(p, value, fresh, date)
<1>1. /\ counts' = counts \cup {new} /\ UNCHANGED <<movements, imports, sales>>
      /\ last' = [last EXCEPT !.count = last.count + 1]
  BY DEF SaveCount
<1>2. /\ last.count \in Nat /\ last.movement \in Nat /\ last.import \in Nat
      /\ last'.count = last.count + 1 /\ last'.movement = last.movement
      /\ last'.import = last.import
  BY <1>1 DEF TypeOK
<1>3. RowsAreFinite'
  BY <1>1, FS_AddElement DEF RecordsInvariant, RowsAreFinite
<1>4. IdsAreGivenOut'
  <2>1. /\ new.id <= last'.count /\ new.seenMovement <= last'.movement
        /\ new.seenImport <= last'.import
    BY <1>2 DEF NewCount
  <2>2. ASSUME NEW c \in counts
        PROVE  c.id <= last'.count
    <3>1. c.id \in Nat /\ c.id <= last.count
      BY DEF TypeOK, CountRow, RecordsInvariant, IdsAreGivenOut
    <3> QED
      BY <1>2, <3>1
  <2> HIDE DEF new
  <2> QED
    BY <1>1, <1>2, <2>1, <2>2 DEF RecordsInvariant, IdsAreGivenOut
<1>5. MovementsBelong' /\ RowsFollowImports'
  BY <1>1 DEF RecordsInvariant, MovementsBelong, RowsFollowImports
<1>6. SumsAgree'
  BY <1>1 DEF RecordsInvariant, SumsAgree, ImportedMovements, LinkedSales
<1> QED
  BY <1>3, <1>4, <1>5, <1>6 DEF RecordsInvariant

(* Ranks grow with the numbers.                                             *)
LEMMA RanksDiffer ==
    ASSUME NEW S \in SUBSET Nat, IsFiniteSet(S), NEW j \in S, NEW k \in S,
           Rank(j, S) = Rank(k, S)
    PROVE  j = k
<1>1. ASSUME NEW a \in S, NEW b \in S, a < b, Rank(a, S) = Rank(b, S)
      PROVE  FALSE
  <2> DEFINE A == {i \in S : i <= a}
             B == {i \in S : i <= b}
  <2>1. A \in SUBSET B /\ b \in B /\ b \notin A
    <3>1. /\ a \in Nat /\ b \in Nat /\ b <= b /\ ~(b <= a)
          /\ \A i \in S : i <= a => i <= b
      BY <1>1
    <3> QED
      BY <3>1
  <2>2. IsFiniteSet(B)
    BY FS_Subset
  <2>3. Cardinality(A) = Cardinality(B)
    BY <1>1 DEF Rank
  <2> HIDE DEF A, B
  <2> QED
    BY <2>1, <2>2, <2>3, FS_Subset
<1>2. j \in Nat /\ k \in Nat
  OBVIOUS
<1> QED
  BY <1>1, <1>2

RowsOf(rows, p) == {m \in rows : m.product = p}

LinkedRowsOf(rows, p) == {s \in rows : s.linked /\ s.product = p}

(* The movements an import writes for a product are the opposite of its     *)
(* linked sales of it: one movement for each linked sale with a quantity.   *)
LEMMA NewRowsAgree ==
    ASSUME TypeOK, NEW f \in Z004, NEW id, NEW p
    PROVE  /\ IsFiniteSet(MovementRows(f, id)) /\ IsFiniteSet(SaleRows(f, id))
           /\ Total(RowsOf(MovementRows(f, id), p))
                = -Total(LinkedRowsOf(SaleRows(f, id), p))
<1> DEFINE L == MatchedLines(f)
           S == StockLines(f)
           sale == [k \in L |->
                      [import |-> id, line |-> k,
                       product |-> FirstCandidate(f.rows[k].jan),
                       qty |-> f.rows[k].qty, amount |-> f.rows[k].amount,
                       linked |-> RowLinked(f.rows[k]), voided |-> FALSE]]
           movement == [k \in S |->
                      [id |-> last.movement + Rank(k, S),
                       product |-> FirstCandidate(f.rows[k].jan),
                       qty |-> -f.rows[k].qty, date |-> f.date,
                       initial |-> FALSE, settlement |-> f.no, import |-> id,
                       voided |-> FALSE]]
           some == {s \in {t \in SaleRows(f, id) : t.linked /\ t.product = p} :
                       s.qty # 0}
           taken == [s \in some |-> movement[s.line]]
<1>1. /\ S \in SUBSET L /\ IsFiniteSet(S) /\ L \subseteq Nat
      /\ \A k \in L : f.rows[k].qty \in Int
  BY LinesTyped
<1>2. IsFiniteSet(L)
  <2>1. Len(f.rows) \in Nat /\ DOMAIN f.rows = 1..Len(f.rows)
    BY FilesAssumption
  <2>2. IsFiniteSet(1..Len(f.rows))
    BY <2>1, FS_Interval
  <2>3. L \in SUBSET (1..Len(f.rows))
    BY <2>1 DEF MatchedLines
  <2> QED
    BY <2>2, <2>3, FS_Subset
<1>3. MovementRows(f, id) = {movement[k] : k \in S} /\ DOMAIN movement = S
  BY DEF MovementRows
<1>4. SaleRows(f, id) = {sale[k] : k \in L} /\ DOMAIN sale = L
  BY DEF SaleRows
<1>5. IsFiniteSet(MovementRows(f, id)) /\ IsFiniteSet(SaleRows(f, id))
  <2> HIDE DEF movement, sale, L, S
  <2>1. IsFiniteSet({movement[k] : k \in S})
    BY <1>1, <1>3, ImageIsFinite
  <2>2. IsFiniteSet({sale[k] : k \in L})
    BY <1>2, <1>4, ImageIsFinite
  <2> QED
    BY <1>3, <1>4, <2>1, <2>2
<1>6. ASSUME NEW k \in L
      PROVE  /\ sale[k].line = k /\ sale[k].qty = f.rows[k].qty
             /\ sale[k].linked = RowLinked(f.rows[k])
             /\ sale[k].product = FirstCandidate(f.rows[k].jan)
  OBVIOUS
<1>7. ASSUME NEW k \in S
      PROVE  /\ movement[k].id = last.movement + Rank(k, S)
             /\ movement[k].qty = -f.rows[k].qty
             /\ movement[k].product = FirstCandidate(f.rows[k].jan)
  OBVIOUS
<1>8. \A k \in L : k \in S <=> RowLinked(f.rows[k]) /\ f.rows[k].qty # 0
  BY DEF StockLines
<1> HIDE DEF movement, sale, L, S
<1>9. ASSUME NEW s \in some
      PROVE  /\ s.line \in S /\ s = sale[s.line]
             /\ s.qty = f.rows[s.line].qty
             /\ FirstCandidate(f.rows[s.line].jan) = p
  <2>1. PICK k \in L : s = sale[k]
    BY <1>4
  <2>2. s.line = k /\ s.qty # 0 /\ s.linked /\ s.product = p
    BY <1>6, <2>1
  <2> QED
    BY <1>6, <1>8, <2>1, <2>2
<1>10. {m \in MovementRows(f, id) : m.product = p} = {taken[s] : s \in some}
  <2>1. ASSUME NEW m \in MovementRows(f, id), m.product = p
        PROVE  \E s \in some : m = taken[s]
    <3>1. PICK k \in S : m = movement[k]
      BY <1>3
    <3>2. sale[k] \in some /\ sale[k].line = k
      BY <1>1, <1>4, <1>6, <1>7, <1>8, <2>1, <3>1
    <3> HIDE DEF some
    <3> QED
      BY <3>1, <3>2
  <2>2. ASSUME NEW s \in some
        PROVE  taken[s] \in MovementRows(f, id) /\ taken[s].product = p
    <3>1. taken[s] = movement[s.line]
      OBVIOUS
    <3> HIDE DEF some, taken
    <3> QED
      BY <1>3, <1>7, <1>9, <3>1
  <2> HIDE DEF some, taken
  <2> QED
    BY <2>1, <2>2
<1>11. ASSUME NEW s \in some PROVE taken[s].qty = -s.qty /\ s.qty \in Int
  <2>1. taken[s] = movement[s.line]
    OBVIOUS
  <2> HIDE DEF some, taken
  <2> QED
    BY <1>1, <1>7, <1>9, <2>1
<1>12. ASSUME NEW s \in some, NEW t \in some, taken[s] = taken[t] PROVE s = t
  <2>1. movement[s.line] = movement[t.line]
    BY <1>12
  <2>2. /\ s.line \in S /\ t.line \in S /\ s = sale[s.line] /\ t = sale[t.line]
    BY <1>9
  <2> HIDE DEF some, taken
  <2>3. last.movement + Rank(s.line, S) = last.movement + Rank(t.line, S)
    BY <1>7, <2>1, <2>2
  <2>4. /\ last.movement \in Int /\ S \in SUBSET Nat
        /\ Rank(s.line, S) \in Int /\ Rank(t.line, S) \in Int
    <3>1. S \in SUBSET Nat
      BY <1>1
    <3> QED
      BY <1>1, <2>2, <3>1, RankIsIndex DEF TypeOK
  <2>5. Rank(s.line, S) = Rank(t.line, S)
    BY <2>3, <2>4
  <2> QED
    BY <1>1, <2>2, <2>4, <2>5, RanksDiffer
<1>13. Summable(SaleRows(f, id))
  <2>1. \A s \in SaleRows(f, id) : s.qty \in Int
    BY <1>1, <1>4, <1>6
  <2> QED
    BY <1>5, <2>1 DEF Summable
<1>14. Total({t \in SaleRows(f, id) : t.linked /\ t.product = p}) = Total(some)
  BY <1>13, SummableParts, TotalWithoutZeros
<1>15. Total({taken[s] : s \in some}) = -Total(some)
  <2>1. Summable(some) /\ DOMAIN taken = some
    BY <1>13, SummableParts
  <2> HIDE DEF some, taken
  <2> QED
    BY <1>11, <1>12, <2>1, TotalOfOpposites
<1> HIDE DEF some, taken
<1> QED
  BY <1>5, <1>10, <1>14, <1>15 DEF RowsOf, LinkedRowsOf

LEMMA ImportAgrees ==
    ASSUME TypeOK, RecordsInvariant, NEW f \in Z004, ImportSettlement(f)
    PROVE  RecordsInvariant'
<1> DEFINE id == last.import + 1
           n == Cardinality(StockLines(f))
           new == [id |-> id, hash |-> f.hash, machine |-> f.machine,
                   no |-> f.no, date |-> f.date, rolledBack |-> FALSE]
           newMovements == MovementRows(f, id)
           newSales == SaleRows(f, id)
<1>1. /\ imports' = imports \cup {new} /\ sales' = sales \cup newSales
      /\ movements' = movements \cup newMovements /\ counts' = counts
      /\ last' = [last EXCEPT !.import = id, !.movement = last.movement + n]
  BY DEF ImportSettlement
<1>2. /\ last.import \in Nat /\ last.movement \in Nat /\ n \in Nat
      /\ last'.count = last.count /\ last'.import = last.import + 1
      /\ last'.movement = last.movement + n
  BY <1>1, LinesTyped DEF TypeOK
<1>3. ASSUME NEW m \in newMovements
      PROVE  /\ m.import = id /\ ~m.voided /\ m.settlement = f.no
             /\ m.date = f.date /\ m.id <= last.movement + n
  <2>1. PICK k \in StockLines(f) :
            m = [id |-> last.movement + Rank(k, StockLines(f)),
                 product |-> FirstCandidate(f.rows[k].jan),
                 qty |-> -f.rows[k].qty, date |-> f.date, initial |-> FALSE,
                 settlement |-> f.no, import |-> id, voided |-> FALSE]
    BY DEF MovementRows
  <2>2. Rank(k, StockLines(f)) \in 1..n
    <3>1. StockLines(f) \in SUBSET Nat /\ IsFiniteSet(StockLines(f))
      BY LinesTyped
    <3> QED
      BY <3>1, RankIsIndex
  <2>3. last.movement + Rank(k, StockLines(f)) <= last.movement + n
    BY <1>2, <2>2
  <2> QED
    BY <2>1, <2>3
<1>4. ASSUME NEW s \in newSales PROVE s.import = id /\ ~s.voided
  BY DEF SaleRows
<1>5. IsFiniteSet(newMovements) /\ IsFiniteSet(newSales)
  BY NewRowsAgree
<1>6. new.id = id /\ new.no = f.no /\ new.date = f.date /\ ~new.rolledBack
  OBVIOUS
<1>7. ASSUME NEW i \in imports PROVE i.id \in Nat \ {0} /\ i.id < id
  <2>1. i.id \in 1..MaxImport /\ i.id <= last.import
    BY DEF TypeOK, ImportRow, RecordsInvariant, IdsAreGivenOut
  <2> QED
    BY <1>2, <2>1, BoundsAssumption
<1>8. ASSUME NEW m \in movements PROVE m.import \in Nat /\ m.import < id
  <2>1. m.import \in Nat
    BY BoundsAssumption DEF TypeOK, MovementRow
  <2>2. m.import = 0 \/ \E i \in imports : i.id = m.import
    BY DEF RecordsInvariant, MovementsBelong
  <2> QED
    BY <1>2, <1>7, <2>1, <2>2
<1>9. ASSUME NEW s \in sales PROVE s.import \in Nat /\ s.import < id
  <2>1. s.import \in Nat /\ s.import <= last.import
    BY BoundsAssumption DEF TypeOK, SaleRow, RecordsInvariant, IdsAreGivenOut
  <2> QED
    BY <1>2, <2>1
<1>10. id \in Nat /\ ~(id < id) /\ id # 0
  BY <1>2
<1>11. ASSUME NEW p \in Product
       PROVE  Total({m \in newMovements : m.product = p})
                = -Total({s \in newSales : s.linked /\ s.product = p})
  <2>1. Total(RowsOf(newMovements, p)) = -Total(LinkedRowsOf(newSales, p))
    BY NewRowsAgree
  <2> QED
    BY <2>1 DEF RowsOf, LinkedRowsOf
<1>12. last'.import = id
  BY <1>2
<1> HIDE DEF new, newMovements, newSales, id, n
<1>13. RowsAreFinite'
  BY <1>1, <1>5, FS_AddElement, FS_Union DEF RecordsInvariant, RowsAreFinite
<1>14. IdsAreGivenOut'
  <2>1. ASSUME NEW c \in counts
        PROVE  /\ c.id <= last'.count /\ c.seenMovement <= last'.movement
               /\ c.seenImport <= last'.import
    <3>1. /\ c.seenMovement \in Nat /\ c.seenImport \in Nat
          /\ c.id <= last.count /\ c.seenMovement <= last.movement
          /\ c.seenImport <= last.import
      BY DEF TypeOK, CountRow, RecordsInvariant, IdsAreGivenOut
    <3> QED
      BY <1>2, <3>1
  <2>2. ASSUME NEW m \in movements' PROVE m.id <= last'.movement
    <3>1. CASE m \in movements
      <4>1. m.id \in Nat /\ m.id <= last.movement
        BY <3>1 DEF TypeOK, MovementRow, RecordsInvariant, IdsAreGivenOut
      <4> QED
        BY <1>2, <4>1
    <3>2. CASE m \in newMovements
      BY <1>2, <1>3, <3>2
    <3> QED
      BY <1>1, <3>1, <3>2
  <2>3. ASSUME NEW i \in imports' PROVE i.id <= last'.import
    BY <1>1, <1>6, <1>7, <1>10, <1>12
  <2>4. ASSUME NEW s \in sales' PROVE s.import <= last'.import
    BY <1>1, <1>4, <1>9, <1>10, <1>12
  <2> QED
    BY <1>1, <2>1, <2>2, <2>3, <2>4 DEF IdsAreGivenOut
<1>15. MovementsBelong'
  BY <1>1, <1>3, <1>6, <1>10 DEF RecordsInvariant, MovementsBelong
<1>16. RowsFollowImports'
  <2>1. ASSUME NEW i \in imports
        PROVE  /\ \A s \in newSales : s.import # i.id
               /\ \A m \in newMovements : m.import # i.id
    BY <1>3, <1>4, <1>7, <1>10
  <2>2. /\ \A s \in sales : s.import # new.id
        /\ \A m \in movements : m.import # new.id
    BY <1>6, <1>8, <1>9, <1>10
  <2>3. ASSUME NEW i \in imports
        PROVE  /\ \A s \in sales' : s.import = i.id => s.voided = i.rolledBack
               /\ \A m \in movements' : m.import = i.id =>
                     /\ m.voided = i.rolledBack /\ m.settlement = i.no
                     /\ m.date = i.date
    BY <1>1, <2>1 DEF RecordsInvariant, RowsFollowImports
  <2>4. \A s \in newSales : s.voided = FALSE
    BY <1>4 DEF SaleRows, newSales
  <2>5. \A m \in newMovements : m.voided = FALSE
    BY DEF MovementRows, newMovements
  <2>6. new.rolledBack = FALSE
    BY DEF new
  <2>7. /\ \A s \in sales' : s.import = new.id => s.voided = new.rolledBack
        /\ \A m \in movements' : m.import = new.id =>
              /\ m.voided = new.rolledBack /\ m.settlement = new.no
              /\ m.date = new.date
    BY <1>1, <1>3, <1>6, <2>2, <2>4, <2>5, <2>6
  <2> QED
    BY <1>1, <2>3, <2>7 DEF RowsFollowImports
<1>17. ASSUME NEW i \in imports, NEW p \in Product
       PROVE  Total({m \in movements' : m.import = i.id /\ m.product = p})
                = -Total({s \in sales' : /\ s.import = i.id /\ s.linked
                                        /\ s.product = p})
  <2>1. /\ {m \in movements' : m.import = i.id /\ m.product = p}
             = ImportedMovements(i.id, p)
        /\ {s \in sales' : s.import = i.id /\ s.linked /\ s.product = p}
             = LinkedSales(i.id, p)
    BY <1>1, <1>3, <1>4, <1>7, <1>10 DEF ImportedMovements, LinkedSales
  <2> QED
    BY <2>1 DEF RecordsInvariant, SumsAgree
<1>18. ASSUME NEW p \in Product
       PROVE  Total({m \in movements' : m.import = new.id /\ m.product = p})
                = -Total({s \in sales' : /\ s.import = new.id /\ s.linked
                                        /\ s.product = p})
  <2>1. /\ {m \in movements' : m.import = id /\ m.product = p}
             = {m \in newMovements : m.product = p}
        /\ {s \in sales' : s.import = id /\ s.linked /\ s.product = p}
             = {s \in newSales : s.linked /\ s.product = p}
    BY <1>1, <1>3, <1>4, <1>8, <1>9, <1>10
  <2> QED
    BY <1>6, <1>11, <2>1
<1>19. SumsAgree'
  BY <1>1, <1>17, <1>18 DEF SumsAgree, ImportedMovements, LinkedSales
<1> QED
  BY <1>13, <1>14, <1>15, <1>16, <1>19 DEF RecordsInvariant

LEMMA RollbackAgrees ==
    ASSUME TypeOK, RecordsInvariant, NEW import \in imports,
           RollbackImport(import)
    PROVE  RecordsInvariant'
<1> DEFINE undone == [i \in imports |->
                        [i EXCEPT !.rolledBack = @ \/ i.id = import.id]]
           sale == [s \in sales |->
                        [s EXCEPT !.voided = @ \/ s.import = import.id]]
           movement == [m \in movements |->
                        [m EXCEPT !.voided = @ \/ m.import = import.id]]
<1>1. /\ imports' = {undone[i] : i \in imports} /\ DOMAIN undone = imports
      /\ sales' = {sale[s] : s \in sales} /\ DOMAIN sale = sales
      /\ movements' = {movement[m] : m \in movements}
      /\ DOMAIN movement = movements
      /\ counts' = counts /\ last' = last
  BY DEF RollbackImport
<1>2. ASSUME NEW i \in imports
      PROVE  /\ undone[i].id = i.id /\ undone[i].no = i.no
             /\ undone[i].date = i.date
             /\ undone[i].rolledBack = (i.rolledBack \/ i.id = import.id)
  BY DEF TypeOK, ImportRow
<1>3. ASSUME NEW s \in sales
      PROVE  /\ sale[s].import = s.import /\ sale[s].product = s.product
             /\ sale[s].linked = s.linked /\ sale[s].qty = s.qty
             /\ sale[s].voided = (s.voided \/ s.import = import.id)
  BY DEF TypeOK, SaleRow
<1>4. ASSUME NEW m \in movements
      PROVE  /\ movement[m].id = m.id /\ movement[m].import = m.import
             /\ movement[m].product = m.product /\ movement[m].qty = m.qty
             /\ movement[m].settlement = m.settlement
             /\ movement[m].date = m.date
             /\ movement[m].voided = (m.voided \/ m.import = import.id)
  BY DEF TypeOK, MovementRow
<1>5. ASSUME NEW r \in sales, NEW s \in sales, sale[r] = sale[s],
             r.voided = s.voided
      PROVE  r = s
  BY <1>5 DEF TypeOK, SaleRow
<1>6. ASSUME NEW m \in movements, NEW n \in movements,
             movement[m] = movement[n], m.voided = n.voided
      PROVE  m = n
  BY <1>6 DEF TypeOK, MovementRow
<1>7. import.id # 0
  BY DEF TypeOK, ImportRow
<1> HIDE DEF undone, sale, movement
<1>8. RowsAreFinite'
  <2>1. IsFiniteSet({undone[i] : i \in imports})
    BY <1>1, ImageIsFinite DEF RecordsInvariant, RowsAreFinite
  <2>2. IsFiniteSet({sale[s] : s \in sales})
    BY <1>1, ImageIsFinite DEF RecordsInvariant, RowsAreFinite
  <2>3. IsFiniteSet({movement[m] : m \in movements})
    BY <1>1, ImageIsFinite DEF RecordsInvariant, RowsAreFinite
  <2> QED
    BY <1>1, <2>1, <2>2, <2>3 DEF RecordsInvariant, RowsAreFinite
<1>9. IdsAreGivenOut'
  BY <1>1, <1>2, <1>3, <1>4 DEF RecordsInvariant, IdsAreGivenOut
<1>10. MovementsBelong'
  <2>1. ASSUME NEW m \in movements
        PROVE  IF m.import = 0
               THEN ~movement[m].voided /\ movement[m].settlement = NoSettlement
               ELSE \E i \in imports : undone[i].id = m.import
    <3>1. CASE m.import = 0
      <4>1. ~m.voided /\ m.settlement = NoSettlement /\ ~(m.import = import.id)
        BY <1>7, <3>1 DEF RecordsInvariant, MovementsBelong
      <4>2. ~(m.voided \/ m.import = import.id)
        BY <4>1
      <4> QED
        BY <1>4, <3>1, <4>1, <4>2
    <3>2. CASE m.import # 0
      BY <1>2, <3>2 DEF RecordsInvariant, MovementsBelong
    <3> QED
      BY <3>1, <3>2
  <2> QED
    BY <1>1, <1>4, <2>1 DEF MovementsBelong
<1>11. ASSUME NEW i \in imports
       PROVE  /\ \A s \in sales : s.import = i.id => s.voided = i.rolledBack
              /\ \A m \in movements : m.import = i.id =>
                    /\ m.voided = i.rolledBack /\ m.settlement = i.no
                    /\ m.date = i.date
  BY DEF RecordsInvariant, RowsFollowImports
<1>12. RowsFollowImports'
  <2>1. ASSUME NEW i \in imports
        PROVE  /\ \A s \in sales : s.import = i.id =>
                     sale[s].voided = undone[i].rolledBack
               /\ \A m \in movements : m.import = i.id =>
                     /\ movement[m].voided = undone[i].rolledBack
                     /\ movement[m].settlement = undone[i].no
                     /\ movement[m].date = undone[i].date
    BY <1>2, <1>3, <1>4, <1>11
  <2> QED
    BY <1>1, <1>2, <1>3, <1>4, <2>1 DEF RowsFollowImports
<1>13. ASSUME NEW i \in imports, NEW p \in Product
       PROVE  Total({m \in movements' : m.import = i.id /\ m.product = p})
                = -Total({s \in sales' : /\ s.import = i.id /\ s.linked
                                        /\ s.product = p})
  <2> DEFINE M == ImportedMovements(i.id, p)
             S == LinkedSales(i.id, p)
             f == [m \in M |-> movement[m]]
             g == [s \in S |-> sale[s]]
  <2>1. M \in SUBSET movements /\ S \in SUBSET sales
    BY DEF ImportedMovements, LinkedSales
  <2>2. Summable(M) /\ Summable(S)
    BY <2>1, RowsSummable, SummableParts DEF RecordsInvariant
  <2>3. ASSUME NEW m \in M, NEW n \in M, f[m] = f[n] PROVE m = n
    BY <1>6, <1>11, <2>1, <2>3 DEF ImportedMovements
  <2>4. ASSUME NEW r \in S, NEW s \in S, g[r] = g[s] PROVE r = s
    BY <1>5, <1>11, <2>1, <2>4 DEF LinkedSales
  <2>5. (\A m \in M : f[m].qty = m.qty) /\ (\A s \in S : g[s].qty = s.qty)
        /\ DOMAIN f = M /\ DOMAIN g = S
    BY <1>3, <1>4, <2>1
  <2>6. {m \in movements' : m.import = i.id /\ m.product = p}
            = {f[m] : m \in M}
    <3>1. \A m \in M : f[m] = movement[m] /\ m \in movements
      BY <2>1
    <3>2. \A m \in movements : m \in M <=> m.import = i.id /\ m.product = p
      BY DEF ImportedMovements
    <3> HIDE DEF M, f
    <3> QED
      BY <1>1, <1>4, <3>1, <3>2
  <2>7. {s \in sales' : s.import = i.id /\ s.linked /\ s.product = p}
            = {g[s] : s \in S}
    <3>1. \A s \in S : g[s] = sale[s] /\ s \in sales
      BY <2>1
    <3>2. \A s \in sales : s \in S <=> s.import = i.id /\ s.linked /\ s.product = p
      BY DEF LinkedSales
    <3> HIDE DEF S, g
    <3> QED
      BY <1>1, <1>3, <3>1, <3>2
  <2>8. Total(M) = -Total(S)
    BY DEF RecordsInvariant, SumsAgree
  <2> HIDE DEF M, S, f, g
  <2>9. Total({f[m] : m \in M}) = Total(M)
    BY <2>2, <2>3, <2>5, TotalOfCopies
  <2>10. Total({g[s] : s \in S}) = Total(S)
    BY <2>2, <2>4, <2>5, TotalOfCopies
  <2> QED
    BY <2>6, <2>7, <2>8, <2>9, <2>10
<1>14. SumsAgree'
  BY <1>1, <1>2, <1>13 DEF SumsAgree, ImportedMovements, LinkedSales
<1> QED
  BY <1>8, <1>9, <1>10, <1>12, <1>14 DEF RecordsInvariant

(* Every command keeps the records' invariant.                              *)
LEMMA RecordsStep == TypeOK /\ RecordsInvariant /\ [Next]_vars => RecordsInvariant'
<1> SUFFICES ASSUME TypeOK, RecordsInvariant, [Next]_vars
             PROVE  RecordsInvariant'
  OBVIOUS
<1>1. ASSUME UNCHANGED <<counts, movements, imports, sales, last>>
      PROVE  RecordsInvariant'
  BY <1>1 DEF RecordsInvariant, RowsAreFinite, IdsAreGivenOut, MovementsBelong,
     RowsFollowImports, SumsAgree, ImportedMovements, LinkedSales
<1>2. CASE NextDay \/ SetClockBack \/ UNCHANGED vars
  BY <1>1, <1>2 DEF NextDay, SetClockBack, vars, tables
<1>3. CASE \E p \in DOMAIN products : StartLinking(p) \/ StopLinking(p)
  BY <1>1, <1>3 DEF StartLinking, StopLinking
<1>4. CASE \E op \in Operation : RecordOperation(op)
  BY <1>4, OperationAgrees
<1>5. CASE \E f \in Z004 : ImportSettlement(f)
  BY <1>5, ImportAgrees
<1>6. CASE \E i \in imports : RollbackImport(i)
  BY <1>6, RollbackAgrees
<1>7. CASE SaveSomeCount
  BY <1>7, CountAgrees DEF SaveSomeCount
<1>8. CASE CreateSomeProduct
  BY <1>8, CreateAgrees DEF CreateSomeProduct
<1>9. CASE ImportSomeProducts
  BY <1>9, ProductsAgree DEF ImportSomeProducts
<1> QED
  BY <1>2, <1>3, <1>4, <1>5, <1>6, <1>7, <1>8, <1>9 DEF Next

LEMMA RecordsInit == Init => RecordsInvariant
<1> SUFFICES ASSUME Init PROVE RecordsInvariant
  OBVIOUS
<1>1. counts = {} /\ movements = {} /\ imports = {} /\ sales = {}
  BY DEF Init
<1> QED
  BY <1>1, FS_EmptySet DEF RecordsInvariant, RowsAreFinite, IdsAreGivenOut,
     MovementsBelong, RowsFollowImports, SumsAgree

LEMMA RecordsInvariance == Spec => []RecordsInvariant
  BY RecordsInit, RecordsStep, TypeCorrect, PTL DEF Spec

(* SPEC-STK-CNT-D7: in every shop and with every set of files the rows of an *)
(* import stand and fall with it, a movement of no import is never voided,  *)
(* and the movements of an import are the linked sales of it, taken out of  *)
(* the stock product by product.                                            *)
THEOREM ImportRowsStayTogether == Spec => []ImportRowsAgree
<1>1. TypeOK /\ RecordsInvariant => ImportRowsAgree
  <2> SUFFICES ASSUME TypeOK, RecordsInvariant PROVE ImportRowsAgree
    OBVIOUS
  <2>1. DOMAIN products \subseteq Product
    BY DEF TypeOK
  <2> QED
    BY <2>1 DEF RecordsInvariant, RowsFollowImports, SumsAgree,
       MovementsBelong, ImportRowsAgree, ImportedMovements, LinkedSales
<1> QED
  BY <1>1, TypeCorrect, RecordsInvariance, PTL
-----------------------------------------------------------------------------
(* The preview of a file of products.                                       *)

(* One unfolding of the recursive function behind PassedNew.                *)
Pass(f, g) ==
    [n \in 0..Len(f) |->
        IF n = 0 THEN {}
        ELSE g[n - 1] \cup
                {k \in {n} : IsNew(f[k]) /\ RowAllowed(f, g[n - 1], k)}]

LEMMA PassedNewIsPass ==
    ASSUME NEW f
    PROVE  PassedNew(f) = (CHOOSE g : g = Pass(f, g))[Len(f)]
  BY DEF PassedNew, Pass

(* The function exists, whatever rows the file has.                         *)
LEMMA PassExists ==
    ASSUME NEW f, Len(f) \in Nat
    PROVE  \E g : g = Pass(f, g)
<1> DEFINE N == Len(f)
           After(n, done) == done \cup
               {k \in {n} : IsNew(f[k]) /\ RowAllowed(f, done, k)}
           G == {m \in 0..N : \E g : /\ g[0] = {}
                                     /\ \A n \in 1..m : g[n] = After(n, g[n - 1])}
<1>1. 0 \in G
  <2> HIDE DEF After
  <2>1. [n \in {0} |-> {}][0] = {} /\ 0 \in 0..N /\ 1..0 = {}
    OBVIOUS
  <2> QED
    BY <2>1
<1>2. ASSUME NEW m \in 0..N, m < N, m \in G
      PROVE  m + 1 \in G
  <2>1. PICK g : /\ g[0] = {}
                 /\ \A n \in 1..m : g[n] = After(n, g[n - 1])
    BY <1>2
  <2> DEFINE h == [n \in 0..(m + 1) |->
                      IF n <= m THEN g[n] ELSE After(m + 1, g[m])]
  <2> HIDE DEF After
  <2>2. h[0] = {}
    BY <2>1
  <2>3. ASSUME NEW n \in 1..(m + 1)
        PROVE  h[n] = After(n, h[n - 1])
    <3>1. h[n - 1] = g[n - 1]
      OBVIOUS
    <3>2. CASE n <= m
      <4>1. h[n] = g[n] /\ n \in 1..m
        BY <3>2
      <4> HIDE DEF h
      <4> QED
        BY <2>1, <3>1, <4>1
    <3>3. CASE n = m + 1
      <4>1. h[n] = After(m + 1, g[m]) /\ n - 1 = m
        BY <3>3
      <4> HIDE DEF h
      <4> QED
        BY <3>1, <3>3, <4>1
    <3> QED
      BY <3>2, <3>3
  <2>4. m + 1 \in 0..N
    BY <1>2
  <2> HIDE DEF h
  <2> QED
    BY <2>2, <2>3, <2>4
<1>3. N \in G
  <2> HIDE DEF G
  <2> N \in 0..N
    OBVIOUS
  <2> QED
    BY <1>1, <1>2, StepInduction
<1>4. PICK g : /\ g[0] = {}
               /\ \A n \in 1..N : g[n] = After(n, g[n - 1])
  BY <1>3
<1> DEFINE h == [n \in 0..N |-> g[n]]
<1>5. ASSUME NEW n \in 0..N
      PROVE  h[n] = IF n = 0 THEN {} ELSE After(n, h[n - 1])
  <2> HIDE DEF After
  <2>1. CASE n = 0
    BY <1>4, <2>1
  <2>2. CASE n # 0
    <3>1. n \in 1..N /\ n - 1 \in 0..N
      BY <2>2
    <3> QED
      BY <1>4, <2>2, <3>1
  <2> QED
    BY <2>1, <2>2
<1>6. h = [n \in 0..N |-> IF n = 0 THEN {} ELSE After(n, h[n - 1])]
  <2>1. h = [n \in 0..N |-> h[n]]
    OBVIOUS
  <2> HIDE DEF h, After
  <2> QED
    BY <1>5, <2>1
<1>7. h = Pass(f, h)
  <2> HIDE DEF h
  <2> QED
    BY <1>6 DEF Pass
<1> QED
  BY <1>7

(* A row passes as the first test of it finds, with the rows before it that  *)
(* have passed.                                                             *)
LEMMA PassedNewRows ==
    ASSUME NEW f, Len(f) \in Nat
    PROVE  \E Q : /\ PassedNew(f) = 1..Len(f) \cap Q
                  /\ \A k \in 1..Len(f) \cap Q :
                        /\ IsNew(f[k])
                        /\ RowAllowed(f, 1..(k - 1) \cap Q, k)
<1> DEFINE N == Len(f)
           g == CHOOSE h : h = Pass(f, h)
<1>1. g = Pass(f, g) /\ PassedNew(f) = g[N]
  BY PassExists, PassedNewIsPass
<1> HIDE DEF g
<1>2. g[0] = {}
  <2>1. g[0] = Pass(f, g)[0] /\ 0 \in 0..Len(f)
    BY <1>1
  <2> QED
    BY ONLY <2>1 DEF Pass
<1>3. ASSUME NEW n \in 1..N
      PROVE  g[n] = g[n - 1] \cup
                {k \in {n} : IsNew(f[k]) /\ RowAllowed(f, g[n - 1], k)}
  <2>1. g[n] = Pass(f, g)[n] /\ n \in 0..Len(f) /\ n # 0
    BY <1>1
  <2> QED
    BY ONLY <2>1 DEF Pass
<1> DEFINE Q == {k \in 1..N : IsNew(f[k]) /\ RowAllowed(f, g[k - 1], k)}
           G == {n \in 0..N : g[n] = 1..n \cap Q}
<1>4. 0 \in G
  BY <1>2
<1>5. ASSUME NEW n \in 0..N, n < N, n \in G
      PROVE  n + 1 \in G
  <2>1. n + 1 \in 1..N /\ n + 1 \in 0..N /\ (n + 1) - 1 = n
    BY <1>5
  <2>2. g[n + 1] = g[n] \cup
           {k \in {n + 1} : IsNew(f[k]) /\ RowAllowed(f, g[n], k)}
    BY <1>3, <2>1
  <2>3. {k \in {n + 1} : IsNew(f[k]) /\ RowAllowed(f, g[n], k)}
           = {n + 1} \cap Q
    BY <2>1
  <2>4. 1..(n + 1) = (1..n) \cup {n + 1}
    OBVIOUS
  <2>5. g[n] = 1..n \cap Q
    BY <1>5
  <2> HIDE DEF Q
  <2> QED
    BY <2>1, <2>2, <2>3, <2>4, <2>5
<1>6. \A n \in 0..N : g[n] = 1..n \cap Q
  <2>1. \A n \in 0..N : n \in G
    <3> HIDE DEF G
    <3> QED
      BY <1>4, <1>5, StepInduction
  <2> QED
    BY <2>1
<1>7. ASSUME NEW k \in 1..N \cap Q
      PROVE  IsNew(f[k]) /\ RowAllowed(f, 1..(k - 1) \cap Q, k)
  <2>1. IsNew(f[k]) /\ RowAllowed(f, g[k - 1], k)
    OBVIOUS
  <2>2. k - 1 \in 0..N
    OBVIOUS
  <2>3. g[k - 1] = 1..(k - 1) \cap Q
    BY <1>6, <2>2
  <2> QED
    BY <2>1, <2>3
<1>8. PassedNew(f) = 1..N \cap Q
  BY <1>1, <1>6
<1> HIDE DEF Q
<1> QED
  BY <1>7, <1>8

(* BIZ-01 4.7: for every file and in every state the commit takes what the  *)
(* preview has passed, all the new rows and one chosen duplicate of them.   *)
THEOREM PreviewsAreTaken == Spec => []PreviewedRowsAreTaken
<1>1. ASSUME NEW f \in ProductFile, NEW new, new = PassedNew(f),
             NEW sent \in {new} \cup {new \cup {k} : k \in PassedDuplicates(f, new)},
             NEW k \in sent
      PROVE  RowAllowed(f, SentBefore(f, sent, k), k)
  <2>1. Len(f) \in Nat /\ DOMAIN f = 1..Len(f)
    BY ProductFilesAssumption
  <2>2. PICK Q : /\ new = 1..Len(f) \cap Q
                 /\ \A j \in 1..Len(f) \cap Q :
                       IsNew(f[j]) /\ RowAllowed(f, 1..(j - 1) \cap Q, j)
    BY <1>1, <2>1, PassedNewRows
  <2>3. \A j \in sent \ new : /\ j \in DOMAIN f /\ ~IsNew(f[j])
                              /\ RowAllowed(f, new, j) /\ sent = new \cup {j}
    BY DEF PassedDuplicates
  <2>4. CASE k \in new
    <3>1. SentBefore(f, sent, k) = {j \in new : j < k}
      BY <2>2, <2>3, <2>4 DEF SentBefore, IsNew
    <3>2. {j \in new : j < k} = 1..(k - 1) \cap Q
      BY <2>1, <2>2, <2>4
    <3> QED
      BY <2>2, <2>4, <3>1, <3>2
  <2>5. CASE k \notin new
    <3>1. k \in 1..Len(f) /\ ~(k < k)
      BY <2>1, <2>3, <2>5
    <3>2. SentBefore(f, sent, k) = new
      BY <2>2, <2>3, <2>5, <3>1 DEF SentBefore, IsNew
    <3> QED
      BY <2>3, <2>5, <3>2
  <2> QED
    BY <2>4, <2>5
<1>2. PreviewedRowsAreTaken
  BY <1>1 DEF PreviewedRowsAreTaken
<1> QED
  BY <1>2, PTL

-----------------------------------------------------------------------------
(* The counts of a product. *)

(* What the saving of counts establishes: ids grow with the saving, no      *)
(* count is of a day to come, and a fresh count is of the latest day that   *)
(* any count saved before it is of.                                         *)
Placed(C, lastId, day) ==
    \A c \in C :
        /\ c.id \in Nat /\ c.date \in Nat /\ c.fresh \in BOOLEAN
        /\ c.id <= lastId /\ c.date <= day
        /\ \A d \in C : /\ d # c => d.id # c.id
                        /\ c.fresh /\ d.id < c.id => d.date <= c.date

-----------------------------------------------------------------------------
(* One more count.  A fresh one comes after all.  After a default one, the  *)
(* count that was effective still is, or else the new one is: were neither, *)
(* some count would lie on a later day than both, and it would come after   *)
(* the effective one.                                                       *)
LEMMA OneMoreCount ==
    ASSUME NEW C, NEW lastId \in Nat, NEW day \in Nat, Placed(C, lastId, day),
           Derivable(C), NEW n, n.id = lastId + 1, n.date \in Nat,
           n.fresh \in BOOLEAN, n.date <= day, n.fresh => n.date = day
    PROVE  /\ Placed(C \cup {n}, lastId + 1, day)
           /\ EffectiveCounts(C \cup {n}) # {}
<1>1. \A c \in C : /\ c.id \in Nat /\ c.date \in Nat /\ c.fresh \in BOOLEAN
                   /\ c.id <= lastId /\ c.date <= day
  BY DEF Placed
<1>2. Placed(C \cup {n}, lastId + 1, day)
  <2>1. ASSUME NEW c \in C \cup {n}
        PROVE  /\ c.id \in Nat /\ c.date \in Nat /\ c.fresh \in BOOLEAN
               /\ c.id <= lastId + 1 /\ c.date <= day
    BY <1>1
  <2>2. ASSUME NEW c \in C \cup {n}, NEW d \in C \cup {n}
        PROVE  /\ d # c => d.id # c.id
               /\ c.fresh /\ d.id < c.id => d.date <= c.date
    <3>1. CASE c \in C /\ d \in C
      BY <3>1 DEF Placed
    <3>2. CASE c = n /\ d \in C
      BY <3>2, <1>1
    <3>3. CASE c \in C /\ d = n
      BY <3>3, <1>1
    <3> QED
      BY <3>1, <3>2, <3>3
  <2> QED
    BY <2>1, <2>2 DEF Placed
<1>3. ~IsAfter(n, n)
  BY DEF IsAfter
<1>4. CASE n.fresh
  <2>1. \A other \in C : ~IsAfter(other, n)
    BY <1>1, <1>4 DEF IsAfter
  <2> QED
    BY <1>2, <1>3, <2>1 DEF EffectiveCounts
<1>5. CASE ~n.fresh
  <2>1. CASE C = {}
    BY <1>2, <1>3, <2>1 DEF EffectiveCounts
  <2>2. CASE C # {}
    <3>1. PICK e \in EffectiveCounts(C) : TRUE
      BY <2>2 DEF Derivable
    <3>2. e \in C /\ \A other \in C : ~IsAfter(other, e)
      BY <3>1 DEF EffectiveCounts
    <3>3. CASE ~IsAfter(n, e)
      <4>1. e \in EffectiveCounts(C \cup {n})
        BY <3>2, <3>3 DEF EffectiveCounts
      <4> QED
        BY <1>2, <4>1
    <3>4. CASE IsAfter(n, e)
      <4>1. e.date < n.date
        BY <1>1, <1>5, <3>2, <3>4 DEF IsAfter
      <4>2. ASSUME NEW o \in C, IsAfter(o, n) PROVE FALSE
        <5>1. n.date < o.date
          BY <1>1, <1>5, <4>2 DEF IsAfter
        <5>2. e.date < o.date /\ o # e
          BY <1>1, <3>2, <4>1, <5>1
        <5>3. ~IsAfter(o, e)
          BY <3>2
        <5>4. CASE ~e.fresh
          BY <5>2, <5>3, <5>4 DEF IsAfter
        <5>5. CASE e.fresh
          <6>1. ~(e.id < o.id)
            BY <5>2, <5>3, <5>5, <1>1 DEF IsAfter
          <6>2. o.id < e.id
            BY <6>1, <5>2, <3>2, <1>1 DEF Placed
          <6>3. o.date <= e.date
            BY <6>2, <5>5, <3>2 DEF Placed
          <6> QED
            BY <6>3, <5>2, <3>2, <1>1
        <5> QED
          BY <5>4, <5>5, <1>1, <3>2
      <4>3. n \in EffectiveCounts(C \cup {n})
        BY <4>2, <1>3 DEF EffectiveCounts
      <4> QED
        BY <1>2, <4>3
    <3> QED
      BY <3>3, <3>4
  <2> QED
    BY <2>1, <2>2
<1> QED
  BY <1>4, <1>5

-----------------------------------------------------------------------------
(* The counts of a product among all counts. *)
LEMMA PlacedWithin ==
    ASSUME NEW C, NEW D, D \subseteq C, NEW lastId, NEW day,
           Placed(C, lastId, day)
    PROVE  Placed(D, lastId, day)
  BY DEF Placed

CountInvariant ==
    /\ Placed(counts, last.count, today)
    /\ \A p \in Product : Derivable(CountsOf(p, counts))

LEMMA NewCountPlaced ==
    ASSUME TypeOK, CountInvariant, NEW p \in Product, NEW value,
           NEW fresh \in BOOLEAN, NEW date \in Dates,
           CountDateAllowed(fresh, date)
    PROVE  LET n == NewCount(p, value, fresh, date)
           IN  /\ Placed(counts \cup {n}, last.count + 1, today)
               /\ Derivable(CountsOf(p, counts) \cup {n})
<1> DEFINE n == NewCount(p, value, fresh, date)
<1>1. /\ n.id = last.count + 1 /\ n.date = date /\ n.fresh = fresh
  BY DEF NewCount
<1>2. /\ last.count \in Nat /\ today \in Nat /\ date \in Nat
  BY BoundsAssumption DEF TypeOK, Dates
<1>3. date <= today /\ (fresh => date = today)
  BY DEF CountDateAllowed
<1> HIDE DEF n
<1>4. Placed(CountsOf(p, counts), last.count, today)
  BY PlacedWithin DEF CountInvariant, CountsOf
<1>5. EffectiveCounts(CountsOf(p, counts) \cup {n}) # {}
  <2>1. Derivable(CountsOf(p, counts))
    BY DEF CountInvariant
  <2> QED
    BY <1>1, <1>2, <1>3, <1>4, <2>1, OneMoreCount
<1>6. Placed(counts \cup {n}, last.count + 1, today)
  <2>1. ASSUME NEW c \in counts \cup {n}
        PROVE  /\ c.id \in Nat /\ c.date \in Nat /\ c.fresh \in BOOLEAN
               /\ c.id <= last.count + 1 /\ c.date <= today
    BY <1>1, <1>2, <1>3 DEF CountInvariant, Placed
  <2>2. ASSUME NEW c \in counts \cup {n}, NEW d \in counts \cup {n}
        PROVE  /\ d # c => d.id # c.id
               /\ c.fresh /\ d.id < c.id => d.date <= c.date
    BY <1>1, <1>2, <1>3 DEF CountInvariant, Placed
  <2> QED
    BY <2>1, <2>2 DEF Placed
<1> QED
  BY <1>5, <1>6 DEF Derivable, n

LEMMA CountInvariantStep ==
    ASSUME ClockMayGoBack = FALSE, TypeOK, CountInvariant, [Next]_vars
    PROVE  CountInvariant'
<1>1. CASE SaveSomeCount
  <2>1. PICK p \in DOMAIN products, value \in CountValue, fresh \in BOOLEAN,
             date \in 1..MaxDate : SaveCount(p, value, fresh, date)
    BY <1>1 DEF SaveSomeCount
  <2> DEFINE n == NewCount(p, value, fresh, date)
  <2>2. /\ counts' = counts \cup {n} /\ last'.count = last.count + 1
        /\ today' = today /\ CountDateAllowed(fresh, date)
    BY <2>1 DEF SaveCount, TypeOK
  <2>3. p \in Product /\ n.product = p
    BY DEF TypeOK, NewCount
  <2>4. /\ Placed(counts \cup {n}, last.count + 1, today)
        /\ Derivable(CountsOf(p, counts) \cup {n})
    BY <2>2, <2>3, NewCountPlaced DEF Dates
  <2> HIDE DEF n
  <2>5. ASSUME NEW q \in Product PROVE Derivable(CountsOf(q, counts'))
    <3>1. CASE q = p
      <4>1. CountsOf(q, counts') = CountsOf(p, counts) \cup {n}
        BY <3>1, <2>2, <2>3 DEF CountsOf
      <4> QED
        BY <4>1, <2>4
    <3>2. CASE q # p
      <4>1. CountsOf(q, counts') = CountsOf(q, counts)
        BY <3>2, <2>2, <2>3 DEF CountsOf
      <4> QED
        BY <4>1 DEF CountInvariant
    <3> QED
      BY <3>1, <3>2
  <2> QED
    BY <2>2, <2>4, <2>5 DEF CountInvariant
<1>2. CASE NextDay
  <2>1. counts' = counts /\ last' = last /\ today' = today + 1
    BY <1>2 DEF NextDay, tables
  <2>2. today \in Nat
    BY DEF TypeOK, Dates
  <2>3. Placed(counts, last.count, today + 1)
    BY <2>2 DEF CountInvariant, Placed
  <2> QED
    BY <2>1, <2>3 DEF CountInvariant
<1>3. SetClockBack => FALSE
  BY DEF SetClockBack
<1>4. CASE \/ \E op \in Operation : RecordOperation(op)
           \/ \E f \in Z004 : ImportSettlement(f)
           \/ \E i \in imports : RollbackImport(i)
           \/ CreateSomeProduct
           \/ ImportSomeProducts
           \/ \E p \in DOMAIN products : StartLinking(p) \/ StopLinking(p)
           \/ UNCHANGED vars
  <2>1. CASE \E op \in Operation : RecordOperation(op)
    BY <2>1 DEF RecordOperation, TypeOK, CountInvariant
  <2>2. CASE \E f \in Z004 : ImportSettlement(f)
    BY <2>2 DEF ImportSettlement, TypeOK, CountInvariant
  <2>3. CASE \E i \in imports : RollbackImport(i)
    BY <2>3 DEF RollbackImport, CountInvariant
  <2>4. CASE CreateSomeProduct
    BY <2>4 DEF CreateSomeProduct, CreateProduct, TypeOK, CountInvariant
  <2>5. CASE \E p \in DOMAIN products : StartLinking(p) \/ StopLinking(p)
    BY <2>5 DEF StartLinking, StopLinking, CountInvariant
  <2>6. CASE UNCHANGED vars
    BY <2>6 DEF vars, tables, CountInvariant
  <2>7. CASE ImportSomeProducts
    <3>1. PICK f \in ProductFile : \E sent \in SUBSET DOMAIN f :
              ImportProducts(f, sent)
      BY <2>7 DEF ImportSomeProducts
    <3>2. counts' = counts /\ today' = today /\ last'.count = last.count
      BY <3>1 DEF ImportProducts, TypeOK
    <3> QED
      BY <3>2 DEF CountInvariant
  <2> QED
    BY <1>4, <2>1, <2>2, <2>3, <2>4, <2>5, <2>6, <2>7
<1> QED
  BY <1>1, <1>2, <1>3, <1>4 DEF Next

(* While the PC's clock is not set back, whatever counts the shop saves,    *)
(* fresh or for a day, in whatever order, some count of a product is always *)
(* the latest: effective_counts never meets a cycle and refuses the save.   *)
THEOREM CountsStayOrdered ==
    ASSUME ClockMayGoBack = FALSE
    PROVE  Spec => []CountsAreOrdered
<1>1. Init => TypeOK /\ CountInvariant
  <2>1. Init => CountInvariant
    BY DEF Init, CountInvariant, Placed, Derivable, CountsOf
  <2> QED
    BY <2>1, TypeInit
<1>2. TypeOK /\ CountInvariant /\ [Next]_vars => TypeOK' /\ CountInvariant'
  BY CountInvariantStep, TypeStep
<1>3. TypeOK /\ CountInvariant => CountsAreOrdered
  BY NewCountPlaced DEF CountsAreOrdered, TypeOK
<1> QED
  BY <1>1, <1>2, <1>3, PTL DEF Spec

-----------------------------------------------------------------------------
(* The range of a product to be rechecked. *)

(* No command leaves a product's counts without an effective one: the save  *)
(* that would is undone, whatever the clock says.                           *)
CountsAreDerivable == \A p \in Product : Derivable(CountsOf(p, counts))

LEMMA DerivableStep ==
    TypeOK /\ CountsAreDerivable /\ [Next]_vars => CountsAreDerivable'
<1> SUFFICES ASSUME TypeOK, CountsAreDerivable, [Next]_vars
             PROVE  CountsAreDerivable'
  OBVIOUS
<1>1. CASE UNCHANGED counts
  BY <1>1 DEF CountsAreDerivable
<1>2. CASE SaveSomeCount
  <2>1. PICK p \in DOMAIN products, value \in CountValue, fresh \in BOOLEAN,
             date \in 1..MaxDate : SaveCount(p, value, fresh, date)
    BY <1>2 DEF SaveSomeCount
  <2> DEFINE n == NewCount(p, value, fresh, date)
  <2>2. counts' = counts \cup {n} /\ n.product = p
    BY <2>1 DEF SaveCount, NewCount
  <2>3. Derivable(CountsOf(p, counts'))
    BY <2>1 DEF SaveCount, Recompute
  <2> HIDE DEF n
  <2>4. ASSUME NEW q \in Product, q # p
        PROVE  CountsOf(q, counts') = CountsOf(q, counts)
    BY <2>2, <2>4 DEF CountsOf
  <2> QED
    BY <2>3, <2>4 DEF CountsAreDerivable
<1>3. ASSUME ~SaveSomeCount PROVE UNCHANGED counts
  <2>1. CASE NextDay \/ SetClockBack \/ UNCHANGED vars
    BY <2>1 DEF NextDay, SetClockBack, vars, tables
  <2>2. CASE \/ \E op \in Operation : RecordOperation(op)
             \/ \E f \in Z004 : ImportSettlement(f)
             \/ \E i \in imports : RollbackImport(i)
             \/ \E p \in DOMAIN products : StartLinking(p) \/ StopLinking(p)
    BY <2>2 DEF RecordOperation, ImportSettlement, RollbackImport,
       StartLinking, StopLinking
  <2>3. CASE CreateSomeProduct
    BY <2>3 DEF CreateSomeProduct, CreateProduct
  <2>4. CASE ImportSomeProducts
    <3>1. PICK f \in ProductFile :
              \E sent \in SUBSET DOMAIN f : ImportProducts(f, sent)
      BY <2>4 DEF ImportSomeProducts
    <3> QED
      BY <3>1 DEF ImportProducts
  <2> QED
    BY <1>3, <2>1, <2>2, <2>3, <2>4 DEF Next
<1> QED
  BY <1>1, <1>2, <1>3

(* The numbers of a product's ledger can be summed and compared.            *)
LEMMA LedgerNumbers ==
    ASSUME TypeOK, RecordsInvariant, NEW p
    PROVE  /\ Summable(Ledger(p).movements) /\ IsFiniteSet(Ledger(p).counts)
           /\ \A c \in Ledger(p).counts :
                 c.value \in Int /\ c.id \in Int /\ c.fresh \in BOOLEAN
<1>1. /\ Ledger(p).movements = MovementsOf(p, movements)
      /\ Ledger(p).counts = CountsOf(p, counts)
  BY DEF Ledger, LedgerIn
<1>2. MovementsOf(p, movements) \in SUBSET movements
      /\ CountsOf(p, counts) \in SUBSET counts
  BY DEF MovementsOf, CountsOf
<1>3. Summable(movements) /\ IsFiniteSet(counts)
  BY RowsSummable DEF RecordsInvariant, RowsAreFinite
<1>4. \A c \in counts : c.value \in Int /\ c.id \in Int /\ c.fresh \in BOOLEAN
  BY ShopAssumption DEF TypeOK, CountRow
<1> QED
  BY <1>1, <1>2, <1>3, <1>4, SummableParts, FS_Subset

(* SPEC-STK-CNT-D3: for every shop, every history of its records and        *)
(* whatever the clock is set to, the range of a product is exactly the span *)
(* of the stocks its records allow, and a product without a range has one.  *)
THEOREM RangesAreExact == Spec => []RangeSpansPossibleStocks
<1>1. Init => CountsAreDerivable
  BY DEF Init, CountsAreDerivable, Derivable, CountsOf
<1>2. TypeOK /\ RecordsInvariant /\ CopyIsDerived /\ CountsAreDerivable
          => RangeSpansPossibleStocks
  <2> SUFFICES ASSUME TypeOK, RecordsInvariant, CopyIsDerived,
                      CountsAreDerivable, NEW p \in DOMAIN products,
                      CountsOf(p, counts) # {}
               PROVE  IF products[p].range = NoRange
                      THEN PossibleStocks(p) = {products[p].stock}
                      ELSE /\ products[p].range = <<Min(PossibleStocks(p)),
                                                    Max(PossibleStocks(p))>>
                           /\ products[p].stock \in PossibleStocks(p)
    BY DEF RangeSpansPossibleStocks
  <2> DEFINE L == Ledger(p)
             stocks == UNION {StocksFrom(c, L) : c \in Bases(L.counts)}
  <2>1. /\ L.counts = CountsOf(p, counts)
        /\ L.settlements = Settlements(imports)
    BY DEF Ledger, LedgerIn
  <2>2. EffectiveCounts(L.counts) # {}
    BY <2>1 DEF TypeOK, CountsAreDerivable, Derivable
  <2>3. IF Derive(L).range = NoRange
        THEN stocks = {Derive(L).stock}
        ELSE /\ Derive(L).range = <<Min(stocks), Max(stocks)>>
             /\ Derive(L).stock \in stocks
    <3>1. /\ Summable(L.movements) /\ IsFiniteSet(L.counts)
          /\ \A c \in L.counts :
                c.value \in Int /\ c.id \in Int /\ c.fresh \in BOOLEAN
      BY LedgerNumbers
    <3> HIDE DEF L
    <3> QED
      BY <2>1, <2>2, <3>1, DerivedSpans
  <2>4. PossibleStocks(p) = stocks
    BY <2>1 DEF PossibleStocks, StocksFrom, Sure, Open
  <2>5. /\ products[p].stock = Derive(L).stock
        /\ products[p].range = Derive(L).range
    BY DEF CopyIsDerived
  <2> HIDE DEF stocks, L
  <2> QED
    BY <2>3, <2>4, <2>5
<1> QED
  BY <1>1, <1>2, DerivableStep, TypeCorrect, RecordsInvariance,
     CopyStaysDerived, PTL DEF Spec

-----------------------------------------------------------------------------
(* What a fresh count settles. *)

(* The cursor of a fresh count that has seen every import is the largest    *)
(* number of the active settlements.                                        *)
LEMMA CursorCoversActive ==
    ASSUME TypeOK, RecordsInvariant, NEW c, c.fresh,
           c.seenImport = last.import
    PROVE  \A i \in Active(imports) :
              i.no <= UsableCursor(c, Settlements(imports))
<1> DEFINE seen == {s.no : s \in {t \in Settlements(imports) :
                                     t.import <= c.seenImport}}
           no == [i \in Active(imports) |-> i.no]
<1>1. \A i \in imports : i.no \in Nat /\ i.id <= last.import
  BY DEF TypeOK, ImportRow, RecordsInvariant, IdsAreGivenOut
<1>2. Active(imports) \subseteq imports
  BY DEF Active
<1>3. seen = {no[i] : i \in Active(imports)}
  <2>1. ASSUME NEW i \in Active(imports) PROVE no[i] \in seen
    <3>1. [import |-> i.id, no |-> i.no, date |-> i.date]
            \in {t \in Settlements(imports) : t.import <= c.seenImport}
      BY <1>1, <1>2 DEF Settlements
    <3> QED
      BY <3>1
  <2>2. ASSUME NEW k \in seen PROVE \E i \in Active(imports) : k = no[i]
    BY DEF Settlements
  <2> HIDE DEF seen, no
  <2> QED
    BY <2>1, <2>2
<1>4. IsFiniteSet(seen) /\ seen \in SUBSET Int
  <2>1. IsFiniteSet(Active(imports))
    BY <1>2, FS_Subset DEF RecordsInvariant, RowsAreFinite
  <2>2. IsFiniteSet({no[i] : i \in Active(imports)})
    <3> DOMAIN no = Active(imports)
      OBVIOUS
    <3> HIDE DEF no
    <3> QED
      BY <2>1, ImageIsFinite
  <2>3. \A i \in Active(imports) : no[i] \in Int
    BY <1>1, <1>2
  <2> HIDE DEF seen, no
  <2> QED
    BY <1>3, <2>2, <2>3
<1> SUFFICES ASSUME NEW i \in Active(imports)
             PROVE  i.no <= UsableCursor(c, Settlements(imports))
  OBVIOUS
<1>5. i.no \in seen
  <2>1. no[i] = i.no
    OBVIOUS
  <2> HIDE DEF seen, no
  <2> QED
    BY <1>3, <2>1
<1>6. UsableCursor(c, Settlements(imports)) = Max(seen)
  BY <1>5 DEF UsableCursor, SettlementNoWithin
<1> HIDE DEF seen
<1>7. Max(seen) \in seen /\ Max(seen) >= i.no
  BY <1>4, <1>5, ExtremesExist
<1>8. Max(seen) \in Int /\ i.no \in Int
  BY <1>4, <1>5, <1>7
<1> QED
  BY <1>6, <1>7, <1>8

(* Every record of the product precedes a fresh count that is saved now.    *)
LEMMA NewFreshCountContains ==
    ASSUME TypeOK, RecordsInvariant, NEW p, NEW n, n.fresh,
           n.seenMovement = last.movement, n.seenImport = last.import
    PROVE  /\ \A m \in MovementsOf(p, movements) :
                 Included(n, m, Settlements(imports))
           /\ \A s \in Settlements(imports) :
                 SettlementIncluded(n, s, Settlements(imports))
<1>1. \A i \in Active(imports) : i.no <= UsableCursor(n, Settlements(imports))
  BY CursorCoversActive
<1>2. ASSUME NEW s \in Settlements(imports)
      PROVE  SettlementIncluded(n, s, Settlements(imports))
  BY <1>1 DEF Settlements, SettlementIncluded
<1>3. ASSUME NEW m \in MovementsOf(p, movements)
      PROVE  Included(n, m, Settlements(imports))
  <2>1. m \in movements /\ ~m.voided
    BY DEF MovementsOf
  <2>2. m.id <= n.seenMovement
    BY <2>1 DEF RecordsInvariant, IdsAreGivenOut
  <2>3. CASE m.settlement = NoSettlement
    BY <2>2, <2>3 DEF Included
  <2>4. CASE m.settlement # NoSettlement
    <3>1. PICK i \in imports : i.id = m.import
      BY <2>1, <2>4 DEF RecordsInvariant, MovementsBelong
    <3>2. m.voided = i.rolledBack /\ m.settlement = i.no
      BY <2>1, <3>1 DEF RecordsInvariant, RowsFollowImports
    <3>3. i \in Active(imports)
      BY <2>1, <3>2 DEF Active
    <3> QED
      BY <1>1, <2>4, <3>2, <3>3 DEF Included, SettlementIncluded, AsSettlement
  <2> QED
    BY <2>3, <2>4
<1> QED
  BY <1>2, <1>3

LEMMA FreshCountStep ==
    ASSUME TypeOK, RecordsInvariant, NEW p \in DOMAIN products,
           NEW value \in CountValue, NEW date, SaveCount(p, value, TRUE, date)
    PROVE  /\ products'[p].stock = value
           /\ products'[p].range = NoRange
<1> DEFINE n == NewCount(p, value, TRUE, date)
           L == LedgerIn(p, counts', movements', imports', sales')
<1>1. /\ n.id = last.count + 1 /\ n.product = p /\ n.value = value
      /\ n.fresh /\ n.seenMovement = last.movement
      /\ n.seenImport = last.import
  BY DEF NewCount
<1>2. /\ counts' = counts \cup {n}
      /\ UNCHANGED <<movements, imports>>
      /\ Recompute(products, {p})
  BY DEF SaveCount
<1>3. /\ L.counts = CountsOf(p, counts')
      /\ L.movements = MovementsOf(p, movements)
      /\ L.settlements = Settlements(imports)
  BY <1>2 DEF LedgerIn
<1> HIDE DEF n
<1>4. n \in L.counts /\ n.value \in Int /\ n.id \in Int
  <2>1. n \in CountsOf(p, counts')
    BY <1>1, <1>2 DEF CountsOf
  <2>2. value \in Int /\ last.count \in Int
    BY ShopAssumption DEF TypeOK
  <2> QED
    BY <1>1, <1>3, <2>1, <2>2
<1>5. ASSUME NEW c \in L.counts
      PROVE  ~IsAfter(c, n) /\ (c = n \/ IsAfter(n, c))
  <2>1. c \in counts \/ c = n
    BY <1>2, <1>3 DEF CountsOf
  <2>2. CASE c \in counts
    <3>1. c.id \in Nat /\ c.id <= last.count /\ last.count \in Nat
          /\ c.fresh \in BOOLEAN
      BY <2>2 DEF TypeOK, CountRow, RecordsInvariant, IdsAreGivenOut
    <3>2. c.id < n.id /\ ~(n.id < c.id)
      BY <1>1, <3>1
    <3> QED
      BY <1>1, <3>1, <3>2 DEF IsAfter
  <2>3. CASE c = n
    BY <1>1, <1>4, <2>3 DEF IsAfter
  <2> QED
    BY <2>1, <2>2, <2>3
<1>6. /\ \A m \in L.movements : Included(n, m, L.settlements)
      /\ \A s \in L.settlements : SettlementIncluded(n, s, L.settlements)
  <2>1. /\ \A m \in MovementsOf(p, movements) :
               Included(n, m, Settlements(imports))
        /\ \A s \in Settlements(imports) :
               SettlementIncluded(n, s, Settlements(imports))
    BY <1>1, NewFreshCountContains
  <2> QED
    BY <1>3, <2>1
<1>7. Derive(L).stock = n.value /\ Derive(L).range = NoRange
  <2> HIDE DEF L
  <2> QED
    BY <1>4, <1>5, <1>6, LatestContainsAll
<1>8. products'[p] = [products[p] EXCEPT !.stock = Derive(L).stock,
                                         !.range = Derive(L).range]
  <2>1. p \in {p} /\ p \in DOMAIN products
    OBVIOUS
  <2>2. PICK derived \in {[q \in {p} |->
               Derive(LedgerIn(q, counts', movements', imports', sales'))]} :
            products' = [q \in DOMAIN products |->
                IF q \in {p} THEN [products[q] EXCEPT !.stock = derived[q].stock,
                                                    !.range = derived[q].range]
                             ELSE products[q]]
    BY <1>2 DEF Recompute
  <2>3. derived[p] = Derive(L)
    BY <2>2
  <2> HIDE DEF L
  <2> QED
    BY <2>1, <2>2, <2>3
<1>9. products[p] \in ProductRow
  BY DEF TypeOK
<1> HIDE DEF L
<1> QED
  BY <1>1, <1>7, <1>8, <1>9 DEF ProductRow

(* Only the saving of a count adds one. *)
LEMMA OnlySavesAdd ==
    ASSUME [Next]_vars, NEW c \in counts' \ counts
    PROVE  \E p \in DOMAIN products, value \in CountValue, fresh \in BOOLEAN,
              date \in 1..MaxDate :
              /\ SaveCount(p, value, fresh, date)
              /\ c = NewCount(p, value, fresh, date)
<1>1. CASE SaveSomeCount
  BY <1>1 DEF SaveSomeCount, SaveCount
<1>2. ASSUME ~SaveSomeCount PROVE UNCHANGED counts
  <2>1. CASE NextDay \/ SetClockBack \/ UNCHANGED vars
    BY <2>1 DEF NextDay, SetClockBack, vars, tables
  <2>2. CASE \/ \E op \in Operation : RecordOperation(op)
             \/ \E f \in Z004 : ImportSettlement(f)
             \/ \E i \in imports : RollbackImport(i)
             \/ \E p \in DOMAIN products : StartLinking(p) \/ StopLinking(p)
    BY <2>2 DEF RecordOperation, ImportSettlement, RollbackImport,
       StartLinking, StopLinking
  <2>3. CASE CreateSomeProduct
    BY <2>3 DEF CreateSomeProduct, CreateProduct
  <2>4. CASE ImportSomeProducts
    <3>1. PICK f \in ProductFile :
              \E sent \in SUBSET DOMAIN f : ImportProducts(f, sent)
      BY <2>4 DEF ImportSomeProducts
    <3> QED
      BY <3>1 DEF ImportProducts
  <2> QED
    BY <1>2, <2>1, <2>2, <2>3, <2>4 DEF Next
<1> QED
  BY <1>1, <1>2

(* SPEC-STK-CNT-D5: in every shop, after any history, counting now settles  *)
(* the product: the new count comes after every other and contains every    *)
(* record, so the stock is what was counted and nothing is to be rechecked. *)
THEOREM FreshCountsSettle == Spec => FreshCountSettles
<1>1. TypeOK /\ RecordsInvariant /\ [Next]_vars =>
          \A c \in counts' \ counts : c.fresh =>
              /\ products'[c.product].stock = c.value
              /\ products'[c.product].range = NoRange
  <2> SUFFICES ASSUME TypeOK, RecordsInvariant, [Next]_vars,
                      NEW c \in counts' \ counts, c.fresh
               PROVE  /\ products'[c.product].stock = c.value
                      /\ products'[c.product].range = NoRange
    OBVIOUS
  <2>1. PICK p \in DOMAIN products, value \in CountValue, fresh \in BOOLEAN,
             date \in 1..MaxDate :
            /\ SaveCount(p, value, fresh, date)
            /\ c = NewCount(p, value, fresh, date)
    BY OnlySavesAdd
  <2>2. c.product = p /\ c.value = value /\ fresh = TRUE
    BY <2>1 DEF NewCount
  <2> QED
    BY <2>1, <2>2, FreshCountStep
<1> QED
  BY <1>1, TypeCorrect, RecordsInvariance, PTL DEF Spec, FreshCountSettles

-----------------------------------------------------------------------------
(* A settlement that is imported again. *)

(* An import is of one of the files, and of no day to come; what a fresh    *)
(* count has seen is of no later day than the count.                        *)
ImportsAreOfFiles ==
    \A i \in imports :
        /\ i.date <= today
        /\ \E f \in Z004 : i.hash = f.hash /\ i.no = f.no /\ i.date = f.date

FreshCountsSawEarlier ==
    \A c \in counts, i \in imports :
        c.fresh /\ i.id <= c.seenImport => i.date <= c.date

SeenInvariant == ImportsAreOfFiles /\ FreshCountsSawEarlier

LEMMA SeenStep ==
    ASSUME ~SetClockBack, RegisterLead = 0,
           TypeOK, RecordsInvariant, SeenInvariant, [Next]_vars
    PROVE  SeenInvariant'
<1>1. \A c \in counts : c.seenImport \in Nat /\ c.seenImport <= last.import
  BY DEF TypeOK, CountRow, RecordsInvariant, IdsAreGivenOut
<1>2. today \in Nat /\ last.import \in Nat
  BY DEF TypeOK, Dates
<1>3. \A i \in imports : i.date \in Nat
  BY DEF TypeOK, ImportRow
<1>4. CASE SaveSomeCount
  <2>1. PICK p \in DOMAIN products, value \in CountValue, fresh \in BOOLEAN,
             date \in 1..MaxDate : SaveCount(p, value, fresh, date)
    BY <1>4 DEF SaveSomeCount
  <2> DEFINE n == NewCount(p, value, fresh, date)
  <2>2. /\ counts' = counts \cup {n} /\ imports' = imports /\ today' = today
        /\ n.fresh => n.date = today
    BY <2>1 DEF SaveCount, NewCount, CountDateAllowed
  <2> HIDE DEF n
  <2> QED
    BY <2>2 DEF SeenInvariant, ImportsAreOfFiles, FreshCountsSawEarlier
<1>5. CASE \E f \in Z004 : ImportSettlement(f)
  <2>1. PICK f \in Z004 : ImportSettlement(f)
    BY <1>5
  <2> DEFINE new == [id |-> last.import + 1, hash |-> f.hash,
                     machine |-> f.machine, no |-> f.no, date |-> f.date,
                     rolledBack |-> FALSE]
  <2>2. /\ imports' = imports \cup {new} /\ counts' = counts /\ today' = today
        /\ f.date <= today
    BY <1>2, <2>1, FilesAssumption DEF ImportSettlement
  <2>3. /\ new.hash = f.hash /\ new.no = f.no /\ new.date = f.date
        /\ \A c \in counts : ~(new.id <= c.seenImport)
    BY <1>1, <1>2
  <2> HIDE DEF new
  <2> QED
    BY <2>2, <2>3 DEF SeenInvariant, ImportsAreOfFiles, FreshCountsSawEarlier
<1>6. CASE \E i \in imports : RollbackImport(i)
  <2>1. PICK import \in imports : RollbackImport(import)
    BY <1>6
  <2>2. /\ imports' = {[i EXCEPT !.rolledBack = @ \/ i.id = import.id]
                          : i \in imports}
        /\ counts' = counts /\ today' = today
    BY <2>1 DEF RollbackImport
  <2>3. ASSUME NEW j \in imports'
        PROVE  \E i \in imports : /\ j.id = i.id /\ j.no = i.no
                                  /\ j.hash = i.hash /\ j.date = i.date
    BY <2>2 DEF TypeOK, ImportRow
  <2> QED
    BY <2>2, <2>3 DEF SeenInvariant, ImportsAreOfFiles, FreshCountsSawEarlier
<1>7. CASE NextDay
  <2>1. counts' = counts /\ imports' = imports /\ today' = today + 1
    BY <1>7 DEF NextDay, tables
  <2>2. \A i \in imports : i.date <= today => i.date <= today'
    BY <1>2, <1>3, <2>1
  <2> QED
    BY <2>1, <2>2 DEF SeenInvariant, ImportsAreOfFiles, FreshCountsSawEarlier
<1>9. CASE UNCHANGED <<counts, imports, today>>
  BY <1>9 DEF SeenInvariant, ImportsAreOfFiles, FreshCountsSawEarlier
<1>10. CASE \/ \E op \in Operation : RecordOperation(op)
            \/ \E p \in DOMAIN products : StartLinking(p) \/ StopLinking(p)
            \/ UNCHANGED vars
  BY <1>9, <1>10 DEF RecordOperation, StartLinking, StopLinking, vars, tables
<1>11. CASE CreateSomeProduct
  BY <1>9, <1>11 DEF CreateSomeProduct, CreateProduct
<1>12. CASE ImportSomeProducts
  <2>1. PICK f \in ProductFile :
            \E sent \in SUBSET DOMAIN f : ImportProducts(f, sent)
    BY <1>12 DEF ImportSomeProducts
  <2> QED
    BY <1>9, <2>1 DEF ImportProducts
<1> QED
  BY <1>4, <1>5, <1>6, <1>7, <1>10, <1>11, <1>12 DEF Next

(* SPEC-STK-CNT-D7: where the hash tells the files apart, the PC's clock is  *)
(* not set back and the register's is not ahead of it, a file a fresh count *)
(* had seen is contained in the count or shown for a recheck once it is     *)
(* imported again: it is of no later day than the count.                    *)
THEOREM ReimportsAreSeen ==
    ASSUME ClockMayGoBack = FALSE, RegisterLead = 0,
           \A f, g \in Z004 : f.hash = g.hash => f = g
    PROVE  Spec => []ReimportIsNeverTakenTwice
<1>1. Init => SeenInvariant
  BY DEF Init, SeenInvariant, ImportsAreOfFiles, FreshCountsSawEarlier
<1>2. TypeOK /\ RecordsInvariant /\ SeenInvariant /\ [Next]_vars
          => SeenInvariant'
  BY SeenStep DEF SetClockBack
<1>3. TypeOK /\ SeenInvariant => ReimportIsNeverTakenTwice
  <2> SUFFICES ASSUME TypeOK, SeenInvariant, NEW c \in counts,
                      NEW i \in imports, NEW j \in Active(imports),
                      c.fresh, i.id <= c.seenImport, i.hash = j.hash
               PROVE  LET s == [no |-> j.no, date |-> j.date]
                      IN  \/ SettlementIncluded(c, s, Settlements(imports))
                          \/ SettlementUndetermined(c, s, Settlements(imports))
    BY DEF ReimportIsNeverTakenTwice
  <2> DEFINE s == [no |-> j.no, date |-> j.date]
  <2>1. j \in imports
    BY DEF Active
  <2>2. i.date = j.date
    BY <2>1 DEF SeenInvariant, ImportsAreOfFiles
  <2>3. i.date <= c.date
    BY DEF SeenInvariant, FreshCountsSawEarlier
  <2>4. s.date < c.date \/ s.date = c.date
    <3>1. j.date \in Nat /\ c.date \in Nat
      BY <2>1 DEF TypeOK, ImportRow, CountRow, Dates
    <3> QED
      BY <2>2, <2>3, <3>1
  <2> HIDE DEF s
  <2> QED
    BY <2>4 DEF SettlementIncluded, SettlementUndetermined, s
<1> QED
  BY <1>1, <1>2, <1>3, TypeCorrect, RecordsInvariance, PTL DEF Spec

=============================================================================
