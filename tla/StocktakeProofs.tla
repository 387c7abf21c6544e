-------------------------- MODULE StocktakeProofs --------------------------
(***************************************************************************)
(* Theorems about Stocktake: the items of a stocktake in progress, and what  *)
(* the record of a completed one shows when it is read again.               *)
(***************************************************************************)
EXTENDS Stocktake, InventoryRecordsProofs

-----------------------------------------------------------------------------
(* The records, with the commands of the stocktakes. *)

(* Of the steps of the stocktakes only the counts of 0 are not steps of the *)
(* records by themselves.                                                   *)
LEMMA RecordsMove ==
    ASSUME [StocktakeNext]_allVars
    PROVE  [Next]_vars \/ ZeroSomeUncounted
<1>1. ASSUME RecordsOnly PROVE [Next]_vars
  BY <1>1 DEF RecordsOnly, Next
<1>2. ASSUME SaveSomeItemCount PROVE SaveSomeCount
  BY <1>2 DEF SaveSomeItemCount, SaveItemCount, SaveSomeCount
<1>3. ASSUME CreateSomeListedProduct PROVE CreateSomeProduct
  BY <1>3 DEF CreateSomeListedProduct, CreateListedProduct, CreateSomeProduct
<1>4. ASSUME ImportSomeListedProducts PROVE ImportSomeProducts
  BY <1>4 DEF ImportSomeListedProducts, ImportListedProducts, ImportSomeProducts
<1>5. ASSUME \/ StartStocktake
             \/ \E n \in DOMAIN stocktakes : CompleteStocktake(n)
             \/ \E p \in DOMAIN products : ToggleDiscontinue(p)
             \/ UNCHANGED allVars
      PROVE  UNCHANGED vars
  BY <1>5 DEF StartStocktake, CompleteStocktake, ToggleDiscontinue, allVars
<1> QED
  BY <1>1, <1>2, <1>3, <1>4, <1>5 DEF StocktakeNext, Next

(* The counts of 0 are new rows with the next ids.                          *)
ZeroCount(P, date, p) ==
    [id |-> last.count + Rank(p, P), product |-> p, value |-> 0, fresh |-> FALSE,
     date |-> date, seenMovement |-> 0, seenImport |-> 0]

LEMMA ZeroCounts ==
    ASSUME TypeOK, NEW P \in SUBSET DOMAIN products, NEW date \in 1..MaxDate,
           ZeroUncounted(P, date)
    PROVE  /\ IsFiniteSet(P) /\ P \in SUBSET Product /\ Cardinality(P) \in Nat
           /\ \A p \in P : Rank(p, P) \in 1..Cardinality(P)
           /\ counts' = counts \cup {ZeroCount(P, date, p) : p \in P}
           /\ last.count + Cardinality(P) <= MaxCount
           /\ last' = [last EXCEPT !.count = last.count + Cardinality(P)]
           /\ UNCHANGED <<today, movements, imports, sales, discontinued>>
           /\ Recompute(products, P) /\ stocktakes' = Counted(P)
<1>1. P \in SUBSET Product /\ P \in SUBSET Nat /\ IsFiniteSet(P)
  <2>1. P \in SUBSET Product /\ IsFiniteSet(Product) /\ Product \in SUBSET Nat
    BY ShopAssumption DEF TypeOK
  <2> QED
    BY <2>1, FS_Subset
<1>2. Cardinality(P) \in Nat /\ \A p \in P : Rank(p, P) \in 1..Cardinality(P)
  BY <1>1, RankIsIndex, FS_CardinalityType
<1>3. ASSUME NEW p
      PROVE  [NewCount(p, 0, FALSE, date) EXCEPT !.id = last.count + Rank(p, P)]
                 = ZeroCount(P, date, p)
  <2> DEFINE row == [id |-> last.count + 1, product |-> p, value |-> 0,
                     fresh |-> FALSE, date |-> date, seenMovement |-> 0,
                     seenImport |-> 0]
             id == last.count + Rank(p, P)
  <2>1. NewCount(p, 0, FALSE, date) = row
    BY DEF NewCount
  <2>2. row \in [id : {last.count + 1}, product : {p}, value : {0}, fresh : {FALSE},
                 date : {date}, seenMovement : {0}, seenImport : {0}]
    OBVIOUS
  <2> HIDE DEF row, id
  <2>3. [row EXCEPT !.id = id] \in
            [id : {id}, product : {p}, value : {0}, fresh : {FALSE},
             date : {date}, seenMovement : {0}, seenImport : {0}]
    BY <2>2
  <2> DEFINE z == [row EXCEPT !.id = id]
  <2>4. z = [id |-> z.id, product |-> z.product, value |-> z.value, fresh |-> z.fresh,
             date |-> z.date, seenMovement |-> z.seenMovement,
             seenImport |-> z.seenImport]
    BY <2>3
  <2>5. /\ z.id = id /\ z.product = p /\ z.value = 0 /\ z.fresh = FALSE
        /\ z.date = date /\ z.seenMovement = 0 /\ z.seenImport = 0
    BY <2>3
  <2> HIDE DEF z
  <2>6. z = ZeroCount(P, date, p)
    BY <2>4, <2>5 DEF ZeroCount, id
  <2> QED
    BY <2>1, <2>6 DEF z, id
<1>4. counts' = counts \cup
          {[NewCount(p, 0, FALSE, date) EXCEPT !.id = last.count + Rank(p, P)] : p \in P}
  BY DEF ZeroUncounted, Rank
<1>5. counts' = counts \cup {ZeroCount(P, date, p) : p \in P}
  BY <1>3, <1>4
<1>6. /\ last.count + Cardinality(P) <= MaxCount
      /\ last' = [last EXCEPT !.count = last.count + Cardinality(P)]
      /\ UNCHANGED <<today, movements, imports, sales, discontinued>>
      /\ Recompute(products, P) /\ stocktakes' = Counted(P)
  BY DEF ZeroUncounted
<1> QED
  BY <1>1, <1>2, <1>5, <1>6

LEMMA ZeroTyped ==
    ASSUME TypeOK, NEW P \in SUBSET DOMAIN products, NEW date \in 1..MaxDate,
           ZeroUncounted(P, date)
    PROVE  TypeOK'
<1>1. last.count \in Nat /\ Cardinality(P) \in Nat
      /\ last.count + Cardinality(P) <= MaxCount
  BY ZeroCounts DEF TypeOK
<1>2. ASSUME NEW p \in P PROVE ZeroCount(P, date, p) \in CountRow
  <2>1. Rank(p, P) \in 1..Cardinality(P) /\ p \in Product
    BY ZeroCounts
  <2>2. last.count + Rank(p, P) \in 1..MaxCount
    BY <1>1, <2>1, BoundsAssumption
  <2> QED
    BY <2>1, <2>2, BoundsAssumption DEF ZeroCount, CountRow, Dates
<1>3. counts' \subseteq CountRow
  BY <1>2, ZeroCounts DEF TypeOK
<1>4. last' \in [count : 0..MaxCount, movement : 0..MaxMovement, import : 0..MaxImport]
  BY <1>1, BoundsAssumption, ZeroCounts DEF TypeOK
<1>5. DOMAIN products' \subseteq Product
      /\ products' \in [DOMAIN products' -> ProductRow]
  BY RecomputeTyped, ZeroCounts DEF TypeOK
<1> QED
  BY <1>3, <1>4, <1>5, ZeroCounts DEF TypeOK

LEMMA ZeroCopies ==
    ASSUME TypeOK, CopyIsDerived, NEW P \in SUBSET DOMAIN products,
           NEW date \in 1..MaxDate, ZeroUncounted(P, date)
    PROVE  CopyIsDerived'
<1>1. Recompute(products, P) /\ imports' = imports /\ sales' = sales
      /\ movements' = movements
      /\ counts' = counts \cup {ZeroCount(P, date, p) : p \in P}
  BY ZeroCounts
<1>2. ASSUME NEW q \in DOMAIN products, q \notin P
      PROVE  Derive(Ledger(q))' = Derive(Ledger(q))
  <2>1. \A p \in P : ZeroCount(P, date, p).product = p
    BY DEF ZeroCount
  <2>2. CountsOf(q, counts') = CountsOf(q, counts)
    BY <1>1, <1>2, <2>1 DEF CountsOf
  <2>3. MovementsOf(q, movements') = MovementsOf(q, movements)
    BY <1>1
  <2> QED
    BY <1>1, <2>2, <2>3, SameLedger
<1> QED
  BY <1>1, <1>2, ProductFields, CopyAfterRecompute

LEMMA ZeroAgrees ==
    ASSUME TypeOK, RecordsInvariant, NEW P \in SUBSET DOMAIN products,
           NEW date \in 1..MaxDate, ZeroUncounted(P, date)
    PROVE  RecordsInvariant'
<1> DEFINE zero == [p \in P |-> ZeroCount(P, date, p)]
<1>1. /\ counts' = counts \cup {zero[p] : p \in P}
      /\ UNCHANGED <<movements, imports, sales>>
      /\ last' = [last EXCEPT !.count = last.count + Cardinality(P)]
      /\ IsFiniteSet(P) /\ Cardinality(P) \in Nat
  BY ZeroCounts
<1>2. /\ last.count \in Nat /\ last.movement \in Nat /\ last.import \in Nat
      /\ last'.count = last.count + Cardinality(P)
      /\ last'.movement = last.movement /\ last'.import = last.import
  BY <1>1 DEF TypeOK
<1>3. RowsAreFinite'
  <2>1. IsFiniteSet({zero[p] : p \in P})
    <3> DOMAIN zero = P
      OBVIOUS
    <3> HIDE DEF zero
    <3> QED
      BY <1>1, ImageIsFinite
  <2>2. IsFiniteSet(counts')
    <3> HIDE DEF zero
    <3> QED
      BY <1>1, <2>1, FS_Union DEF RecordsInvariant, RowsAreFinite
  <2> QED
    BY <1>1, <2>2 DEF RecordsInvariant, RowsAreFinite
<1>4. IdsAreGivenOut'
  <2>1. ASSUME NEW p \in P
        PROVE  /\ zero[p].id <= last'.count /\ zero[p].seenMovement <= last'.movement
               /\ zero[p].seenImport <= last'.import
    <3>1. Rank(p, P) \in 1..Cardinality(P)
      BY ZeroCounts
    <3> QED
      BY <1>1, <1>2, <3>1 DEF ZeroCount
  <2>2. ASSUME NEW c \in counts
        PROVE  c.id <= last'.count
    <3>1. c.id \in Nat /\ c.id <= last.count
      BY DEF TypeOK, CountRow, RecordsInvariant, IdsAreGivenOut
    <3> QED
      BY <1>1, <1>2, <3>1
  <2> HIDE DEF zero
  <2> QED
    BY <1>1, <1>2, <2>1, <2>2 DEF RecordsInvariant, IdsAreGivenOut
<1>5. MovementsBelong' /\ RowsFollowImports'
  BY <1>1 DEF RecordsInvariant, MovementsBelong, RowsFollowImports
<1>6. SumsAgree'
  BY <1>1 DEF RecordsInvariant, SumsAgree, ImportedMovements, LinkedSales
<1> QED
  BY <1>3, <1>4, <1>5, <1>6 DEF RecordsInvariant

(* What the theorems below need of the records; an import has an id of its  *)
(* own.                                                                     *)
ImportIdsDiffer == \A i, j \in imports : i.id = j.id => i = j

RecordsHold ==
    /\ TypeOK /\ CopyIsDerived /\ RecordsInvariant /\ SettlementsFormOneAxis
    /\ ImportIdsDiffer

LEMMA IdsStep ==
    ASSUME TypeOK, RecordsInvariant, ImportIdsDiffer, [Next]_vars
    PROVE  ImportIdsDiffer'
<1>1. CASE imports' = imports
  BY <1>1 DEF ImportIdsDiffer
<1>2. CASE \E f \in Z004 : ImportSettlement(f)
  <2>1. PICK f \in Z004 : ImportSettlement(f)
    BY <1>2
  <2> DEFINE new == [id |-> last.import + 1, hash |-> f.hash, machine |-> f.machine,
                     no |-> f.no, date |-> f.date, rolledBack |-> FALSE]
  <2>2. imports' = imports \cup {new} /\ new.id = last.import + 1
    BY <2>1 DEF ImportSettlement
  <2>3. \A i \in imports : i.id # last.import + 1
    BY DEF TypeOK, ImportRow, RecordsInvariant, IdsAreGivenOut
  <2> HIDE DEF new
  <2> QED
    BY <2>2, <2>3 DEF ImportIdsDiffer
<1>3. CASE \E i \in imports : RollbackImport(i)
  <2>1. PICK r \in imports : RollbackImport(r)
    BY <1>3
  <2>2. imports' = {[i EXCEPT !.rolledBack = @ \/ i.id = r.id] : i \in imports}
    BY <2>1 DEF RollbackImport
  <2> DEFINE marked(i) == [i EXCEPT !.rolledBack = @ \/ i.id = r.id]
  <2>3. ASSUME NEW i \in imports PROVE marked(i).id = i.id
    BY DEF TypeOK, ImportRow
  <2>4. imports' = {marked(i) : i \in imports}
    BY <2>2
  <2> HIDE DEF marked
  <2> QED
    BY <2>3, <2>4 DEF ImportIdsDiffer
<1> QED
  BY <1>1, <1>2, <1>3, ImportsChange

LEMMA RecordsHoldStep ==
    ASSUME RecordsHold, [StocktakeNext]_allVars
    PROVE  RecordsHold'
<1>1. CASE [Next]_vars
  <2>1. TypeOK' /\ CopyIsDerived' /\ RecordsInvariant' /\ SettlementsFormOneAxis'
    BY <1>1, TypeStep, CopyStep, RecordsStep, AxisStep DEF RecordsHold
  <2>2. ImportIdsDiffer'
    BY <1>1, IdsStep DEF RecordsHold
  <2> QED
    BY <2>1, <2>2 DEF RecordsHold
<1>2. CASE ZeroSomeUncounted
  <2>1. PICK P \in (SUBSET DOMAIN products) \ {{}}, date \in 1..MaxDate :
            ZeroUncounted(P, date)
    BY <1>2 DEF ZeroSomeUncounted
  <2>2. TypeOK' /\ CopyIsDerived' /\ RecordsInvariant'
    BY <2>1, ZeroTyped, ZeroCopies, ZeroAgrees DEF RecordsHold
  <2>3. imports' = imports
    BY <2>1 DEF ZeroUncounted
  <2>4. SettlementsFormOneAxis' /\ ImportIdsDiffer'
    BY <2>3 DEF RecordsHold, SettlementsFormOneAxis, ImportIdsDiffer, Active
  <2> QED
    BY <2>2, <2>4 DEF RecordsHold
<1> QED
  BY <1>1, <1>2, RecordsMove

LEMMA RecordsHoldInit == StocktakeInit => RecordsHold
<1> SUFFICES ASSUME StocktakeInit PROVE RecordsHold
  OBVIOUS
<1>1. Init
  BY DEF StocktakeInit
<1>2. SettlementsFormOneAxis /\ ImportIdsDiffer
  BY <1>1 DEF Init, SettlementsFormOneAxis, ImportIdsDiffer, Active
<1> QED
  BY <1>1, <1>2, TypeInit, CopyInit, RecordsInit DEF RecordsHold

LEMMA RecordsAlwaysHold == StocktakeSpec => []RecordsHold
  BY RecordsHoldInit, RecordsHoldStep, PTL DEF StocktakeSpec

(* SPEC-STK-CNT-D2, with the commands of the stocktakes: also while items   *)
(* are counted as 0 and products join a stocktake, the copy is derived.     *)
THEOREM CopyStaysDerivedInStocktakes == StocktakeSpec => []CopyIsDerived
  BY RecordsAlwaysHold, PTL DEF RecordsHold

-----------------------------------------------------------------------------
(* The stocktakes. *)
Item == [counted : BOOLEAN, valuation : Nat]

ItemLists == UNION {[P -> Item] : P \in SUBSET Product}

StocktakeRow ==
    [completed : 0..MaxDate, items : ItemLists,
     cutoff : [count : 0..MaxCount, movement : 0..MaxMovement, import : 0..MaxImport]]

(* At most one stocktake is in progress, and lists the products of the shop; *)
(* a completed one took the ids given out by then.                          *)
ActiveOnce == \A m, n \in ActiveStocktakes : m = n

ActiveListsProducts ==
    \A n \in ActiveStocktakes : DOMAIN stocktakes[n].items = DOMAIN products

CutoffsGivenOut ==
    \A n \in DOMAIN stocktakes :
        /\ stocktakes[n].cutoff.count <= last.count
        /\ stocktakes[n].cutoff.movement <= last.movement
        /\ stocktakes[n].cutoff.import <= last.import

StocktakesHold ==
    /\ stocktakes \in Seq(StocktakeRow)
    /\ ActiveOnce /\ ActiveListsProducts /\ CutoffsGivenOut

LEMMA StocktakeFields ==
    ASSUME stocktakes \in Seq(StocktakeRow), NEW n \in DOMAIN stocktakes
    PROVE  LET st == stocktakes[n]
           IN  /\ st \in StocktakeRow
               /\ st = [completed |-> st.completed, items |-> st.items,
                        cutoff |-> st.cutoff]
               /\ st.completed \in 0..MaxDate
               /\ st.cutoff.count \in Nat /\ st.cutoff.movement \in Nat
               /\ st.cutoff.import \in Nat
               /\ DOMAIN st.items \subseteq Product
               /\ st.items \in [DOMAIN st.items -> Item]
<1> DEFINE st == stocktakes[n]
<1>1. st \in StocktakeRow
  BY LenProperties, ElementOfSeq
<1> HIDE DEF st
<1>2. st.items \in ItemLists
  BY <1>1 DEF StocktakeRow
<1>3. DOMAIN st.items \subseteq Product /\ st.items \in [DOMAIN st.items -> Item]
  BY <1>2 DEF ItemLists
<1>4. st = [completed |-> st.completed, items |-> st.items, cutoff |-> st.cutoff]
  BY <1>1 DEF StocktakeRow
<1>5. /\ st.completed \in 0..MaxDate
      /\ st.cutoff \in [count : 0..MaxCount, movement : 0..MaxMovement,
                        import : 0..MaxImport]
  BY <1>1 DEF StocktakeRow
<1>6. /\ st.cutoff.count \in Nat /\ st.cutoff.movement \in Nat
      /\ st.cutoff.import \in Nat
  BY <1>5
<1> QED
  BY <1>1, <1>3, <1>4, <1>5, <1>6 DEF st

(* A table of stocktakes is one when its rows are.                          *)
LEMMA RowsMakeTable ==
    ASSUME stocktakes \in Seq(StocktakeRow), NEW table,
           table = [n \in DOMAIN stocktakes |-> table[n]],
           \A n \in DOMAIN stocktakes : table[n] \in StocktakeRow
    PROVE  table \in Seq(StocktakeRow) /\ DOMAIN table = DOMAIN stocktakes
<1>1. DOMAIN stocktakes = 1..Len(stocktakes) /\ Len(stocktakes) \in Nat
  BY LenProperties
<1>2. table \in [1..Len(stocktakes) -> StocktakeRow]
  BY <1>1
<1> QED
  BY <1>1, <1>2, SeqDef

(* Counting items changes neither the lists nor the states of stocktakes.   *)
LEMMA CountedKeeps ==
    ASSUME stocktakes \in Seq(StocktakeRow), NEW P
    PROVE  /\ Counted(P) \in Seq(StocktakeRow)
           /\ DOMAIN Counted(P) = DOMAIN stocktakes
           /\ \A n \in DOMAIN stocktakes :
                 /\ Counted(P)[n].completed = stocktakes[n].completed
                 /\ Counted(P)[n].cutoff = stocktakes[n].cutoff
                 /\ DOMAIN Counted(P)[n].items = DOMAIN stocktakes[n].items
<1> DEFINE table == Counted(P)
           items(n) == [p \in DOMAIN stocktakes[n].items |->
                           IF p \in P THEN [stocktakes[n].items[p] EXCEPT !.counted = TRUE]
                                      ELSE stocktakes[n].items[p]]
<1>1. ASSUME NEW n \in DOMAIN stocktakes
      PROVE  table[n] = IF n \in ActiveStocktakes
                        THEN [stocktakes[n] EXCEPT !.items = items(n)]
                        ELSE stocktakes[n]
  BY DEF Counted
<1>2. table = [n \in DOMAIN stocktakes |-> table[n]]
  BY DEF Counted
<1> HIDE DEF table
<1>3. ASSUME NEW n \in DOMAIN stocktakes
      PROVE  /\ table[n] \in StocktakeRow
             /\ table[n].completed = stocktakes[n].completed
             /\ table[n].cutoff = stocktakes[n].cutoff
             /\ DOMAIN table[n].items = DOMAIN stocktakes[n].items
  <2> DEFINE st == stocktakes[n]
  <2>1. /\ st \in StocktakeRow
        /\ DOMAIN st.items \subseteq Product /\ st.items \in [DOMAIN st.items -> Item]
    BY StocktakeFields
  <2>2. ASSUME NEW p \in DOMAIN st.items
        PROVE  [st.items[p] EXCEPT !.counted = TRUE] \in Item /\ st.items[p] \in Item
    <3>1. st.items[p] \in Item
      BY <2>1
    <3> HIDE DEF st
    <3> QED
      BY <3>1 DEF Item
  <2>3. DOMAIN items(n) = DOMAIN st.items /\ items(n) \in [DOMAIN st.items -> Item]
    BY <2>2
  <2>4. items(n) \in ItemLists
    <3> HIDE DEF items, st
    <3> QED
      BY <2>1, <2>3 DEF ItemLists
  <2>5. table[n] = [st EXCEPT !.items = items(n)] \/ table[n] = st
    BY <1>1
  <2> HIDE DEF items, st
  <2>6. /\ table[n] \in StocktakeRow
        /\ table[n].completed = st.completed /\ table[n].cutoff = st.cutoff
        /\ table[n].items = items(n) \/ table[n].items = st.items
    BY <2>1, <2>4, <2>5 DEF StocktakeRow
  <2> QED
    BY <2>3, <2>6 DEF st
<1> QED
  BY <1>2, <1>3, RowsMakeTable DEF table

(* Products joining a stocktake extend the list of the one in progress.     *)
LEMMA ListingExtends ==
    ASSUME stocktakes \in Seq(StocktakeRow), NEW P \in SUBSET Product
    PROVE  /\ Listing(P) \in Seq(StocktakeRow)
           /\ DOMAIN Listing(P) = DOMAIN stocktakes
           /\ \A n \in DOMAIN stocktakes :
                 /\ Listing(P)[n].completed = stocktakes[n].completed
                 /\ Listing(P)[n].cutoff = stocktakes[n].cutoff
                 /\ n \in ActiveStocktakes =>
                       DOMAIN Listing(P)[n].items = DOMAIN stocktakes[n].items \cup P
<1> DEFINE table == Listing(P)
           items(n) == [p \in DOMAIN stocktakes[n].items \cup P |->
                           IF p \in DOMAIN stocktakes[n].items THEN stocktakes[n].items[p]
                                                               ELSE NewItem]
<1>1. ASSUME NEW n \in DOMAIN stocktakes
      PROVE  table[n] = IF n \in ActiveStocktakes
                        THEN [stocktakes[n] EXCEPT !.items = items(n)]
                        ELSE stocktakes[n]
  BY DEF Listing
<1>2. table = [n \in DOMAIN stocktakes |-> table[n]]
  BY DEF Listing
<1> HIDE DEF table
<1>3. ASSUME NEW n \in DOMAIN stocktakes
      PROVE  /\ table[n] \in StocktakeRow
             /\ table[n].completed = stocktakes[n].completed
             /\ table[n].cutoff = stocktakes[n].cutoff
             /\ n \in ActiveStocktakes =>
                   DOMAIN table[n].items = DOMAIN stocktakes[n].items \cup P
  <2> DEFINE st == stocktakes[n]
             P1 == DOMAIN st.items \cup P
  <2>1. /\ st \in StocktakeRow
        /\ DOMAIN st.items \subseteq Product /\ st.items \in [DOMAIN st.items -> Item]
    BY StocktakeFields
  <2>2. NewItem \in Item
    BY DEF NewItem, Item
  <2>3. DOMAIN items(n) = P1 /\ items(n) \in [P1 -> Item]
    BY <2>1, <2>2
  <2>4. items(n) \in ItemLists
    <3>1. P1 \in SUBSET Product
      BY <2>1
    <3> HIDE DEF items, st, P1
    <3> QED
      BY <2>3, <3>1 DEF ItemLists
  <2>5. table[n] = IF n \in ActiveStocktakes THEN [st EXCEPT !.items = items(n)] ELSE st
    BY <1>1
  <2> HIDE DEF items, st, P1
  <2>6. /\ table[n] \in StocktakeRow
        /\ table[n].completed = st.completed /\ table[n].cutoff = st.cutoff
        /\ n \in ActiveStocktakes => table[n].items = items(n)
    BY <2>1, <2>4, <2>5 DEF StocktakeRow
  <2> QED
    BY <2>3, <2>6 DEF st, P1
<1> QED
  BY <1>2, <1>3, RowsMakeTable DEF table

LEMMA StocktakesInit == StocktakeInit => StocktakesHold
<1> SUFFICES ASSUME StocktakeInit PROVE StocktakesHold
  OBVIOUS
<1>1. stocktakes = <<>> /\ stocktakes \in Seq(StocktakeRow) /\ DOMAIN stocktakes = {}
  BY EmptySeq DEF StocktakeInit
<1> QED
  BY <1>1 DEF StocktakesHold, ActiveOnce, ActiveListsProducts, CutoffsGivenOut,
     ActiveStocktakes

(* A step that leaves the states of the stocktakes and lists the products    *)
(* it adds.                                                                 *)
LEMMA StocktakesKept ==
    ASSUME TypeOK, TypeOK', StocktakesHold,
           stocktakes' \in Seq(StocktakeRow), DOMAIN stocktakes' = DOMAIN stocktakes,
           \A n \in DOMAIN stocktakes :
              /\ stocktakes'[n].completed = stocktakes[n].completed
              /\ stocktakes'[n].cutoff = stocktakes[n].cutoff
              /\ n \in ActiveStocktakes =>
                    DOMAIN stocktakes'[n].items =
                        DOMAIN stocktakes[n].items \cup DOMAIN products',
           DOMAIN products \subseteq DOMAIN products',
           last.count <= last'.count, last.movement <= last'.movement,
           last.import <= last'.import
    PROVE  StocktakesHold'
<1>1. ActiveStocktakes' = ActiveStocktakes
  BY DEF ActiveStocktakes
<1>2. ActiveOnce' /\ ActiveListsProducts'
  <2>1. ActiveOnce /\ ActiveListsProducts
    BY DEF StocktakesHold
  <2>2. ActiveOnce'
    BY <1>1, <2>1 DEF ActiveOnce
  <2>3. ASSUME NEW n \in ActiveStocktakes
        PROVE  DOMAIN stocktakes'[n].items = DOMAIN products'
    BY <2>1 DEF ActiveListsProducts, ActiveStocktakes
  <2> QED
    BY <1>1, <2>2, <2>3 DEF ActiveListsProducts
<1>3. CutoffsGivenOut'
  <2>1. /\ last.count \in Nat /\ last.movement \in Nat /\ last.import \in Nat
        /\ last'.count \in Nat /\ last'.movement \in Nat /\ last'.import \in Nat
    BY BoundsAssumption DEF TypeOK
  <2>2. ASSUME NEW n \in DOMAIN stocktakes'
        PROVE  /\ stocktakes'[n].cutoff.count <= last'.count
               /\ stocktakes'[n].cutoff.movement <= last'.movement
               /\ stocktakes'[n].cutoff.import <= last'.import
    <3>1. /\ n \in DOMAIN stocktakes /\ stocktakes'[n].cutoff = stocktakes[n].cutoff
          /\ stocktakes[n].cutoff.count \in Nat /\ stocktakes[n].cutoff.movement \in Nat
          /\ stocktakes[n].cutoff.import \in Nat
      BY StocktakeFields DEF StocktakesHold
    <3>2. /\ stocktakes[n].cutoff.count <= last.count
          /\ stocktakes[n].cutoff.movement <= last.movement
          /\ stocktakes[n].cutoff.import <= last.import
      BY <3>1 DEF StocktakesHold, CutoffsGivenOut
    <3> QED
      BY <2>1, <3>1, <3>2
  <2> QED
    BY <2>2 DEF CutoffsGivenOut
<1> QED
  BY <1>2, <1>3 DEF StocktakesHold

LEMMA CreateAdds ==
    ASSUME NEW p, NEW jan, NEW shared, NEW sync, NEW initial,
           CreateProduct(p, jan, shared, sync, initial)
    PROVE  DOMAIN products' = DOMAIN products \cup {p}
<1> DEFINE relinked == {q \in Candidates(jan) :
                          shared /\ jan # NoJan /\ products[q].sync}
           table == [q \in DOMAIN products \cup {p} |->
                      IF q = p THEN [jan |-> jan, sync |-> sync,
                                     stock |-> initial, range |-> NoRange]
                      ELSE IF q \in relinked
                           THEN [products[q] EXCEPT !.sync = FALSE]
                           ELSE products[q]]
<1>1. Recompute(table, {p} \cup relinked)
  BY DEF CreateProduct
<1>2. DOMAIN table = DOMAIN products \cup {p}
  OBVIOUS
<1> HIDE DEF table, relinked
<1> QED
  BY <1>1, <1>2, RecomputeKeeps

LEMMA ImportAdds ==
    ASSUME NEW f \in ProductFile, NEW sent \in SUBSET DOMAIN f, ImportProducts(f, sent)
    PROVE  DOMAIN products' = DOMAIN products \cup {f[k].product : k \in sent}
  BY RecomputeKeeps, AfterRowsAt DEF ImportProducts

LEMMA OthersAddNone ==
    ASSUME RecordsOnly
    PROVE  DOMAIN products' = DOMAIN products
<1>1. ASSUME \E P : Recompute(products, P) PROVE DOMAIN products' = DOMAIN products
  BY <1>1, RecomputeKeeps
<1>2. ASSUME \E p \in DOMAIN products : \E sync :
                 Recompute([products EXCEPT ![p].sync = sync], {p})
      PROVE  DOMAIN products' = DOMAIN products
  BY <1>2, RecomputeKeeps
<1>3. ASSUME NextDay PROVE products' = products
  BY <1>3 DEF NextDay, tables
<1>4. ASSUME NEW op \in Operation, RecordOperation(op)
      PROVE  \E P : Recompute(products, P)
  BY <1>4 DEF RecordOperation
<1>5. ASSUME NEW f \in Z004, ImportSettlement(f) PROVE \E P : Recompute(products, P)
  BY <1>5 DEF ImportSettlement
<1>6. ASSUME NEW i \in imports, RollbackImport(i) PROVE \E P : Recompute(products, P)
  BY <1>6 DEF RollbackImport
<1>7. ASSUME SaveSomeCount PROVE \E P : Recompute(products, P)
  BY <1>7 DEF SaveSomeCount, SaveCount
<1>8. ASSUME NEW p \in DOMAIN products, StartLinking(p) \/ StopLinking(p)
      PROVE  \E sync : Recompute([products EXCEPT ![p].sync = sync], {p})
  BY <1>8 DEF StartLinking, StopLinking
<1> QED
  BY <1>1, <1>2, <1>3, <1>4, <1>5, <1>6, <1>7, <1>8 DEF RecordsOnly

(* The ids given out grow, and no command takes a product away.             *)
LEMMA RecordsGrow ==
    ASSUME TypeOK, [Next]_vars
    PROVE  /\ last.count <= last'.count /\ last.movement <= last'.movement
           /\ last.import <= last'.import
           /\ DOMAIN products \subseteq DOMAIN products'
<1>1. last.count \in Nat /\ last.movement \in Nat /\ last.import \in Nat
  BY BoundsAssumption DEF TypeOK
<1>2. ASSUME last' = last
      PROVE  /\ last.count <= last'.count /\ last.movement <= last'.movement
             /\ last.import <= last'.import
  BY <1>1, <1>2
<1>3. CASE NextDay \/ SetClockBack \/ UNCHANGED vars
  BY <1>2, <1>3 DEF NextDay, SetClockBack, vars, tables
<1>4. CASE \E op \in Operation : RecordOperation(op)
  <2>1. PICK op \in Operation : RecordOperation(op)
    BY <1>4
  <2>2. Len(op.lines) \in Nat
    BY FilesAssumption, LenProperties
  <2>3. last' = [last EXCEPT !.movement = last.movement + Len(op.lines)]
        /\ DOMAIN products' = DOMAIN products
    BY <2>1, RecomputeKeeps DEF RecordOperation
  <2> QED
    BY <1>1, <2>2, <2>3 DEF TypeOK
<1>5. CASE \E f \in Z004 : ImportSettlement(f)
  <2>1. PICK f \in Z004 : ImportSettlement(f)
    BY <1>5
  <2> DEFINE n == Cardinality(StockLines(f))
  <2>2. n \in Nat
    BY LinesTyped
  <2>3. last' = [last EXCEPT !.import = last.import + 1, !.movement = last.movement + n]
        /\ DOMAIN products' = DOMAIN products
    BY <2>1, RecomputeKeeps DEF ImportSettlement
  <2> HIDE DEF n
  <2> QED
    BY <1>1, <2>2, <2>3 DEF TypeOK
<1>6. CASE \E i \in imports : RollbackImport(i)
  BY <1>2, <1>6, RecomputeKeeps DEF RollbackImport
<1>7. CASE SaveSomeCount
  <2>1. last' = [last EXCEPT !.count = last.count + 1]
        /\ DOMAIN products' = DOMAIN products
    BY <1>7, RecomputeKeeps DEF SaveSomeCount, SaveCount
  <2> QED
    BY <1>1, <2>1 DEF TypeOK
<1>8. CASE CreateSomeProduct
  <2>1. \E initial : last' = [last EXCEPT !.movement =
                                 IF initial > 0 THEN last.movement + 1 ELSE last.movement]
    BY <1>8 DEF CreateSomeProduct, CreateProduct
  <2>2. DOMAIN products \subseteq DOMAIN products'
    BY <1>8, CreateAdds DEF CreateSomeProduct
  <2> QED
    BY <1>1, <2>1, <2>2 DEF TypeOK
<1>9. CASE \E p \in DOMAIN products : StartLinking(p) \/ StopLinking(p)
  <2>1. PICK p \in DOMAIN products : StartLinking(p) \/ StopLinking(p)
    BY <1>9
  <2>2. last' = last
        /\ \E sync : Recompute([products EXCEPT ![p].sync = sync], {p})
    BY <2>1 DEF StartLinking, StopLinking
  <2>3. DOMAIN products' = DOMAIN products
    BY <2>2, RecomputeKeeps
  <2> QED
    BY <1>2, <2>2, <2>3
<1>10. CASE ImportSomeProducts
  <2>0. PICK f \in ProductFile : \E sent \in SUBSET DOMAIN f : ImportProducts(f, sent)
    BY <1>10 DEF ImportSomeProducts
  <2>1. PICK sent \in SUBSET DOMAIN f : ImportProducts(f, sent)
    BY <2>0
  <2> DEFINE n == Cardinality(StockedRows(f, sent))
  <2>2. n \in Nat
    <3>1. DOMAIN f = 1..Len(f) /\ Len(f) \in Int /\ 1 \in Int
      BY ProductRows
    <3>2. IsFiniteSet(DOMAIN f)
      BY <3>1, FS_Interval
    <3>3. StockedRows(f, sent) \in SUBSET DOMAIN f
      BY DEF StockedRows
    <3> QED
      BY <3>2, <3>3, FS_Subset, FS_CardinalityType
  <2>3. last' = [last EXCEPT !.movement = last.movement + n]
        /\ DOMAIN products \subseteq DOMAIN products'
    BY <2>1, ImportAdds DEF ImportProducts
  <2> HIDE DEF n
  <2> QED
    BY <1>1, <2>2, <2>3 DEF TypeOK
<1> QED
  BY <1>3, <1>4, <1>5, <1>6, <1>7, <1>8, <1>9, <1>10 DEF Next

LEMMA StartHolds ==
    ASSUME TypeOK, StocktakesHold, StartStocktake
    PROVE  StocktakesHold'
<1> DEFINE new == [completed |-> NotCompleted, cutoff |-> NoCutoff,
                   items |-> [p \in DOMAIN products |-> NewItem]]
           n == Len(stocktakes)
<1>1. /\ ActiveStocktakes = {} /\ stocktakes' = Append(stocktakes, new)
      /\ products' = products /\ last' = last
  BY DEF StartStocktake, vars, tables
<1>2. new \in StocktakeRow
  <2>1. [p \in DOMAIN products |-> NewItem] \in [DOMAIN products -> Item]
    BY DEF NewItem, Item
  <2>2. [p \in DOMAIN products |-> NewItem] \in ItemLists
    BY <2>1 DEF ItemLists, TypeOK
  <2>3. NoCutoff \in [count : 0..MaxCount, movement : 0..MaxMovement,
                      import : 0..MaxImport]
    BY BoundsAssumption DEF NoCutoff
  <2>4. NotCompleted \in 0..MaxDate
    BY BoundsAssumption DEF NotCompleted
  <2> QED
    BY <2>2, <2>3, <2>4 DEF StocktakeRow
<1>3. /\ new.completed = NotCompleted /\ new.cutoff = NoCutoff
      /\ DOMAIN new.items = DOMAIN products
  OBVIOUS
<1>4. /\ n \in Nat /\ DOMAIN stocktakes = 1..n
      /\ stocktakes \in Seq(StocktakeRow)
  BY LenProperties DEF StocktakesHold
<1> HIDE DEF new, n
<1>5. /\ stocktakes' \in Seq(StocktakeRow) /\ DOMAIN stocktakes' = 1..(n + 1)
      /\ \A k \in 1..n : stocktakes'[k] = stocktakes[k]
      /\ stocktakes'[n + 1] = new
  BY <1>1, <1>2, <1>4, AppendProperties DEF n
<1>6. ActiveStocktakes' = {n + 1}
  <2>1. ASSUME NEW k \in 1..n PROVE stocktakes'[k].completed # NotCompleted
    BY <1>1, <1>4, <1>5 DEF ActiveStocktakes
  <2>2. n + 1 \in 1..(n + 1) /\ \A k \in 1..(n + 1) : k = n + 1 \/ k \in 1..n
    BY <1>4
  <2> QED
    BY <1>3, <1>5, <2>1, <2>2 DEF ActiveStocktakes
<1>7. ActiveOnce' /\ ActiveListsProducts'
  BY <1>1, <1>3, <1>5, <1>6 DEF ActiveOnce, ActiveListsProducts
<1>8. CutoffsGivenOut'
  <2>1. 0 <= last.count /\ 0 <= last.movement /\ 0 <= last.import
    BY BoundsAssumption DEF TypeOK
  <2>2. ASSUME NEW k \in 1..(n + 1)
        PROVE  /\ stocktakes'[k].cutoff.count <= last.count
               /\ stocktakes'[k].cutoff.movement <= last.movement
               /\ stocktakes'[k].cutoff.import <= last.import
    <3>1. CASE k = n + 1
      BY <1>3, <1>5, <2>1, <3>1 DEF NoCutoff
    <3>2. CASE k # n + 1
      <4>1. k \in 1..n
        BY <1>4, <3>2
      <4> QED
        BY <1>4, <1>5, <4>1 DEF StocktakesHold, CutoffsGivenOut
    <3> QED
      BY <3>1, <3>2
  <2> QED
    BY <1>1, <1>5, <2>2 DEF CutoffsGivenOut
<1> QED
  BY <1>5, <1>7, <1>8 DEF StocktakesHold

(* What a completion writes.                                                *)
Valued(items) ==
    [p \in DOMAIN items |-> [items[p] EXCEPT !.valuation = Value(products[p].stock)]]

LEMMA Completion ==
    ASSUME TypeOK, StocktakesHold, NEW n \in DOMAIN stocktakes, CompleteStocktake(n)
    PROVE  /\ n \in ActiveStocktakes /\ UNCHANGED vars
           /\ \A p \in DOMAIN stocktakes[n].items : ~Blocked(stocktakes[n].items[p], p)
           /\ stocktakes' \in Seq(StocktakeRow) /\ DOMAIN stocktakes' = DOMAIN stocktakes
           /\ \A k \in DOMAIN stocktakes : k # n => stocktakes'[k] = stocktakes[k]
           /\ stocktakes'[n].completed = today /\ stocktakes'[n].cutoff = last
           /\ stocktakes'[n].items = Valued(stocktakes[n].items)
           /\ \A p \in DOMAIN stocktakes[n].items :
                 stocktakes'[n].items[p].valuation = Value(products[p].stock)
<1> DEFINE items == stocktakes[n].items
           new == [completed |-> today, cutoff |-> last, items |-> Valued(items)]
<1>1. /\ stocktakes[n].completed = NotCompleted /\ UNCHANGED vars
      /\ \A p \in DOMAIN items : ~Blocked(items[p], p)
      /\ stocktakes' = [stocktakes EXCEPT ![n] = new]
  BY DEF CompleteStocktake, Valued
<1>2. stocktakes \in Seq(StocktakeRow) /\ DOMAIN stocktakes = 1..Len(stocktakes)
  BY LenProperties DEF StocktakesHold
<1>3. DOMAIN items \subseteq Product /\ items \in [DOMAIN items -> Item]
      /\ DOMAIN items = DOMAIN products
  BY <1>1, <1>2, StocktakeFields DEF StocktakesHold, ActiveListsProducts, ActiveStocktakes
<1> HIDE DEF items
<1>4. ASSUME NEW p \in DOMAIN items
      PROVE  /\ [items[p] EXCEPT !.valuation = Value(products[p].stock)] \in Item
             /\ [items[p] EXCEPT !.valuation = Value(products[p].stock)].valuation
                    = Value(products[p].stock)
  <2>1. products[p].stock \in Int
    BY <1>3, BoundsAssumption DEF TypeOK, ProductRow, StockLimit
  <2>2. Value(products[p].stock) \in Nat
    BY <2>1 DEF Value
  <2>3. items[p] \in Item
    BY <1>3
  <2> QED
    BY <2>2, <2>3 DEF Item
<1>5. Valued(items) \in ItemLists
      /\ \A p \in DOMAIN items : Valued(items)[p].valuation = Value(products[p].stock)
  <2>1. Valued(items) \in [DOMAIN items -> Item]
    BY <1>4 DEF Valued
  <2>2. \A p \in DOMAIN items : Valued(items)[p].valuation = Value(products[p].stock)
    BY <1>4 DEF Valued
  <2>3. Valued(items) \in ItemLists
    BY <1>3, <2>1 DEF ItemLists
  <2> QED
    BY <2>2, <2>3
<1>6. new \in StocktakeRow /\ new.completed = today /\ new.cutoff = last
      /\ new.items = Valued(items)
  <2>1. today \in 0..MaxDate
    BY BoundsAssumption DEF TypeOK, Dates
  <2> QED
    BY <1>5, <2>1 DEF StocktakeRow, TypeOK
<1> HIDE DEF new
<1>7. /\ stocktakes' \in Seq(StocktakeRow) /\ DOMAIN stocktakes' = DOMAIN stocktakes
      /\ stocktakes'[n] = new
      /\ \A k \in DOMAIN stocktakes : k # n => stocktakes'[k] = stocktakes[k]
  <2>1. stocktakes' = [k \in DOMAIN stocktakes |-> stocktakes'[k]]
    BY <1>1
  <2>2. \A k \in DOMAIN stocktakes : stocktakes'[k] \in StocktakeRow
    BY <1>1, <1>2, <1>6, ElementOfSeq
  <2> QED
    BY <1>1, <1>2, <2>1, <2>2, RowsMakeTable
<1>8. n \in ActiveStocktakes
  BY <1>1 DEF ActiveStocktakes
<1> QED
  BY <1>1, <1>5, <1>6, <1>7, <1>8 DEF items

LEMMA CompleteHolds ==
    ASSUME TypeOK, StocktakesHold, NEW n \in DOMAIN stocktakes, CompleteStocktake(n)
    PROVE  StocktakesHold'
<1>1. /\ n \in ActiveStocktakes /\ ActiveOnce /\ CutoffsGivenOut
      /\ DOMAIN stocktakes' = DOMAIN stocktakes
      /\ \A k \in DOMAIN stocktakes : k # n => stocktakes'[k] = stocktakes[k]
      /\ stocktakes'[n].completed = today /\ stocktakes'[n].cutoff = last
      /\ last' = last
  BY Completion DEF StocktakesHold, vars, tables
<1>2. today # NotCompleted
  BY DEF TypeOK, Dates, NotCompleted
<1>3. ActiveStocktakes' = {}
  BY <1>1, <1>2 DEF ActiveStocktakes, ActiveOnce
<1>4. CutoffsGivenOut'
  <2>1. last.count <= last.count /\ last.movement <= last.movement
        /\ last.import <= last.import
    BY BoundsAssumption DEF TypeOK
  <2> QED
    BY <1>1, <2>1 DEF CutoffsGivenOut
<1> QED
  BY <1>3, <1>4, Completion DEF StocktakesHold, ActiveOnce, ActiveListsProducts

LEMMA StocktakesStep ==
    ASSUME TypeOK, TypeOK', StocktakesHold, [StocktakeNext]_allVars
    PROVE  StocktakesHold'
<1>1. ASSUME UNCHANGED stocktakes, last'.count >= last.count,
             last'.movement >= last.movement, last'.import >= last.import,
             DOMAIN products' = DOMAIN products
      PROVE  StocktakesHold'
  <2>1. \A n \in DOMAIN stocktakes : n \in ActiveStocktakes =>
            DOMAIN stocktakes[n].items = DOMAIN stocktakes[n].items \cup DOMAIN products'
    BY <1>1 DEF StocktakesHold, ActiveListsProducts
  <2>2. /\ last.count <= last'.count /\ last.movement <= last'.movement
        /\ last.import <= last'.import
    BY <1>1, BoundsAssumption DEF TypeOK
  <2>3. /\ stocktakes' = stocktakes /\ stocktakes \in Seq(StocktakeRow)
        /\ DOMAIN products \subseteq DOMAIN products'
    BY <1>1 DEF StocktakesHold
  <2> QED
    BY <2>1, <2>2, <2>3, StocktakesKept
<1>2. ASSUME [Next]_vars
      PROVE  /\ last.count <= last'.count /\ last.movement <= last'.movement
             /\ last.import <= last'.import
             /\ DOMAIN products \subseteq DOMAIN products'
             /\ last'.count >= last.count /\ last'.movement >= last.movement
             /\ last'.import >= last.import
  BY <1>2, RecordsGrow, BoundsAssumption DEF TypeOK
<1>3. CASE RecordsOnly
  <2>1. [Next]_vars /\ UNCHANGED stocktakes
    BY <1>3 DEF RecordsOnly, Next, stocktakeVars
  <2> QED
    BY <1>1, <1>2, <1>3, <2>1, OthersAddNone
<1>4. CASE (\E p \in DOMAIN products : ToggleDiscontinue(p)) \/ UNCHANGED allVars
  <2>1. UNCHANGED vars /\ UNCHANGED stocktakes
    BY <1>4 DEF ToggleDiscontinue, allVars, stocktakeVars
  <2>2. products' = products
    BY <2>1 DEF vars, tables
  <2> QED
    BY <1>1, <1>2, <2>1, <2>2
<1>5. CASE StartStocktake \/ \E n \in DOMAIN stocktakes : CompleteStocktake(n)
  BY <1>5, StartHolds, CompleteHolds
<1>6. stocktakes \in Seq(StocktakeRow) /\ \A n \in ActiveStocktakes :
          DOMAIN stocktakes[n].items = DOMAIN products
  BY DEF StocktakesHold, ActiveListsProducts
<1>7. ASSUME NEW P, stocktakes' = Counted(P), DOMAIN products' = DOMAIN products,
             last.count <= last'.count, last.movement <= last'.movement,
             last.import <= last'.import
      PROVE  StocktakesHold'
  <2>1. /\ stocktakes' \in Seq(StocktakeRow) /\ DOMAIN stocktakes' = DOMAIN stocktakes
        /\ \A n \in DOMAIN stocktakes :
              /\ stocktakes'[n].completed = stocktakes[n].completed
              /\ stocktakes'[n].cutoff = stocktakes[n].cutoff
              /\ DOMAIN stocktakes'[n].items = DOMAIN stocktakes[n].items
    BY <1>6, <1>7, CountedKeeps
  <2> QED
    BY <1>6, <1>7, <2>1, StocktakesKept
<1>8. CASE SaveSomeItemCount
  <2>1. PICK p \in DOMAIN products, value \in CountValue, fresh \in BOOLEAN,
             date \in 1..MaxDate : SaveItemCount(p, value, fresh, date)
    BY <1>8 DEF SaveSomeItemCount
  <2>2. SaveSomeCount /\ stocktakes' = Counted({p})
    BY <2>1 DEF SaveItemCount, SaveSomeCount
  <2>3. Next /\ DOMAIN products' = DOMAIN products
    BY <2>1, <2>2, RecomputeKeeps DEF Next, SaveItemCount, SaveCount
  <2> QED
    BY <1>2, <1>7, <2>2, <2>3
<1>9. CASE ZeroSomeUncounted
  <2>1. PICK P \in (SUBSET DOMAIN products) \ {{}}, date \in 1..MaxDate :
            ZeroUncounted(P, date)
    BY <1>9 DEF ZeroSomeUncounted
  <2>2. /\ stocktakes' = Counted(P) /\ DOMAIN products' = DOMAIN products
        /\ last' = [last EXCEPT !.count = last.count + Cardinality(P)]
        /\ Cardinality(P) \in Nat
    BY <2>1, ZeroCounts, RecomputeKeeps
  <2>3. /\ last.count <= last'.count /\ last.movement <= last'.movement
        /\ last.import <= last'.import
    BY <2>2, BoundsAssumption DEF TypeOK
  <2> QED
    BY <1>7, <2>2, <2>3
<1>10. ASSUME NEW P \in SUBSET Product, stocktakes' = Listing(P), [Next]_vars,
              DOMAIN products' = DOMAIN products \cup P
       PROVE  StocktakesHold'
  <2>1. /\ stocktakes' \in Seq(StocktakeRow) /\ DOMAIN stocktakes' = DOMAIN stocktakes
        /\ \A n \in DOMAIN stocktakes :
              /\ stocktakes'[n].completed = stocktakes[n].completed
              /\ stocktakes'[n].cutoff = stocktakes[n].cutoff
              /\ n \in ActiveStocktakes =>
                    DOMAIN stocktakes'[n].items = DOMAIN stocktakes[n].items \cup P
    BY <1>6, <1>10, ListingExtends
  <2>2. \A n \in DOMAIN stocktakes : n \in ActiveStocktakes =>
            DOMAIN stocktakes'[n].items = DOMAIN stocktakes[n].items \cup DOMAIN products'
    BY <1>6, <1>10, <2>1
  <2> QED
    BY <1>2, <1>10, <2>1, <2>2, StocktakesKept
<1>11. CASE CreateSomeListedProduct
  <2>1. PICK p \in Product, jan \in Jan \cup {NoJan}, shared \in BOOLEAN,
             sync \in BOOLEAN, initial \in InitialStock :
             CreateListedProduct(p, jan, shared, sync, initial)
    BY <1>11 DEF CreateSomeListedProduct
  <2>2. CreateSomeProduct /\ stocktakes' = Listing({p})
    BY <2>1 DEF CreateListedProduct, CreateSomeProduct
  <2>3. Next /\ DOMAIN products' = DOMAIN products \cup {p}
    BY <2>1, <2>2, CreateAdds DEF Next, CreateListedProduct
  <2> QED
    BY <1>10, <2>2, <2>3
<1>12. CASE ImportSomeListedProducts
  <2>0. PICK f \in ProductFile : \E sent \in SUBSET DOMAIN f : ImportListedProducts(f, sent)
    BY <1>12 DEF ImportSomeListedProducts
  <2>1. PICK sent \in SUBSET DOMAIN f : ImportListedProducts(f, sent)
    BY <2>0
  <2> DEFINE P == {f[k].product : k \in {j \in sent : IsNew(f[j])}}
  <2>2. ImportSomeProducts /\ stocktakes' = Listing(P)
    BY <2>1 DEF ImportListedProducts, ImportSomeProducts
  <2>3. Next /\ DOMAIN products' = DOMAIN products \cup {f[k].product : k \in sent}
    BY <2>1, <2>2, ImportAdds DEF Next, ImportListedProducts
  <2>4. DOMAIN products' = DOMAIN products \cup P /\ P \in SUBSET Product
    BY <2>3, ProductRows DEF IsNew
  <2> HIDE DEF P
  <2> QED
    BY <1>10, <2>2, <2>3, <2>4
<1> QED
  BY <1>3, <1>4, <1>5, <1>8, <1>9, <1>11, <1>12 DEF StocktakeNext

Everything == RecordsHold /\ StocktakesHold

LEMMA EverythingHolds == StocktakeSpec => []Everything
<1>1. StocktakeInit => Everything
  BY RecordsHoldInit, StocktakesInit DEF Everything
<1>2. Everything /\ [StocktakeNext]_allVars => Everything'
  BY RecordsHoldStep, StocktakesStep DEF Everything, RecordsHold
<1> QED
  BY <1>1, <1>2, PTL DEF StocktakeSpec

(* However products are registered and stocktakes come and go, the one in   *)
(* progress lists every product of the shop, and there is at most one.      *)
THEOREM ItemsCoverTheShop == StocktakeSpec => []ItemsCoverProducts
<1>1. Everything => ItemsCoverProducts
  <2> SUFFICES ASSUME StocktakesHold PROVE ItemsCoverProducts
    BY DEF Everything
  <2>1. Cardinality(ActiveStocktakes) <= 1
    <3>1. CASE ActiveStocktakes = {}
      BY <3>1, FS_EmptySet
    <3>2. CASE ActiveStocktakes # {}
      <4>1. PICK n \in ActiveStocktakes : TRUE
        BY <3>2
      <4>2. ActiveStocktakes = {n}
        BY <4>1 DEF StocktakesHold, ActiveOnce
      <4>3. Cardinality({n}) = 1
        BY FS_Singleton
      <4> QED
        BY <4>2, <4>3
    <3> QED
      BY <3>1, <3>2
  <2> QED
    BY <2>1 DEF StocktakesHold, ActiveListsProducts, ItemsCoverProducts
<1> QED
  BY <1>1, EverythingHolds, PTL

-----------------------------------------------------------------------------
(* Reading a stocktake's record. *)

LEMMA NoWithinCovers ==
    ASSUME NEW S, IsFiniteSet(S), \A s \in S : s.no \in Int, NEW cursor
    PROVE  /\ SettlementNoWithin(S, cursor) \in Int
           /\ \A s \in S : s.import <= cursor => s.no <= SettlementNoWithin(S, cursor)
<1> DEFINE seen == {t \in S : t.import <= cursor}
           no == [s \in seen |-> s.no]
           nos == {no[s] : s \in seen}
<1>1. {s.no : s \in seen} = nos
  OBVIOUS
<1>2. SettlementNoWithin(S, cursor) = IF nos = {} THEN NoSettlement ELSE Max(nos)
  BY <1>1 DEF SettlementNoWithin
<1>3. IsFiniteSet(nos) /\ nos \in SUBSET Int
  <2>1. IsFiniteSet(seen) /\ DOMAIN no = seen
    BY FS_Subset
  <2>2. IsFiniteSet(nos)
    <3> HIDE DEF no, seen
    <3> QED
      BY <2>1, ImageIsFinite
  <2> QED
    BY <2>2
<1>4. \A s \in S : s.import <= cursor => s.no \in nos
  BY <1>1
<1> HIDE DEF nos
<1>5. nos # {} => Max(nos) \in Int /\ \A k \in nos : k \in Int /\ Max(nos) >= k
  BY <1>3, ExtremesExist
<1>6. SettlementNoWithin(S, cursor) \in Int
  BY <1>2, <1>5 DEF NoSettlement
<1>7. ASSUME NEW s \in S, s.import <= cursor
      PROVE  s.no <= SettlementNoWithin(S, cursor)
  BY <1>2, <1>4, <1>5, <1>7
<1> QED
  BY <1>6, <1>7

(* The settlements are those of the active imports, which are known and     *)
(* told apart by their numbers and by their ids.                            *)
LEMMA SettlementFields ==
    ASSUME RecordsHold
    PROVE  /\ IsFiniteSet(Settlements(imports))
           /\ \A s \in Settlements(imports) :
                 /\ s = [import |-> s.import, no |-> s.no, date |-> s.date]
                 /\ s.import \in Nat \ {0} /\ s.no \in Nat /\ s.date \in Nat
                 /\ s.import <= last.import
                 /\ \E i \in Active(imports) :
                       s.import = i.id /\ s.no = i.no /\ s.date = i.date
           /\ \A s, t \in Settlements(imports) : s.no = t.no \/ s.import = t.import => s = t
<1> DEFINE S == Settlements(imports)
           row == [i \in Active(imports) |-> [import |-> i.id, no |-> i.no, date |-> i.date]]
<1>1. S = {row[i] : i \in Active(imports)} /\ DOMAIN row = Active(imports)
  BY DEF Settlements
<1>2. IsFiniteSet(Active(imports))
  BY FS_Subset DEF RecordsHold, RecordsInvariant, RowsAreFinite, Active
<1>3. IsFiniteSet(S)
  <2> HIDE DEF row, S
  <2> QED
    BY <1>1, <1>2, ImageIsFinite
<1>4. ASSUME NEW i \in Active(imports)
      PROVE  /\ i \in imports /\ i.id \in Nat \ {0} /\ i.no \in Nat /\ i.date \in Nat
             /\ i.id <= last.import
  BY DEF RecordsHold, TypeOK, ImportRow, RecordsInvariant, IdsAreGivenOut, Active
<1>5. ASSUME NEW s \in S
      PROVE  /\ s = [import |-> s.import, no |-> s.no, date |-> s.date]
             /\ s.import \in Nat \ {0} /\ s.no \in Nat /\ s.date \in Nat
             /\ s.import <= last.import
             /\ \E i \in Active(imports) :
                   s.import = i.id /\ s.no = i.no /\ s.date = i.date
  BY <1>1, <1>4
<1>6. ASSUME NEW s \in S, NEW t \in S, s.no = t.no \/ s.import = t.import
      PROVE  s = t
  <2>1. PICK i \in Active(imports) : s.import = i.id /\ s.no = i.no /\ s.date = i.date
    BY <1>5
  <2>2. PICK j \in Active(imports) : t.import = j.id /\ t.no = j.no /\ t.date = j.date
    BY <1>5
  <2>3. i = j
    BY <1>4, <1>6, <2>1, <2>2 DEF RecordsHold, SettlementsFormOneAxis, ImportIdsDiffer
  <2>4. s.import = t.import /\ s.no = t.no /\ s.date = t.date
    BY <2>1, <2>2, <2>3
  <2> QED
    BY <1>5, <2>4
<1> QED
  BY <1>3, <1>5, <1>6

(* A movement of a settlement that a ledger shows is of an active import.   *)
LEMMA MovementsOfActive ==
    ASSUME RecordsHold, NEW p, NEW m \in MovementsOf(p, movements),
           m.settlement # NoSettlement
    PROVE  \E s \in Settlements(imports) : s.import = m.import /\ s.no = m.settlement
<1>1. m \in movements /\ ~m.voided
  BY DEF MovementsOf
<1>2. PICK i \in imports : i.id = m.import
  BY <1>1 DEF RecordsHold, RecordsInvariant, MovementsBelong
<1>3. m.voided = i.rolledBack /\ m.settlement = i.no
  BY <1>1, <1>2 DEF RecordsHold, RecordsInvariant, RowsFollowImports
<1>4. i \in Active(imports)
  BY <1>1, <1>3 DEF Active
<1>5. [import |-> i.id, no |-> i.no, date |-> i.date] \in Settlements(imports)
  BY <1>4 DEF Settlements
<1> QED
  BY <1>2, <1>3, <1>5

(* A cutoff taken now takes in everything.                                  *)
LEMMA CutoffTakesAll ==
    ASSUME RecordsHold, NEW p, NEW day
    PROVE  LedgerAtCutoff(Ledger(p), last, day) = Ledger(p)
<1> DEFINE L == Ledger(p)
           S == Settlements(imports)
           n == SettlementNoWithin(S, last.import)
           kept == {s \in S : SettlementKept(s, n, day)}
<1>1. /\ L.counts = CountsOf(p, counts) /\ L.movements = MovementsOf(p, movements)
      /\ L.settlements = S /\ L.linkedImports = SaleImports(p, TRUE, imports, sales)
      /\ L = [counts |-> L.counts, movements |-> L.movements,
              settlements |-> L.settlements, linkedImports |-> L.linkedImports]
  BY DEF Ledger, LedgerIn
<1>2. kept = S
  <2>1. \A s \in S : s.no <= n
    BY SettlementFields, NoWithinCovers
  <2> HIDE DEF n
  <2> QED
    BY <2>1 DEF SettlementKept
<1>3. {c \in L.counts : c.id <= last.count} = L.counts
  BY <1>1 DEF CountsOf, RecordsHold, RecordsInvariant, IdsAreGivenOut
<1>4. ASSUME NEW m \in L.movements
      PROVE  IF m.settlement = NoSettlement
             THEN m.id <= last.movement \/ m.date <= day
             ELSE m.settlement \in {s.no : s \in S}
  <2>1. CASE m.settlement = NoSettlement
    BY <1>1, <2>1 DEF MovementsOf, RecordsHold, RecordsInvariant, IdsAreGivenOut
  <2>2. CASE m.settlement # NoSettlement
    BY <1>1, <2>2, MovementsOfActive
  <2> QED
    BY <2>1, <2>2
<1>5. {s.import : s \in S} \cap L.linkedImports = L.linkedImports
  <2>1. ASSUME NEW k \in L.linkedImports PROVE k \in {s.import : s \in S}
    <3>1. PICK i \in Active(imports) : k = i.id
      BY <1>1 DEF SaleImports
    <3>2. [import |-> i.id, no |-> i.no, date |-> i.date] \in S
      BY DEF Settlements
    <3> HIDE DEF S
    <3> QED
      BY <3>1, <3>2
  <2> QED
    BY <2>1
<1> HIDE DEF L
<1>6. LedgerAtCutoff(L, last, day) =
          [counts |-> {c \in L.counts : c.id <= last.count},
           movements |-> {m \in L.movements :
              IF m.settlement = NoSettlement
              THEN m.id <= last.movement \/ m.date <= day
              ELSE m.settlement \in {s.no : s \in kept}},
           settlements |-> kept,
           linkedImports |-> {s.import : s \in kept} \cap L.linkedImports]
  BY <1>1 DEF LedgerAtCutoff
<1>7. {m \in L.movements :
              IF m.settlement = NoSettlement
              THEN m.id <= last.movement \/ m.date <= day
              ELSE m.settlement \in {s.no : s \in kept}} = L.movements
  <2> HIDE DEF kept, S
  <2> QED
    BY <1>2, <1>4
<1> HIDE DEF kept, S
<1>8. LedgerAtCutoff(L, last, day) =
          [counts |-> L.counts, movements |-> L.movements,
           settlements |-> L.settlements, linkedImports |-> L.linkedImports]
  BY <1>1, <1>2, <1>3, <1>5, <1>6, <1>7
<1> QED
  BY <1>1, <1>8 DEF L

LEMMA CompletionStep ==
    ASSUME Everything, [StocktakeNext]_allVars, NEW n \in DOMAIN stocktakes, Completes(n)
    PROVE  CompleteStocktake(n)
<1>1. /\ n \in ActiveStocktakes /\ stocktakes'[n].completed # NotCompleted
      /\ stocktakes[n].completed = NotCompleted
      /\ stocktakes \in Seq(StocktakeRow)
      /\ DOMAIN stocktakes = 1..Len(stocktakes) /\ Len(stocktakes) \in Nat
  BY LenProperties DEF Completes, ActiveStocktakes, Everything, StocktakesHold
<1>2. ASSUME stocktakes'[n].completed = stocktakes[n].completed PROVE FALSE
  BY <1>1, <1>2
<1>3. CASE RecordsOnly \/ (\E p \in DOMAIN products : ToggleDiscontinue(p))
           \/ UNCHANGED allVars
  BY <1>2, <1>3 DEF RecordsOnly, ToggleDiscontinue, allVars, stocktakeVars
<1>4. CASE StartStocktake
  BY <1>1, <1>4 DEF StartStocktake
<1>5. CASE SaveSomeItemCount \/ ZeroSomeUncounted
  <2>1. \E P : stocktakes' = Counted(P)
    BY <1>5 DEF SaveSomeItemCount, SaveItemCount, ZeroSomeUncounted, ZeroUncounted
  <2> QED
    BY <1>1, <1>2, <2>1, CountedKeeps
<1>6. CASE CreateSomeListedProduct
  <2>1. \E p \in Product : stocktakes' = Listing({p})
    BY <1>6 DEF CreateSomeListedProduct, CreateListedProduct
  <2> QED
    BY <1>1, <1>2, <2>1, ListingExtends
<1>7. CASE ImportSomeListedProducts
  <2>0. PICK f \in ProductFile : \E sent \in SUBSET DOMAIN f : ImportListedProducts(f, sent)
    BY <1>7 DEF ImportSomeListedProducts
  <2>1. PICK sent \in SUBSET DOMAIN f : ImportListedProducts(f, sent)
    BY <2>0
  <2> DEFINE P == {f[k].product : k \in {j \in sent : IsNew(f[j])}}
  <2>2. stocktakes' = Listing(P)
    BY <2>1 DEF ImportListedProducts
  <2>3. P \in SUBSET Product
    BY ProductRows
  <2> HIDE DEF P
  <2> QED
    BY <1>1, <1>2, <2>2, <2>3, ListingExtends
<1>8. CASE \E k \in DOMAIN stocktakes : CompleteStocktake(k)
  <2>1. PICK k \in DOMAIN stocktakes : CompleteStocktake(k)
    BY <1>8
  <2>2. CASE k = n
    BY <2>1, <2>2
  <2>3. CASE k # n
    <3>1. stocktakes'[n] = stocktakes[n]
      BY <2>1, <2>3, Completion DEF Everything, RecordsHold
    <3> QED
      BY <1>2, <3>1
  <2> QED
    BY <2>2, <2>3
<1> QED
  BY <1>3, <1>4, <1>5, <1>6, <1>7, <1>8 DEF StocktakeNext

LEMMA CompletedFits ==
    ASSUME Everything, [StocktakeNext]_allVars, NEW n \in DOMAIN stocktakes, Completes(n),
           NEW p \in DOMAIN stocktakes[n].items
    PROVE  ~Departs(stocktakes'[n].items[p], AtCompletion(stocktakes'[n], Ledger(p)))
<1>1. CompleteStocktake(n) /\ TypeOK /\ StocktakesHold
  BY CompletionStep DEF Everything, RecordsHold
<1>2. /\ stocktakes'[n].completed = today /\ stocktakes'[n].cutoff = last
      /\ ~Blocked(stocktakes[n].items[p], p)
      /\ stocktakes'[n].items[p].valuation = Value(products[p].stock)
      /\ n \in ActiveStocktakes
  BY <1>1, Completion
<1>3. AtCompletion(stocktakes'[n], Ledger(p)) = Derive(Ledger(p))
  BY <1>2, CutoffTakesAll DEF AtCompletion, Everything
<1>4. p \in DOMAIN products
  BY <1>2 DEF Everything, StocktakesHold, ActiveListsProducts
<1>5. Derive(Ledger(p)).stock = products[p].stock
      /\ Derive(Ledger(p)).range = products[p].range /\ products[p].range = NoRange
  BY <1>2, <1>4 DEF Everything, RecordsHold, CopyIsDerived, Blocked
<1>6. DOMAIN Derive(Ledger(p)).range = {}
  BY <1>5 DEF NoRange
<1> QED
  BY <1>2, <1>3, <1>5, <1>6 DEF Departs

(* SPEC-STK-CNT-D6: whatever the records, read back at once a completed     *)
(* stocktake shows what it was valued at.                                   *)
THEOREM CompletionsFitTheirRecords == StocktakeSpec => NoDifferenceAtCompletion
<1>1. Everything /\ [StocktakeNext]_allVars =>
      [\A n \in DOMAIN stocktakes : Completes(n) =>
          \A p \in DOMAIN stocktakes[n].items :
              ~Departs(stocktakes'[n].items[p],
                       AtCompletion(stocktakes'[n], Ledger(p)))]_allVars
  BY CompletedFits
<1> QED
  BY <1>1, EverythingHolds, PTL DEF StocktakeSpec, NoDifferenceAtCompletion

-----------------------------------------------------------------------------
(* What later facts and rollbacks do to a record. *)

(* Reading at a cutoff asks only for what the cutoff lets through.          *)
LEMMA SameReading ==
    ASSUME NEW p, NEW cutoff, NEW day, NEW S, NEW T, NEW n,
           S = Settlements(imports), T = Settlements(imports'),
           n = SettlementNoWithin(S, cutoff.import),
           \A t : t.import <= cutoff.import => (t \in S <=> t \in T),
           \A t : SettlementKept(t, n, day) => (t \in S <=> t \in T),
           \A c : c.id <= cutoff.count =>
               (c \in CountsOf(p, counts) <=> c \in CountsOf(p, counts')),
           \A m : m.settlement = NoSettlement
                  /\ (m.id <= cutoff.movement \/ m.date <= day) =>
               (m \in MovementsOf(p, movements) <=> m \in MovementsOf(p, movements')),
           \A s \in S : \A m : SettlementKept(s, n, day) /\ m.settlement = s.no =>
               (m \in MovementsOf(p, movements) <=> m \in MovementsOf(p, movements')),
           \A s \in S : SettlementKept(s, n, day) =>
               (s.import \in SaleImports(p, TRUE, imports, sales)
                   <=> s.import \in SaleImports(p, TRUE, imports', sales'))
    PROVE  LedgerAtCutoff(Ledger(p), cutoff, day) =
               LedgerAtCutoff(LedgerIn(p, counts', movements', imports', sales'),
                              cutoff, day)
<1> DEFINE C == CountsOf(p, counts)
           D == CountsOf(p, counts')
           M == MovementsOf(p, movements)
           W == MovementsOf(p, movements')
           I == SaleImports(p, TRUE, imports, sales)
           J == SaleImports(p, TRUE, imports', sales')
           kept == {s \in S : SettlementKept(s, n, day)}
           read(m) == IF m.settlement = NoSettlement
                      THEN m.id <= cutoff.movement \/ m.date <= day
                      ELSE m.settlement \in {s.no : s \in kept}
<1>1. SettlementNoWithin(T, cutoff.import) = n
  <2>1. {t \in T : t.import <= cutoff.import} = {t \in S : t.import <= cutoff.import}
    OBVIOUS
  <2> QED
    BY <2>1 DEF SettlementNoWithin
<1>2. {s \in T : SettlementKept(s, n, day)} = kept
  OBVIOUS
<1>3. {c \in D : c.id <= cutoff.count} = {c \in C : c.id <= cutoff.count}
  OBVIOUS
<1>4. {m \in W : read(m)} = {m \in M : read(m)}
  <2>1. ASSUME NEW m, read(m) PROVE m \in M <=> m \in W
    <3>1. CASE m.settlement = NoSettlement
      <4>1. m.id <= cutoff.movement \/ m.date <= day
        BY <2>1, <3>1
      <4> QED
        BY <3>1, <4>1
    <3>2. CASE m.settlement # NoSettlement
      <4>1. PICK s \in kept : m.settlement = s.no
        BY <2>1, <3>2
      <4>2. s \in S /\ SettlementKept(s, n, day)
        OBVIOUS
      <4> QED
        BY <4>1, <4>2
    <3> QED
      BY <3>1, <3>2
  <2> HIDE DEF read, M, W
  <2> QED
    BY <2>1
<1>5. {s.import : s \in kept} \cap J = {s.import : s \in kept} \cap I
  <2>1. \A s \in kept : s.import \in I <=> s.import \in J
    OBVIOUS
  <2> HIDE DEF kept, I, J
  <2> QED
    BY <2>1
<1>6. LedgerAtCutoff(Ledger(p), cutoff, day) =
          [counts |-> {c \in C : c.id <= cutoff.count},
           movements |-> {m \in M : read(m)}, settlements |-> kept,
           linkedImports |-> {s.import : s \in kept} \cap I]
  BY DEF LedgerAtCutoff, Ledger, LedgerIn
<1>7. LedgerAtCutoff(LedgerIn(p, counts', movements', imports', sales'), cutoff, day) =
          [counts |-> {c \in D : c.id <= cutoff.count},
           movements |-> {m \in W : read(m)}, settlements |-> kept,
           linkedImports |-> {s.import : s \in kept} \cap J]
  BY <1>1, <1>2 DEF LedgerAtCutoff, LedgerIn
<1> HIDE DEF C, D, M, W, I, J, kept, read
<1> QED
  BY <1>3, <1>4, <1>5, <1>6, <1>7

LEMMA SameReadings ==
    ASSUME NEW n \in DOMAIN stocktakes, Rereads(n)
    PROVE  \E p : \E day \in {0, stocktakes[n].completed} :
              LedgerAtCutoff(Ledger(p), stocktakes[n].cutoff, day) #
                  LedgerAtCutoff(LedgerIn(p, counts', movements', imports', sales'),
                                 stocktakes[n].cutoff, day)
<1> SUFFICES ASSUME \A p : \A day \in {0, stocktakes[n].completed} :
                       LedgerAtCutoff(Ledger(p), stocktakes[n].cutoff, day) =
                       LedgerAtCutoff(LedgerIn(p, counts', movements', imports', sales'),
                                      stocktakes[n].cutoff, day)
             PROVE  FALSE
  OBVIOUS
<1>1. PICK p \in DOMAIN stocktakes[n].items :
          Reading(stocktakes[n], Ledger(p)) #
          Reading(stocktakes[n], LedgerIn(p, counts', movements', imports', sales'))
  BY DEF Rereads
<1> DEFINE other == LedgerIn(p, counts', movements', imports', sales')
           st == stocktakes[n]
<1>2. LedgerAtCutoff(Ledger(p), st.cutoff, 0) = LedgerAtCutoff(other, st.cutoff, 0)
  OBVIOUS
<1>3. LedgerAtCutoff(Ledger(p), st.cutoff, st.completed)
          = LedgerAtCutoff(other, st.cutoff, st.completed)
  OBVIOUS
<1> HIDE DEF other, st
<1>4. Reading(st, Ledger(p)) = Reading(st, other)
  BY <1>2, <1>3 DEF Reading, AtCompletion
<1> QED
  BY <1>1, <1>4 DEF other, st

(* What a step that takes nothing back adds to the tables.                  *)
FactsAdded ==
    /\ counts \subseteq counts' /\ movements \subseteq movements'
    /\ imports \subseteq imports' /\ sales \subseteq sales'
    /\ \A c \in counts' \ counts : ~(c.id <= last.count)
    /\ \A m \in movements' \ movements :
          /\ ~(m.id <= last.movement)
          /\ \/ m.settlement = NoSettlement
             \/ \E i \in imports' \ imports : m.settlement = i.no
    /\ \A i \in imports' \ imports :
          /\ i.id = last.import + 1 /\ ~i.rolledBack
          /\ \A j \in Active(imports) : j.no # i.no
    /\ \A s \in sales' \ sales : s.import = last.import + 1

LEMMA MovementsAdd ==
    ASSUME NEW added, movements' = movements \cup added,
           UNCHANGED <<counts, imports, sales>>,
           \A m \in added : ~(m.id <= last.movement) /\ m.settlement = NoSettlement
    PROVE  FactsAdded
  BY DEF FactsAdded

LEMMA FactsAreAdded ==
    ASSUME RecordsHold, [StocktakeNext]_allVars
    PROVE  FactsAdded \/ \E i \in imports : RollbackImport(i)
<1>1. /\ last.count \in Nat /\ last.movement \in Nat /\ last.import \in Nat
  BY BoundsAssumption DEF RecordsHold, TypeOK
<1>2. ASSUME UNCHANGED <<counts, movements, imports, sales>> PROVE FactsAdded
  BY <1>2 DEF FactsAdded
<1>3. CASE \/ NextDay \/ SetClockBack \/ UNCHANGED vars
           \/ \E p \in DOMAIN products : StartLinking(p) \/ StopLinking(p)
  <2>1. UNCHANGED <<counts, movements, imports, sales>>
    BY <1>3 DEF NextDay, SetClockBack, StartLinking, StopLinking, vars, tables
  <2> QED
    BY <1>2, <2>1
<1>4. CASE \E op \in Operation : RecordOperation(op)
  <2>1. PICK op \in Operation : RecordOperation(op)
    BY <1>4
  <2>2. Len(op.lines) \in Nat
    BY FilesAssumption, LenProperties
  <2>3. ASSUME NEW m \in Written(op, Len(op.lines))
        PROVE  ~(m.id <= last.movement) /\ m.settlement = NoSettlement
    BY <1>1, <2>2 DEF Written
  <2> QED
    BY <2>1, <2>3, MovementsAdd DEF RecordOperation
<1>5. CASE \E f \in Z004 : ImportSettlement(f)
  <2>1. PICK f \in Z004 : ImportSettlement(f)
    BY <1>5
  <2> DEFINE id == last.import + 1
             new == [id |-> id, hash |-> f.hash, machine |-> f.machine,
                     no |-> f.no, date |-> f.date, rolledBack |-> FALSE]
  <2>2. /\ imports' = imports \cup {new} /\ sales' = sales \cup SaleRows(f, id)
        /\ movements' = movements \cup MovementRows(f, id) /\ counts' = counts
        /\ SettlementRules(f)
    BY <2>1 DEF ImportSettlement
  <2>3. ASSUME NEW m \in MovementRows(f, id)
        PROVE  ~(m.id <= last.movement) /\ m.settlement = f.no
    <3>1. PICK k \in StockLines(f) :
              m.id = last.movement + Rank(k, StockLines(f)) /\ m.settlement = f.no
      BY DEF MovementRows
    <3>2. Cardinality(StockLines(f)) \in Nat
          /\ Rank(k, StockLines(f)) \in 1..Cardinality(StockLines(f))
      BY LinesTyped, RankIsIndex DEF RecordsHold
    <3> QED
      BY <1>1, <3>1, <3>2
  <2>4. \A s \in SaleRows(f, id) : s.import = id
    BY DEF SaleRows
  <2>5. /\ new.id = id /\ new.no = f.no /\ ~new.rolledBack
        /\ \A j \in Active(imports) : j.no # f.no
    BY <2>2 DEF SettlementRules
  <2>6. new \notin imports
    <3>1. \A i \in imports : i.id <= last.import /\ i.id \in Nat
      BY DEF RecordsHold, RecordsInvariant, IdsAreGivenOut, TypeOK, ImportRow
    <3> QED
      BY <1>1, <2>5, <3>1
  <2> HIDE DEF new
  <2> QED
    BY <2>2, <2>3, <2>4, <2>5, <2>6 DEF FactsAdded
<1>6. ASSUME SaveSomeCount PROVE FactsAdded
  <2>1. PICK p, value, fresh, date : SaveCount(p, value, fresh, date)
    BY <1>6 DEF SaveSomeCount
  <2> DEFINE new == NewCount(p, value, fresh, date)
  <2>2. counts' = counts \cup {new} /\ UNCHANGED <<movements, imports, sales>>
    BY <2>1 DEF SaveCount
  <2>3. ~(new.id <= last.count)
    BY <1>1 DEF NewCount
  <2> HIDE DEF new
  <2> QED
    BY <2>2, <2>3 DEF FactsAdded
<1>7. CASE ZeroSomeUncounted
  <2>1. PICK P \in (SUBSET DOMAIN products) \ {{}}, date \in 1..MaxDate :
            ZeroUncounted(P, date)
    BY <1>7 DEF ZeroSomeUncounted
  <2>2. /\ counts' = counts \cup {ZeroCount(P, date, p) : p \in P}
        /\ UNCHANGED <<movements, imports, sales>>
        /\ Cardinality(P) \in Nat /\ \A p \in P : Rank(p, P) \in 1..Cardinality(P)
    BY <2>1, ZeroCounts DEF RecordsHold
  <2>3. ASSUME NEW p \in P PROVE ~(ZeroCount(P, date, p).id <= last.count)
    BY <1>1, <2>2 DEF ZeroCount
  <2> QED
    BY <2>2, <2>3 DEF FactsAdded
<1>8. CASE CreateSomeProduct
  <2>1. PICK p, jan, shared, sync, initial : CreateProduct(p, jan, shared, sync, initial)
    BY <1>8 DEF CreateSomeProduct
  <2> DEFINE row(q) == [id |-> last.movement + 1, product |-> p, qty |-> q,
                        date |-> today, initial |-> TRUE, settlement |-> NoSettlement,
                        import |-> 0, voided |-> FALSE]
             added == {row(q) : q \in {initial} \ {0}}
  <2>2. movements' = movements \cup added /\ UNCHANGED <<counts, imports, sales>>
    BY <2>1 DEF CreateProduct
  <2>3. \A m \in added : ~(m.id <= last.movement) /\ m.settlement = NoSettlement
    BY <1>1
  <2> HIDE DEF added
  <2> QED
    BY <2>2, <2>3, MovementsAdd
<1>9. CASE ImportSomeProducts
  <2>0. PICK f \in ProductFile : \E sent \in SUBSET DOMAIN f : ImportProducts(f, sent)
    BY <1>9 DEF ImportSomeProducts
  <2>1. PICK sent \in SUBSET DOMAIN f : ImportProducts(f, sent)
    BY <2>0
  <2> DEFINE stocked == StockedRows(f, sent)
             row(k) == [id |-> last.movement + Rank(k, stocked),
                        product |-> f[k].product, qty |-> f[k].initial, date |-> today,
                        initial |-> TRUE, settlement |-> NoSettlement, import |-> 0,
                        voided |-> FALSE]
             added == {row(k) : k \in stocked}
  <2>2. movements' = movements \cup added /\ UNCHANGED <<counts, imports, sales>>
    BY <2>1 DEF ImportProducts
  <2>3. stocked \in SUBSET Nat /\ IsFiniteSet(stocked)
    <3>1. Len(f) \in Nat /\ DOMAIN f = 1..Len(f)
      BY ProductRows
    <3>2. IsFiniteSet(1..Len(f)) /\ stocked \in SUBSET (1..Len(f))
      BY <3>1, FS_Interval DEF StockedRows
    <3> QED
      BY <3>1, <3>2, FS_Subset
  <2>4. ASSUME NEW k \in stocked PROVE ~(last.movement + Rank(k, stocked) <= last.movement)
    <3>1. Cardinality(stocked) \in Nat /\ Rank(k, stocked) \in 1..Cardinality(stocked)
      BY <2>3, RankIsIndex
    <3> QED
      BY <1>1, <3>1
  <2> HIDE DEF stocked
  <2>5. \A m \in added : ~(m.id <= last.movement) /\ m.settlement = NoSettlement
    BY <2>4
  <2> HIDE DEF added
  <2> QED
    BY <2>2, <2>5, MovementsAdd
<1> QED
  BY <1>3, <1>4, <1>5, <1>6, <1>7, <1>8, <1>9, RecordsMove DEF Next

(* A stocktake's record is left by facts added that it does not ask for.    *)
LEMMA AddedFactsUnread ==
    ASSUME RecordsHold, FactsAdded, NEW p, NEW cutoff, NEW day, NEW S,
           S = Settlements(imports),
           cutoff.count \in Nat, cutoff.movement \in Nat, cutoff.import \in Nat,
           cutoff.count <= last.count, cutoff.movement <= last.movement,
           cutoff.import <= last.import,
           \A m \in movements' \ movements :
               m.settlement = NoSettlement => ~(m.date <= day),
           \A i \in imports' \ imports :
               ~SettlementKept(i, SettlementNoWithin(S, cutoff.import), day),
           movements' \subseteq MovementRow, counts' \subseteq CountRow
    PROVE  LedgerAtCutoff(Ledger(p), cutoff, day) =
               LedgerAtCutoff(LedgerIn(p, counts', movements', imports', sales'),
                              cutoff, day)
<1> DEFINE T == Settlements(imports')
           n == SettlementNoWithin(S, cutoff.import)
           row(i) == [import |-> i.id, no |-> i.no, date |-> i.date]
<1>1. /\ last.count \in Nat /\ last.movement \in Nat /\ last.import \in Nat
  BY BoundsAssumption DEF RecordsHold, TypeOK
<1>2. Active(imports') = Active(imports) \cup (imports' \ imports)
  BY DEF FactsAdded, Active
<1>3. T = S \cup {row(i) : i \in imports' \ imports}
  BY <1>2 DEF Settlements
<1>4. ASSUME NEW i \in imports' \ imports
      PROVE  /\ row(i).import = last.import + 1 /\ row(i).no = i.no
             /\ row(i).date = i.date
             /\ ~(row(i).import <= cutoff.import)
             /\ ~SettlementKept(row(i), n, day)
  <2>1. i.id = last.import + 1
    BY DEF FactsAdded
  <2>2. ~(i.id <= cutoff.import)
    BY <1>1, <2>1
  <2> QED
    BY <2>1, <2>2 DEF SettlementKept
<1>5. \A t : t.import <= cutoff.import => (t \in S <=> t \in T)
  <2> HIDE DEF row, T
  <2> QED
    BY <1>3, <1>4
<1>6. \A t : SettlementKept(t, n, day) => (t \in S <=> t \in T)
  <2> HIDE DEF row, T, n
  <2> QED
    BY <1>3, <1>4
<1>7. ASSUME NEW c, c.id <= cutoff.count
      PROVE  c \in CountsOf(p, counts) <=> c \in CountsOf(p, counts')
  <2>1. ASSUME c \in counts' \ counts PROVE FALSE
    <3>1. c.id \in Nat /\ ~(c.id <= last.count)
      BY <2>1 DEF FactsAdded, CountRow
    <3> QED
      BY <1>1, <1>7, <3>1
  <2> QED
    BY <2>1 DEF CountsOf, FactsAdded
<1>8. ASSUME NEW m, m \in movements' \ movements
      PROVE  /\ m.settlement = NoSettlement =>
                    ~(m.id <= cutoff.movement) /\ ~(m.date <= day)
             /\ m.settlement # NoSettlement =>
                    \E i \in imports' \ imports : m.settlement = i.no
  <2>1. /\ m.id \in Nat /\ ~(m.id <= last.movement)
        /\ \/ m.settlement = NoSettlement
           \/ \E i \in imports' \ imports : m.settlement = i.no
    BY <1>8 DEF FactsAdded, MovementRow
  <2>2. ~(m.id <= cutoff.movement)
    BY <1>1, <2>1
  <2> QED
    BY <1>8, <2>1, <2>2
<1>9. ASSUME NEW m, m \notin movements' \ movements
      PROVE  m \in MovementsOf(p, movements) <=> m \in MovementsOf(p, movements')
  BY <1>9 DEF MovementsOf, FactsAdded
<1>10. ASSUME NEW m, m.settlement = NoSettlement,
              m.id <= cutoff.movement \/ m.date <= day
       PROVE  m \in MovementsOf(p, movements) <=> m \in MovementsOf(p, movements')
  BY <1>8, <1>9, <1>10
<1>11. ASSUME NEW s \in S, NEW m, m.settlement = s.no
       PROVE  m \in MovementsOf(p, movements) <=> m \in MovementsOf(p, movements')
  <2>1. ASSUME m \in movements' \ movements PROVE FALSE
    <3>1. PICK j \in Active(imports) : s.no = j.no /\ s.no \in Nat
      BY SettlementFields
    <3>2. m.settlement # NoSettlement
      BY <1>11, <3>1 DEF NoSettlement
    <3>3. PICK i \in imports' \ imports : m.settlement = i.no
      BY <1>8, <2>1, <3>2
    <3> QED
      BY <1>11, <3>1, <3>3 DEF FactsAdded
  <2> QED
    BY <1>9, <2>1
<1>12. ASSUME NEW s \in S
       PROVE  s.import \in SaleImports(p, TRUE, imports, sales)
                  <=> s.import \in SaleImports(p, TRUE, imports', sales')
  <2>1. s.import \in Nat /\ s.import # last.import + 1
    BY <1>1, SettlementFields
  <2>2. \A i \in imports' \ imports : i.id # s.import
    BY <2>1 DEF FactsAdded
  <2>3. \A r \in sales' \ sales : r.import # s.import
    BY <2>1 DEF FactsAdded
  <2> DEFINE sold(rows, j) == \E r \in rows :
                 /\ r.import = j.id /\ r.product = p /\ r.linked = TRUE
                 /\ ~r.voided
                 /\ r.qty # 0 \/ r.amount # 0
  <2>4. s.import \in SaleImports(p, TRUE, imports, sales)
            <=> \E j \in Active(imports) : j.id = s.import /\ sold(sales, j)
    BY DEF SaleImports
  <2>5. s.import \in SaleImports(p, TRUE, imports', sales')
            <=> \E j \in Active(imports') : j.id = s.import /\ sold(sales', j)
    BY DEF SaleImports
  <2>6. ASSUME NEW j, j.id = s.import
        PROVE  (sold(sales, j) <=> sold(sales', j))
               /\ (j \in Active(imports) <=> j \in Active(imports'))
    <3>1. sales \subseteq sales'
      BY DEF FactsAdded
    <3>2. sold(sales, j) <=> sold(sales', j)
      BY <2>3, <2>6, <3>1
    <3>3. j \in Active(imports) <=> j \in Active(imports')
      <4> HIDE DEF sold
      <4> QED
        BY <1>2, <2>2, <2>6
    <3> QED
      BY <3>2, <3>3
  <2> HIDE DEF sold
  <2> QED
    BY <2>4, <2>5, <2>6
<1> HIDE DEF T, n, row
<1>13. n = SettlementNoWithin(S, cutoff.import) /\ T = Settlements(imports')
  BY DEF n, T
<1> QED
  BY <1>5, <1>6, <1>7, <1>10, <1>11, <1>12, <1>13, SameReading

LEMMA LaterFactsStep ==
    ASSUME Everything, Everything', [StocktakeNext]_allVars,
           NEW n \in DOMAIN stocktakes, n \notin ActiveStocktakes, Rereads(n)
    PROVE  LET st == stocktakes[n]
           IN  \/ \E i \in Active(imports) : i \notin imports'
               \/ \E m \in movements' \ movements :
                     m.settlement = NoSettlement /\ m.date <= st.completed
               \/ \E i \in imports' \ imports :
                     SettlementKept(i, SettlementNoWithin(Settlements(imports),
                                                          st.cutoff.import),
                                    st.completed)
<1> DEFINE st == stocktakes[n]
           S == Settlements(imports)
           within == SettlementNoWithin(S, st.cutoff.import)
<1>1. RecordsHold /\ TypeOK'
  BY DEF Everything, RecordsHold
<1>2. /\ st.completed \in Nat
      /\ st.cutoff.count \in Nat /\ st.cutoff.movement \in Nat
      /\ st.cutoff.import \in Nat
  BY StocktakeFields, BoundsAssumption DEF Everything, StocktakesHold
<1>3. /\ st.cutoff.count <= last.count /\ st.cutoff.movement <= last.movement
      /\ st.cutoff.import <= last.import
  BY DEF Everything, StocktakesHold, CutoffsGivenOut
<1>4. ASSUME NEW i \in imports, RollbackImport(i)
      PROVE  i \in Active(imports) /\ i \notin imports'
  <2>1. ~i.rolledBack /\ imports' = {[j EXCEPT !.rolledBack = @ \/ j.id = i.id]
                                        : j \in imports}
    BY <1>4 DEF RollbackImport
  <2>2. ASSUME NEW j \in imports
        PROVE  [j EXCEPT !.rolledBack = @ \/ j.id = i.id] # i
    <3> DEFINE marked == [j EXCEPT !.rolledBack = @ \/ j.id = i.id]
    <3>1. marked.id = j.id /\ marked.rolledBack = (j.rolledBack \/ j.id = i.id)
      BY <1>1 DEF RecordsHold, TypeOK, ImportRow
    <3> HIDE DEF marked
    <3> QED
      BY <2>1, <3>1 DEF marked
  <2> QED
    BY <2>1, <2>2 DEF Active
<1>5. SUFFICES ASSUME FactsAdded,
                      \A m \in movements' \ movements :
                          m.settlement = NoSettlement => ~(m.date <= st.completed),
                      \A i \in imports' \ imports :
                          ~SettlementKept(i, within, st.completed)
               PROVE  FALSE
  BY <1>1, <1>4, FactsAreAdded
<1>6. movements' \subseteq MovementRow /\ counts' \subseteq CountRow
      /\ imports' \subseteq ImportRow
  BY <1>1 DEF TypeOK
<1>7. \A m \in movements' \ movements : m.settlement = NoSettlement => ~(m.date <= 0)
  <2>1. ASSUME NEW m \in movements' \ movements, m.settlement = NoSettlement
        PROVE  ~(m.date <= 0)
    <3>1. m.date \in Nat /\ ~(m.date <= st.completed)
      BY <1>5, <1>6, <2>1 DEF MovementRow
    <3> QED
      BY <1>2, <3>1
  <2> QED
    BY <2>1
<1>8. \A i \in imports' \ imports : ~SettlementKept(i, within, 0)
  <2>1. ASSUME NEW i \in imports' \ imports PROVE ~SettlementKept(i, within, 0)
    <3>1. i.date \in Nat /\ ~SettlementKept(i, within, st.completed)
      BY <1>5, <1>6 DEF ImportRow
    <3> HIDE DEF within
    <3> QED
      BY <3>1 DEF SettlementKept
  <2> QED
    BY <2>1
<1>9. ASSUME NEW p, NEW day \in {0, st.completed}
      PROVE  LedgerAtCutoff(Ledger(p), st.cutoff, day) =
                 LedgerAtCutoff(LedgerIn(p, counts', movements', imports', sales'),
                                st.cutoff, day)
  <2>1. /\ \A m \in movements' \ movements :
              m.settlement = NoSettlement => ~(m.date <= day)
        /\ \A i \in imports' \ imports : ~SettlementKept(i, within, day)
    <3> HIDE DEF within, st
    <3> QED
      BY <1>5, <1>7, <1>8
  <2> HIDE DEF st
  <2> QED
    BY <1>1, <1>2, <1>3, <1>5, <1>6, <2>1, AddedFactsUnread
<1> QED
  BY <1>9, SameReadings

(* SPEC-STK-CNT-D6, for every history: what is counted or happens after a    *)
(* completion never changes its record.                                     *)
THEOREM RecordsOutlastLaterFacts == StocktakeSpec => LaterFactsLeaveRecord
<1>1. Everything /\ Everything' /\ [StocktakeNext]_allVars =>
      [\A n \in DOMAIN stocktakes \ ActiveStocktakes : Rereads(n) =>
          LET st == stocktakes[n]
          IN  \/ \E i \in Active(imports) : i \notin imports'
              \/ \E m \in movements' \ movements :
                    m.settlement = NoSettlement /\ m.date <= st.completed
              \/ \E i \in imports' \ imports :
                    SettlementKept(i, SettlementNoWithin(Settlements(imports),
                                                         st.cutoff.import),
                                   st.completed)]_allVars
  BY LaterFactsStep
<1> QED
  BY <1>1, EverythingHolds, PTL DEF StocktakeSpec, LaterFactsLeaveRecord

(* A rollback leaves a record that did not read the settlement it undoes.   *)
LEMMA UndoneUnread ==
    ASSUME RecordsHold, NEW i \in imports, RollbackImport(i), NEW p, NEW cutoff, NEW day,
           NEW S, S = Settlements(imports), NEW n,
           n = SettlementNoWithin(S, cutoff.import),
           ~SettlementKept(i, n, day)
    PROVE  LedgerAtCutoff(Ledger(p), cutoff, day) =
               LedgerAtCutoff(LedgerIn(p, counts', movements', imports', sales'),
                              cutoff, day)
<1> DEFINE T == Settlements(imports')
           undone == [import |-> i.id, no |-> i.no, date |-> i.date]
           mark(j) == [j EXCEPT !.rolledBack = @ \/ j.id = i.id]
           sale(s) == [s EXCEPT !.voided = @ \/ s.import = i.id]
           movement(m) == [m EXCEPT !.voided = @ \/ m.import = i.id]
<1>1. /\ ~i.rolledBack /\ imports' = {mark(j) : j \in imports}
      /\ sales' = {sale(s) : s \in sales} /\ movements' = {movement(m) : m \in movements}
      /\ counts' = counts
  BY DEF RollbackImport
<1>2. ASSUME NEW j \in imports
      PROVE  /\ j.id = i.id => j = i /\ mark(j).rolledBack
             /\ j.id # i.id => mark(j) = j
  BY DEF RecordsHold, TypeOK, ImportRow, ImportIdsDiffer
<1>3. ASSUME NEW s \in sales
      PROVE  /\ s.import = i.id => sale(s).voided
             /\ s.import # i.id => sale(s) = s
  BY DEF RecordsHold, TypeOK, SaleRow
<1>4. ASSUME NEW m \in movements
      PROVE  /\ m.import = i.id => movement(m).voided
             /\ m.import # i.id => movement(m) = m
  BY DEF RecordsHold, TypeOK, MovementRow
<1> HIDE DEF mark, sale, movement
<1>5. Active(imports') = Active(imports) \ {i}
  BY <1>1, <1>2 DEF Active
<1>6. ASSUME NEW j \in Active(imports), j # i
      PROVE  j.id # i.id /\ j.no # i.no
  BY <1>1, <1>6 DEF Active, RecordsHold, ImportIdsDiffer, SettlementsFormOneAxis
<1>7. undone \in S /\ undone.import = i.id /\ undone.no = i.no /\ undone.date = i.date
  BY <1>1 DEF Settlements, Active
<1>8. T = S \ {undone}
  <2>1. ASSUME NEW j \in Active(imports), j # i
        PROVE  [import |-> j.id, no |-> j.no, date |-> j.date] # undone
    <3>1. j.id # i.id
      BY <1>6, <2>1
    <3> QED
      BY <3>1
  <2> HIDE DEF undone
  <2>2. [import |-> i.id, no |-> i.no, date |-> i.date] = undone
    BY DEF undone
  <2> QED
    BY <1>5, <2>1, <2>2 DEF Settlements
<1> HIDE DEF undone, T
<1>9. ~SettlementKept(undone, n, day)
  BY <1>7 DEF SettlementKept
<1>10. ~(undone.import <= cutoff.import)
  <2>1. IsFiniteSet(S) /\ \A s \in S : s.no \in Int
    BY SettlementFields
  <2>2. undone.import <= cutoff.import => undone.no <= n
    BY <1>7, <2>1, NoWithinCovers
  <2> QED
    BY <1>9, <2>2 DEF SettlementKept
<1>11. \A t : t.import <= cutoff.import => (t \in S <=> t \in T)
  BY <1>8, <1>10
<1>12. \A t : SettlementKept(t, n, day) => (t \in S <=> t \in T)
  BY <1>8, <1>9
<1>13. ASSUME NEW m, m \in movements => m.import # i.id
       PROVE  m \in MovementsOf(p, movements) <=> m \in MovementsOf(p, movements')
  BY <1>1, <1>4, <1>13 DEF MovementsOf
<1>14. ASSUME NEW m, m.settlement = NoSettlement
       PROVE  m \in MovementsOf(p, movements) <=> m \in MovementsOf(p, movements')
  <2>1. ASSUME m \in movements PROVE m.import # i.id
    <3>1. ASSUME m.import = i.id PROVE FALSE
      <4>1. m.settlement = i.no /\ i.no \in Nat
        BY <2>1, <3>1 DEF RecordsHold, RecordsInvariant, RowsFollowImports, TypeOK, ImportRow
      <4> QED
        BY <1>14, <4>1 DEF NoSettlement
    <3> QED
      BY <3>1
  <2> QED
    BY <1>13, <2>1
<1>15. ASSUME NEW s \in S, NEW m, SettlementKept(s, n, day), m.settlement = s.no
       PROVE  m \in MovementsOf(p, movements) <=> m \in MovementsOf(p, movements')
  <2>1. ASSUME m \in movements, m.import = i.id PROVE FALSE
    <3>1. m.settlement = i.no
      BY <2>1 DEF RecordsHold, RecordsInvariant, RowsFollowImports
    <3>2. s = undone
      BY <1>7, <1>15, <3>1, SettlementFields
    <3> QED
      BY <1>9, <1>15, <3>2
  <2> QED
    BY <1>13, <2>1
<1>16. ASSUME NEW s \in S, SettlementKept(s, n, day)
       PROVE  s.import \in SaleImports(p, TRUE, imports, sales)
                  <=> s.import \in SaleImports(p, TRUE, imports', sales')
  <2>1. s.import # i.id
    BY <1>7, <1>9, <1>16, SettlementFields
  <2> DEFINE sold(rows, j) == \E r \in rows :
                 /\ r.import = j.id /\ r.product = p /\ r.linked = TRUE
                 /\ ~r.voided
                 /\ r.qty # 0 \/ r.amount # 0
  <2>2. s.import \in SaleImports(p, TRUE, imports, sales)
            <=> \E j \in Active(imports) : j.id = s.import /\ sold(sales, j)
    BY DEF SaleImports
  <2>3. s.import \in SaleImports(p, TRUE, imports', sales')
            <=> \E j \in Active(imports') : j.id = s.import /\ sold(sales', j)
    BY DEF SaleImports
  <2>4. ASSUME NEW j, j.id = s.import
        PROVE  (sold(sales, j) <=> sold(sales', j))
               /\ (j \in Active(imports) <=> j \in Active(imports'))
    <3>1. ASSUME NEW r, r.import = j.id, ~r.voided
          PROVE  r \in sales <=> r \in sales'
      BY <1>1, <1>3, <2>1, <2>4, <3>1
    <3>2. sold(sales, j) <=> sold(sales', j)
      BY <3>1
    <3>3. j \in Active(imports) <=> j \in Active(imports')
      <4> HIDE DEF sold
      <4> QED
        BY <1>5, <2>1, <2>4
    <3> QED
      BY <3>2, <3>3
  <2> HIDE DEF sold
  <2> QED
    BY <2>2, <2>3, <2>4
<1>17. T = Settlements(imports')
  BY DEF T
<1>18. \A c : c.id <= cutoff.count =>
           (c \in CountsOf(p, counts) <=> c \in CountsOf(p, counts'))
  BY <1>1
<1> QED
  BY <1>11, <1>12, <1>14, <1>15, <1>16, <1>17, <1>18, SameReading

LEMMA RollbackStep ==
    ASSUME Everything, [StocktakeNext]_allVars, NEW i \in Active(imports), i \notin imports',
           NEW n \in DOMAIN stocktakes, n \notin ActiveStocktakes, Rereads(n)
    PROVE  n \in ComparingSettlement([import |-> i.id, no |-> i.no, date |-> i.date],
                                     Settlements(imports))
<1> DEFINE st == stocktakes[n]
           S == Settlements(imports)
           within == SettlementNoWithin(S, st.cutoff.import)
           s == [import |-> i.id, no |-> i.no, date |-> i.date]
<1>1. RecordsHold /\ i \in imports
  BY DEF Everything, Active
<1>2. RollbackImport(i)
  <2>1. ~FactsAdded
    BY <1>1 DEF FactsAdded
  <2>2. PICK r \in imports : RollbackImport(r)
    BY <1>1, <2>1, FactsAreAdded
  <2>3. imports' = {[j EXCEPT !.rolledBack = @ \/ j.id = r.id] : j \in imports}
    BY <2>2 DEF RollbackImport
  <2>4. [i EXCEPT !.rolledBack = @ \/ i.id = r.id] \in imports'
    BY <1>1, <2>3
  <2>5. i.id = r.id
    <3>1. ASSUME i.id # r.id PROVE FALSE
      <4>1. [i EXCEPT !.rolledBack = @ \/ i.id = r.id] = i
        BY <1>1, <3>1 DEF RecordsHold, TypeOK, ImportRow
      <4> QED
        BY <2>4, <4>1
    <3> QED
      BY <3>1
  <2>6. i = r
    BY <1>1, <2>5 DEF RecordsHold, ImportIdsDiffer
  <2> QED
    BY <2>2, <2>6
<1>3. st.completed \in Nat /\ st.completed # NotCompleted
  BY StocktakeFields, BoundsAssumption DEF Everything, StocktakesHold, ActiveStocktakes
<1>4. ASSUME ~SettlementKept(i, within, st.completed) PROVE FALSE
  <2>1. ~SettlementKept(i, within, 0)
    <3>1. i.date \in Nat
      BY <1>1 DEF RecordsHold, TypeOK, ImportRow
    <3> HIDE DEF within, st
    <3> QED
      BY <1>3, <1>4, <3>1 DEF SettlementKept
  <2>2. ASSUME NEW p, NEW day \in {0, st.completed}
        PROVE  LedgerAtCutoff(Ledger(p), st.cutoff, day) =
                   LedgerAtCutoff(LedgerIn(p, counts', movements', imports', sales'),
                                  st.cutoff, day)
    <3>1. ~SettlementKept(i, within, day)
      <4> HIDE DEF within, st
      <4> QED
        BY <1>4, <2>1
    <3> HIDE DEF st
    <3> QED
      BY <1>1, <1>2, <3>1, UndoneUnread
  <2> QED
    BY <2>2, SameReadings
<1>5. SettlementKept(s, within, st.completed)
  <2>1. s.no = i.no /\ s.date = i.date
    OBVIOUS
  <2> HIDE DEF s, within, st
  <2> QED
    BY <1>4, <2>1 DEF SettlementKept
<1> HIDE DEF s
<1>6. n \in ComparingSettlement(s, S)
  BY <1>3, <1>5 DEF ComparingSettlement
<1> QED
  BY <1>6 DEF s

(* BIZ-03-D2, for every history: a completed stocktake whose record a        *)
(* rollback changes is one the preview of the rollback names.               *)
THEOREM RollbacksNameStocktakes == StocktakeSpec => RollbackNamesStocktakes
<1>1. Everything /\ [StocktakeNext]_allVars =>
      [\A i \in Active(imports) : i \notin imports' =>
          \A n \in DOMAIN stocktakes \ ActiveStocktakes : Rereads(n) =>
              n \in ComparingSettlement(
                        [import |-> i.id, no |-> i.no, date |-> i.date],
                        Settlements(imports))]_allVars
  BY RollbackStep
<1> QED
  BY <1>1, EverythingHolds, PTL DEF StocktakeSpec, RollbackNamesStocktakes

-----------------------------------------------------------------------------
(* What a completed stocktake still waits for. *)

(* settlement_pending: with nothing pending, a settlement that would be      *)
(* undetermined for the count is of its day and after all that are known.   *)
LEMMA NothingPendingSettles ==
    ASSUME NEW K, IsFiniteSet(K), \A t \in K : t.no \in Nat /\ t.date \in Nat,
           \A t, u \in K : t.no < u.no => t.date <= u.date,
           \A t, u \in K : t.no = u.no => t = u,
           NEW c, c.date \in Nat, c.fresh \in BOOLEAN,
           NEW s, s.no \in Nat, s.date \in Nat,
           c.fresh => ~(s.import <= c.seenImport),
           c.fresh => \A t \in K : t.import <= c.seenImport => t.date <= c.date,
           FitsAxis(s, K), SettlementUndetermined(c, s, K \cup {s}),
           ~SettlementPending(c, K)
    PROVE  s.date = c.date /\ \A t \in K : t.no < s.no
<1> DEFINE n == UsableCursor(c, K)
<1>1. UsableCursor(c, K \cup {s}) = n
  <2>1. c.fresh => {t \in K \cup {s} : t.import <= c.seenImport}
                        = {t \in K : t.import <= c.seenImport}
    OBVIOUS
  <2> QED
    BY <2>1 DEF UsableCursor, SettlementNoWithin
<1>2. n \in Int /\ n >= NoSettlement
      /\ (n # NoSettlement => \E w \in K : w.no = n /\ w.date <= c.date)
  <2> DEFINE seen == {t \in K : t.import <= c.seenImport}
             no == [t \in seen |-> t.no]
             nos == {no[t] : t \in seen}
  <2>1. n = IF c.fresh THEN (IF nos = {} THEN NoSettlement ELSE Max(nos))
                       ELSE NoSettlement
    <3>1. {t.no : t \in seen} = nos
      OBVIOUS
    <3> QED
      BY <3>1 DEF UsableCursor, SettlementNoWithin
  <2>2. IsFiniteSet(nos) /\ nos \in SUBSET Nat /\ nos \in SUBSET Int
    <3>1. IsFiniteSet(seen) /\ DOMAIN no = seen
      BY FS_Subset
    <3>2. IsFiniteSet(nos)
      <4> HIDE DEF no, seen
      <4> QED
        BY <3>1, ImageIsFinite
    <3> QED
      BY <3>2
  <2>3. \A k \in nos : \E w \in K : w.no = k /\ (c.fresh => w.date <= c.date)
    OBVIOUS
  <2> HIDE DEF nos, n
  <2>4. nos # {} => Max(nos) \in nos
    BY <2>2, ExtremesExist
  <2> QED
    BY <2>1, <2>2, <2>3, <2>4 DEF NoSettlement
<1>3. s.no > n /\ s.date >= c.date
  <2>1. ~(s.no <= n) /\ ~(s.date < c.date)
    BY <1>1 DEF SettlementUndetermined, SettlementIncluded
  <2> HIDE DEF n
  <2> QED
    BY <1>2, <2>1
<1>4. s.date # c.date =>
          /\ \A t \in K : t.date # c.date
          /\ \A t \in K : t.date > c.date /\ t.no > n => s.no < t.no
  <2>1. CASE s.date = c.date
    BY <2>1
  <2>2. CASE s.date # c.date
    <3>0. FirstAfter(c, s, K \cup {s}) /\ \A t \in K : t.date # c.date
      BY <2>2 DEF SettlementUndetermined
    <3>1. \A t \in K : t.date > c.date /\ t.no > n => s.no <= t.no
      BY <1>1, <3>0 DEF FirstAfter
    <3>2. \A t \in K : t.no # s.no
      BY DEF FitsAxis
    <3> HIDE DEF n
    <3> QED
      BY <3>0, <3>1, <3>2
  <2> QED
    BY <2>1, <2>2
<1>5. /\ \E t \in K : ~(t.date < c.date)
      /\ \A a, b \in K : a.no + 1 < b.no /\ n + 1 < b.no
             /\ (\A t \in K : t.no <= a.no \/ t.no >= b.no)
             => ~(a.date <= c.date /\ c.date <= b.date)
      /\ n = NoSettlement => \E t \in K : ~(t.date >= c.date)
  BY DEF SettlementPending
<1>6. \A t \in K : /\ t.no # s.no
                   /\ t.no < s.no => t.date <= s.date
                   /\ t.no > s.no => t.date >= s.date
  BY DEF FitsAxis
<1> HIDE DEF n
<1> DEFINE Before == {t \in K : t.no < s.no}
           After == {t \in K : t.no > s.no}
<1>7. ASSUME NEW P \in SUBSET K, P # {}
      PROVE  /\ \E t \in P : \A u \in P : t.no <= u.no
             /\ \E t \in P : \A u \in P : t.no >= u.no
  <2> DEFINE no == [t \in P |-> t.no]
             nos == {no[t] : t \in P}
  <2>1. IsFiniteSet(P) /\ DOMAIN no = P
    BY FS_Subset
  <2>2. IsFiniteSet(nos)
    <3> HIDE DEF no
    <3> QED
      BY <2>1, ImageIsFinite
  <2>3. nos \in SUBSET Int /\ nos # {} /\ (\A t \in P : t.no \in nos)
        /\ \A k \in nos : \E t \in P : t.no = k
    BY <1>7
  <2> HIDE DEF nos
  <2>4. /\ Min(nos) \in nos /\ \A k \in nos : Min(nos) <= k
        /\ Max(nos) \in nos /\ \A k \in nos : Max(nos) >= k
    BY <2>2, <2>3, ExtremesExist
  <2>5. PICK low \in P : low.no = Min(nos)
    BY <2>3, <2>4
  <2>6. PICK high \in P : high.no = Max(nos)
    BY <2>3, <2>4
  <2>7. \A u \in P : low.no <= u.no /\ high.no >= u.no
    BY <2>3, <2>4, <2>5, <2>6
  <2> QED
    BY <2>7
(* A known settlement before s: the last the count had seen, or one of an    *)
(* earlier day.                                                             *)
<1>8. Before # {}
  <2>1. CASE n = NoSettlement
    <3>1. PICK t \in K : ~(t.date >= c.date)
      BY <1>5, <2>1
    <3>2. t.no < s.no
      BY <1>3, <1>6, <3>1
    <3> QED
      BY <3>2
  <2>2. CASE n # NoSettlement
    <3>1. PICK w \in K : w.no = n
      BY <1>2, <2>2
    <3>2. w.no < s.no
      BY <1>3, <3>1
    <3> QED
      BY <3>2
  <2> QED
    BY <2>1, <2>2
<1>9. PICK a \in Before : \A t \in Before : a.no >= t.no
  BY <1>7, <1>8
(* Were there one after s, s would lie in a gap around the count's day.      *)
<1>10. ASSUME After # {} PROVE FALSE
  <2>1. PICK b \in After : \A t \in After : b.no <= t.no
    BY <1>7, <1>10
  <2>2. a \in K /\ b \in K /\ a.no < s.no /\ s.no < b.no
        /\ a.date <= s.date /\ b.date >= s.date
    BY <1>6
  <2>3. a.no + 1 < b.no /\ n + 1 < b.no
    BY <1>2, <1>3, <2>2
  <2>4. \A t \in K : t.no <= a.no \/ t.no >= b.no
    BY <1>6, <1>9, <2>1, <2>2
  <2>5. ~(a.date <= c.date)
    <3>1. ~(a.date <= c.date /\ c.date <= b.date)
      BY <1>5, <2>2, <2>3, <2>4
    <3> QED
      BY <1>3, <2>2, <3>1
  <2>6. s.date # c.date
    BY <2>2, <2>5
  <2>7. ~(a.no > n)
    BY <1>4, <2>2, <2>5, <2>6
  <2>8. PICK w \in K : w.no = n /\ w.date <= c.date
    BY <1>2, <2>2, <2>7 DEF NoSettlement
  <2>9. a.no = w.no \/ a.no < w.no
    BY <2>2, <2>7, <2>8
  <2>10. a.date <= w.date
    BY <2>2, <2>8, <2>9
  <2> QED
    BY <2>2, <2>5, <2>8, <2>10
<1>11. \A t \in K : t.no < s.no
  BY <1>6, <1>10
<1>12. s.date = c.date
  <2>1. PICK t \in K : ~(t.date < c.date)
    BY <1>5
  <2>2. ASSUME s.date # c.date PROVE FALSE
    <3>1. t.no < s.no
      BY <1>11
    <3>2. t.date > c.date /\ ~(t.no > n)
      BY <1>4, <2>1, <2>2, <3>1
    <3>3. PICK w \in K : w.no = n /\ w.date <= c.date
      BY <1>2, <3>2 DEF NoSettlement
    <3>4. t.no = w.no \/ t.no < w.no
      BY <3>2, <3>3
    <3>5. t.date <= w.date
      BY <3>3, <3>4
    <3> QED
      BY <3>2, <3>3, <3>5
  <2> QED
    BY <2>2
<1> QED
  BY <1>11, <1>12

(* The invariant the counts and the settlements of a completion need.       *)
CountsHold == CountsAreDerivable /\ SeenInvariant

LEMMA ClockAdvances ==
    ASSUME TypeOK, [StocktakeNext]_allVars
    PROVE  ~SetClockBack
<1>1. today' = today \/ today' = today + 1
  <2>1. CASE RecordsOnly
    BY <2>1 DEF RecordsOnly, NextDay, RecordOperation, ImportSettlement, RollbackImport,
       SaveSomeCount, SaveCount, StartLinking, StopLinking
  <2>2. CASE \/ StartStocktake \/ (\E n \in DOMAIN stocktakes : CompleteStocktake(n))
             \/ (\E p \in DOMAIN products : ToggleDiscontinue(p)) \/ UNCHANGED allVars
    BY <2>2 DEF StartStocktake, CompleteStocktake, ToggleDiscontinue, allVars, vars
  <2>3. CASE SaveSomeItemCount \/ ZeroSomeUncounted
    BY <2>3 DEF SaveSomeItemCount, SaveItemCount, SaveCount, ZeroSomeUncounted,
       ZeroUncounted
  <2>4. CASE CreateSomeListedProduct
    BY <2>4 DEF CreateSomeListedProduct, CreateListedProduct, CreateProduct
  <2>5. CASE ImportSomeListedProducts
    BY <2>5 DEF ImportSomeListedProducts, ImportListedProducts, ImportProducts
  <2> QED
    BY <2>1, <2>2, <2>3, <2>4, <2>5 DEF StocktakeNext
<1>2. today \in Int
  BY DEF TypeOK, Dates
<1> QED
  BY <1>1, <1>2 DEF SetClockBack

LEMMA CountsHoldStep ==
    ASSUME RegisterLead = 0, RecordsHold, CountsHold, [StocktakeNext]_allVars
    PROVE  CountsHold'
<1>1. CASE [Next]_vars
  <2>1. ~SetClockBack
    BY ClockAdvances DEF RecordsHold
  <2>2. CountsAreDerivable' /\ SeenInvariant'
    BY <1>1, <2>1, DerivableStep, SeenStep DEF RecordsHold, CountsHold
  <2> QED
    BY <2>2 DEF CountsHold
<1>2. CASE ZeroSomeUncounted
  <2>1. PICK P \in (SUBSET DOMAIN products) \ {{}}, date \in 1..MaxDate :
            ZeroUncounted(P, date)
    BY <1>2 DEF ZeroSomeUncounted
  <2>2. /\ counts' = counts \cup {ZeroCount(P, date, p) : p \in P}
        /\ UNCHANGED <<today, imports>> /\ Recompute(products, P)
    BY <2>1, ZeroCounts DEF RecordsHold
  <2>3. ASSUME NEW q \in Product PROVE Derivable(CountsOf(q, counts'))
    <3>1. CASE q \in P
      BY <2>2, <3>1 DEF Recompute
    <3>2. CASE q \notin P
      <4>1. \A p \in P : ZeroCount(P, date, p).product = p
        BY DEF ZeroCount
      <4>2. CountsOf(q, counts') = CountsOf(q, counts)
        BY <2>2, <3>2, <4>1 DEF CountsOf
      <4> QED
        BY <4>2 DEF CountsHold, CountsAreDerivable
    <3> QED
      BY <3>1, <3>2
  <2>4. \A p \in P : ~ZeroCount(P, date, p).fresh
    BY DEF ZeroCount
  <2>5. SeenInvariant'
    BY <2>2, <2>4 DEF CountsHold, SeenInvariant, ImportsAreOfFiles, FreshCountsSawEarlier
  <2> QED
    BY <2>3, <2>5 DEF CountsHold, CountsAreDerivable
<1> QED
  BY <1>1, <1>2, RecordsMove

LEMMA CountsHoldInit == StocktakeInit => CountsHold
<1> SUFFICES ASSUME StocktakeInit PROVE CountsHold
  OBVIOUS
<1>1. counts = {} /\ imports = {}
  BY DEF StocktakeInit, Init
<1> QED
  BY <1>1 DEF CountsHold, CountsAreDerivable, Derivable, CountsOf, SeenInvariant,
     ImportsAreOfFiles, FreshCountsSawEarlier

LEMMA CompletionSettles ==
    ASSUME Everything, CountsHold, [StocktakeNext]_allVars,
           NEW n \in DOMAIN stocktakes, Completes(n),
           NEW p \in DOMAIN stocktakes[n].items, NEW c \in CountsInEffect(p),
           NEW no \in 0..(MaxImport + 1), NEW date \in 1..(MaxDate + 1),
           NEW s, s = [import |-> last.import + 1, no |-> no, date |-> date],
           FitsAxis(s, Settlements(imports)),
           SettlementUndetermined(c, s, Settlements(imports) \cup {s})
    PROVE  date = c.date /\ \A t \in Settlements(imports) : t.no < no
<1> DEFINE K == Settlements(imports)
<1>1. RecordsHold /\ TypeOK /\ CompleteStocktake(n) /\ StocktakesHold
  BY CompletionStep DEF Everything, RecordsHold
<1>2. ~Blocked(stocktakes[n].items[p], p)
  BY <1>1, Completion
<1>3. ~SettlementPending(c, K)
  BY <1>2 DEF Blocked
<1>4. c \in counts
  <2>1. CountsOf(p, counts) # {} /\ Bases(CountsOf(p, counts)) = CountsInEffect(p)
    BY DEF CountsInEffect
  <2>2. p \in Product
    BY <1>1, StocktakeFields DEF StocktakesHold
  <2>3. EffectiveCounts(CountsOf(p, counts)) # {}
    BY <2>1, <2>2 DEF CountsHold, CountsAreDerivable, Derivable
  <2>4. IsFiniteSet(CountsOf(p, counts))
    BY <1>1, FS_Subset DEF CountsOf, RecordsHold, RecordsInvariant, RowsAreFinite
  <2>5. \A d \in CountsOf(p, counts) : d.value \in Int /\ d.id \in Int /\ d.fresh \in BOOLEAN
    BY <1>1, ShopAssumption DEF CountsOf, TypeOK, CountRow
  <2>6. Bases(CountsOf(p, counts)) \in SUBSET CountsOf(p, counts)
    BY <2>3, <2>4, <2>5, BasesAreEffective
  <2> QED
    BY <2>1, <2>6 DEF CountsOf
<1>5. c.date \in Nat /\ c.fresh \in BOOLEAN /\ c.seenImport \in Nat
      /\ c.seenImport <= last.import
  BY <1>1, <1>4 DEF TypeOK, CountRow, Dates, RecordsHold, RecordsInvariant, IdsAreGivenOut
<1>6. /\ IsFiniteSet(K) /\ \A t \in K : t.no \in Nat /\ t.date \in Nat
      /\ \A t, u \in K : t.no = u.no => t = u
  BY <1>1, SettlementFields
<1>7. ASSUME NEW t \in K, NEW u \in K, t.no < u.no PROVE t.date <= u.date
  <2>1. PICK i \in Active(imports) : t.no = i.no /\ t.date = i.date
    BY <1>1, SettlementFields
  <2>2. PICK j \in Active(imports) : u.no = j.no /\ u.date = j.date
    BY <1>1, SettlementFields
  <2>3. i # j
    BY <1>6, <1>7, <2>1, <2>2
  <2> QED
    BY <1>1, <1>7, <2>1, <2>2, <2>3 DEF RecordsHold, SettlementsFormOneAxis
<1>8. c.fresh => \A t \in K : t.import <= c.seenImport => t.date <= c.date
  <2>1. ASSUME c.fresh, NEW t \in K, t.import <= c.seenImport
        PROVE  t.date <= c.date
    <3>1. PICK i \in Active(imports) : t.import = i.id /\ t.date = i.date
      BY <1>1, SettlementFields
    <3>2. i \in imports /\ i.id <= c.seenImport
      BY <2>1, <3>1 DEF Active
    <3> QED
      BY <1>4, <2>1, <3>1, <3>2 DEF CountsHold, SeenInvariant, FreshCountsSawEarlier
  <2> QED
    BY <2>1
<1>9. /\ s.no = no /\ s.date = date /\ no \in Nat /\ date \in Nat
      /\ s.import = last.import + 1
  OBVIOUS
<1>10. ~(s.import <= c.seenImport)
  <2>1. last.import \in Nat
    BY <1>1, BoundsAssumption DEF TypeOK
  <2> QED
    BY <1>5, <1>9, <2>1
<1>11. FitsAxis(s, K) /\ SettlementUndetermined(c, s, K \cup {s})
  OBVIOUS
<1> HIDE DEF K
<1>12. s.date = c.date /\ \A t \in K : t.no < s.no
  BY <1>3, <1>5, <1>6, <1>7, <1>8, <1>9, <1>10, <1>11, NothingPendingSettles
<1> QED
  BY <1>9, <1>12 DEF K

(* SPEC-STK-CNT-D6, while the register's clock is not ahead of the PC's:     *)
(* when a stocktake completes, a settlement that is still to come and would  *)
(* be undetermined for a count it rests on is a further one of the count's   *)
(* day (the accepted hole H2).  With a settlement dated ahead of the PC a     *)
(* fresh count may have seen one of a later day than its own.               *)
THEOREM CompletionsAreSettled ==
    ASSUME RegisterLead = 0
    PROVE  StocktakeSpec => CompletionIsSettled
<1>1. StocktakeSpec => []CountsHold
  <2>1. RecordsHold /\ CountsHold /\ [StocktakeNext]_allVars => CountsHold'
    BY CountsHoldStep
  <2> QED
    BY <2>1, CountsHoldInit, RecordsAlwaysHold, PTL DEF StocktakeSpec
<1>2. Everything /\ CountsHold /\ [StocktakeNext]_allVars =>
      [\A n \in DOMAIN stocktakes : Completes(n) =>
          \A p \in DOMAIN stocktakes[n].items :
          \A c \in CountsInEffect(p), no \in 0..(MaxImport + 1),
             date \in 1..(MaxDate + 1) :
              LET known == Settlements(imports)
                  s == [import |-> last.import + 1, no |-> no, date |-> date]
              IN  /\ FitsAxis(s, known)
                  /\ SettlementUndetermined(c, s, known \cup {s})
                  => date = c.date /\ \A t \in known : t.no < no]_allVars
  BY CompletionSettles
<1> QED
  BY <1>1, <1>2, EverythingHolds, PTL DEF StocktakeSpec, CompletionIsSettled
=============================================================================
