-------------------------- MODULE InventoryRecords --------------------------
(***************************************************************************)
(* The records of the shop and the stock copied from them.                 *)
(*                                                                         *)
(* The database holds stock counts, movements, register imports (Z004) and *)
(* their sales; products carries a copy of the stock derived from them.    *)
(* Every command that writes one of these runs in one SQLite transaction   *)
(* under the single connection mutex of AppState, so each is one action    *)
(* here: its checks are the guard, a refusal or a failed transaction leaves *)
(* the state unchanged and is not an action.                               *)
(*                                                                         *)
(* A Z004 import is one action of this module although the program reads    *)
(* the file in one command and commits it in a later one: the commit looks  *)
(* up the settlement rules, the products of every row and their linking     *)
(* again inside its transaction and refuses when they differ.               *)
(***************************************************************************)
EXTENDS StockLedger, Sequences

CONSTANTS
    Product,        \* product codes; numbers stand for the codes' SQL order
    Jan, NoJan,     \* barcodes, and the absence of one
    Catalogue,      \* products registered at the start: code -> [jan, sync]
    Z004,           \* register files: [hash, machine, no, date, rows]
    Operation,      \* stock operations: [date, lines], a line [product, qty]
    ProductFile,    \* files of products: rows [product, jan, link, initial]
    CountValue,     \* the numbers the shop counts
    InitialStock,   \* the initial stocks a product is registered with
    MaxStock,       \* MAX_STOCK_QUANTITY
    RegisterLead,   \* days the register's clock may be ahead of the PC's
    ClockMayGoBack, \* whether the PC's clock may be set back
    MaxDate, MaxCount, MaxMovement, MaxImport  \* bounds on the behaviours

Sharing(table, p, q) ==
    q # p /\ table[p].jan = table[q].jan /\ table[p].jan # NoJan

(* What the proofs and the runs assume of the shop and of its files; the    *)
(* file's parser and the forms of the screens give nothing else.            *)
ASSUME BoundsAssumption ==
    /\ MaxStock \in Nat /\ RegisterLead \in Nat
    /\ MaxDate \in Nat \ {0}
    /\ MaxCount \in Nat /\ MaxMovement \in Nat /\ MaxImport \in Nat
    /\ ClockMayGoBack \in BOOLEAN

ASSUME ShopAssumption ==
    /\ IsFiniteSet(Product) /\ Product \subseteq Nat
    /\ NoJan \notin Jan
    /\ DOMAIN Catalogue \subseteq Product
    /\ Catalogue \in [DOMAIN Catalogue -> [jan : Jan \cup {NoJan},
                                           sync : BOOLEAN]]
    /\ \A p, q \in DOMAIN Catalogue :
          Sharing(Catalogue, p, q) => ~Catalogue[p].sync
    /\ CountValue \subseteq Nat /\ InitialStock \subseteq Nat

ASSUME FilesAssumption ==
    /\ \A f \in Z004 :
          /\ f.no \in Nat /\ f.date \in Nat \ {0}
          /\ f.rows \in Seq([jan : Jan, qty : Int, amount : Int])
    /\ \A op \in Operation :
          /\ op.date \in Nat \ {0}
          /\ op.lines \in Seq([product : Product, qty : Int \ {0}])

(* A file's row names its product once; the link may be left as it is.     *)
ASSUME ProductFilesAssumption ==
    \A f \in ProductFile :
        /\ f \in Seq([product : Product, jan : Jan \cup {NoJan},
                      link : {"keep", "on", "off"}, initial : Nat])
        /\ \A j, k \in DOMAIN f : f[j].product = f[k].product => j = k

VARIABLES
    today,          \* the PC's date, which the commands pass down
    products,       \* code -> [jan, sync, stock, range]
    counts,         \* stock_counts
    movements,      \* inventory_movements
    imports,        \* csv_imports
    sales,          \* sale_records of the imports
    last            \* the last id given out in each table (AUTOINCREMENT)

tables == <<products, counts, movements, imports, sales, last>>
vars == <<today, tables>>

(***************************************************************************)
(* Reading the records of one product (read_ledger) out of the tables given *)
(* as rows.                                                                 *)
(***************************************************************************)
Candidates(jan) == {p \in DOMAIN products : products[p].jan = jan}

Active(importRows) == {i \in importRows : ~i.rolledBack}

Settlements(importRows) ==
    {[import |-> i.id, no |-> i.no, date |-> i.date] : i \in Active(importRows)}

(* Active imports with a sale of p that was (or was not) stock-linked. *)
SaleImports(p, linked, importRows, saleRows) ==
    {i.id : i \in {j \in Active(importRows) : \E s \in saleRows :
        /\ s.import = j.id /\ s.product = p /\ s.linked = linked
        /\ ~s.voided
        /\ s.qty # 0 \/ s.amount # 0}}

CountsOf(p, countRows) == {c \in countRows : c.product = p}

MovementsOf(p, movementRows) ==
    {m \in movementRows : m.product = p /\ ~m.voided}

LedgerIn(p, countRows, movementRows, importRows, saleRows) ==
    [counts |-> CountsOf(p, countRows),
     movements |-> MovementsOf(p, movementRows),
     settlements |-> Settlements(importRows),
     linkedImports |-> SaleImports(p, TRUE, importRows, saleRows)]

Ledger(p) == LedgerIn(p, counts, movements, imports, sales)

(***************************************************************************)
(* Writing the copy (recompute_stock) from the tables as the command leaves *)
(* them: the derived values must lie within the stock limit, or the whole   *)
(* transaction is undone.                                                   *)
(***************************************************************************)
StockLimit == (-MaxStock)..MaxStock

(* Mutated: the limit is not checked. *)
AnyStock(derived) == TRUE

WithinStockLimit(derived) ==
    /\ derived.stock \in StockLimit
    /\ derived.range # NoRange =>
          derived.range[1] \in StockLimit /\ derived.range[2] \in StockLimit

Recompute(table, P) ==
    \E derived \in {[p \in P |->
            Derive(LedgerIn(p, counts', movements', imports', sales'))]} :
        /\ \A p \in P : /\ Derivable(CountsOf(p, counts'))
                        /\ WithinStockLimit(derived[p])
        /\ products' = [p \in DOMAIN table |->
                IF p \in P THEN [table[p] EXCEPT !.stock = derived[p].stock,
                                                !.range = derived[p].range]
                           ELSE table[p]]

(* The products a change of the settlement list concerns: those that have   *)
(* counts and those of the import (recompute_for_settlement_change).        *)
(* Mutated: only the products of the import. *)
ImportedProducts(import, saleRows, movementRows) ==
    {s.product : s \in {t \in saleRows : t.import = import}}
        \cup {m.product : m \in {n \in movementRows : n.import = import}}

SettlementTargets(import, saleRows, movementRows) ==
    {c.product : c \in counts}
        \cup {s.product : s \in {t \in saleRows : t.import = import}}
        \cup {m.product : m \in {n \in movementRows : n.import = import}}

(***************************************************************************)
(* The environment: the PC's clock.                                         *)
(***************************************************************************)
NextDay ==
    /\ today < MaxDate
    /\ today' = today + 1
    /\ UNCHANGED tables

SetClockBack ==
    /\ ClockMayGoBack
    /\ \E d \in 1..(today - 1) : today' = d
    /\ UNCHANGED tables

(***************************************************************************)
(* Receiving, returns, disposal and manual sales (apply_stock_change).      *)
(* The lines are written and recomputed one after the other, and each of    *)
(* the recomputations must stay within the limit.                           *)
(***************************************************************************)
Written(op, k) ==
    {[id |-> last.movement + j, product |-> op.lines[j].product,
      qty |-> op.lines[j].qty, date |-> op.date, initial |-> FALSE,
      settlement |-> NoSettlement, import |-> 0, voided |-> FALSE] : j \in 1..k}

AfterLine(op, k) ==
    LET p == op.lines[k].product
    IN  [Ledger(p) EXCEPT
            !.movements = MovementsOf(p, movements \cup Written(op, k))]

RecordOperation(op) ==
    /\ last.movement + Len(op.lines) <= MaxMovement
    /\ \A k \in DOMAIN op.lines :
          /\ op.lines[k].product \in DOMAIN products
          /\ WithinStockLimit(Derive(AfterLine(op, k)))
    /\ movements' = movements \cup Written(op, Len(op.lines))
    /\ last' = [last EXCEPT !.movement = @ + Len(op.lines)]
    /\ UNCHANGED <<today, counts, imports, sales>>
    /\ Recompute(products, {op.lines[k].product : k \in DOMAIN op.lines})

(***************************************************************************)
(* The import of a register settlement: check_settlement_rules, then the    *)
(* sales of the rows whose JAN is registered, and movements for the rows    *)
(* of a linked product.  A JAN several products share is credited to the    *)
(* first of them and moves no stock.                                        *)
(***************************************************************************)
(* Mutated: the register is compared with the active imports only. *)
ActiveSettlementRules(f) ==
    \A i \in Active(imports) :
        /\ i.machine = f.machine /\ i.hash # f.hash /\ i.no # f.no
        /\ i.no < f.no => i.date <= f.date
        /\ i.no > f.no => i.date >= f.date

SettlementRules(f) ==
    /\ \A i \in imports : i.machine = f.machine
    /\ \A i \in Active(imports) :
          /\ i.hash # f.hash
          /\ i.no # f.no
          /\ i.no < f.no => i.date <= f.date
          /\ i.no > f.no => i.date >= f.date

FirstCandidate(jan) == Min(Candidates(jan))

RowLinked(row) ==
    Cardinality(Candidates(row.jan)) = 1 /\ products[FirstCandidate(row.jan)].sync

(* The lines of the file that become sales, and those that become movements. *)
MatchedLines(f) ==
    {k \in DOMAIN f.rows : /\ f.rows[k].qty # 0 \/ f.rows[k].amount # 0
                           /\ Candidates(f.rows[k].jan) # {}}

(* Mutated: the stock moves whether or not the product is linked. *)
StockLinesOfAll(f) == {k \in MatchedLines(f) : f.rows[k].qty # 0}

StockLines(f) ==
    {k \in MatchedLines(f) : RowLinked(f.rows[k]) /\ f.rows[k].qty # 0}

Rank(k, S) == Cardinality({j \in S : j <= k})

SaleRows(f, id) ==
    {[import |-> id, line |-> k, product |-> FirstCandidate(f.rows[k].jan),
      qty |-> f.rows[k].qty, amount |-> f.rows[k].amount,
      linked |-> RowLinked(f.rows[k]), voided |-> FALSE] : k \in MatchedLines(f)}

MovementRows(f, id) ==
    {[id |-> last.movement + Rank(k, StockLines(f)),
      product |-> FirstCandidate(f.rows[k].jan), qty |-> -f.rows[k].qty,
      date |-> f.date, initial |-> FALSE, settlement |-> f.no, import |-> id,
      voided |-> FALSE] : k \in StockLines(f)}

ImportSettlement(f) ==
    /\ last.import < MaxImport
    /\ last.movement + Cardinality(StockLines(f)) <= MaxMovement
    /\ f.date <= today + RegisterLead
    /\ SettlementRules(f)
    /\ LET id == last.import + 1 IN
       /\ imports' = imports \cup
             {[id |-> id, hash |-> f.hash, machine |-> f.machine,
               no |-> f.no, date |-> f.date, rolledBack |-> FALSE]}
       /\ sales' = sales \cup SaleRows(f, id)
       /\ movements' = movements \cup MovementRows(f, id)
       /\ last' = [last EXCEPT !.import = id,
                               !.movement = @ + Cardinality(StockLines(f))]
    /\ UNCHANGED <<today, counts>>
    /\ Recompute(products, SettlementTargets(last'.import, sales', movements'))

(***************************************************************************)
(* The rollback of an import (apply_rollback).  A second rollback does      *)
(* nothing.                                                                 *)
(***************************************************************************)
RollbackImport(import) ==
    /\ ~import.rolledBack
    /\ imports' = {[i EXCEPT !.rolledBack = @ \/ i.id = import.id]
                      : i \in imports}
    /\ sales' = {[s EXCEPT !.voided = @ \/ s.import = import.id] : s \in sales}
    /\ movements' = {[m EXCEPT !.voided = @ \/ m.import = import.id]
                        : m \in movements}
    /\ UNCHANGED <<today, counts, last>>
    /\ Recompute(products, SettlementTargets(import.id, sales, movements))

(***************************************************************************)
(* Saving a count (save_stock_count): a fresh count is of today and notes   *)
(* what was saved before it, a default one is of any day up to today.       *)
(***************************************************************************)
NewCount(p, value, fresh, date) ==
    [id |-> last.count + 1, product |-> p, value |-> value, fresh |-> fresh,
     date |-> date,
     seenMovement |-> IF fresh THEN last.movement ELSE 0,
     seenImport |-> IF fresh THEN last.import ELSE 0]

CountDateAllowed(fresh, date) == date <= today /\ (fresh => date = today)

SaveCount(p, value, fresh, date) ==
    /\ last.count < MaxCount
    /\ CountDateAllowed(fresh, date)
    /\ counts' = counts \cup {NewCount(p, value, fresh, date)}
    /\ last' = [last EXCEPT !.count = @ + 1]
    /\ UNCHANGED <<today, movements, imports, sales>>
    /\ Recompute(products, {p})

(***************************************************************************)
(* Products: registration, and switching the stock link on and off.         *)
(***************************************************************************)

(* shared_jan_conflict: a linked product shares its JAN with no other.      *)
(* Mutated: only the others' links are looked at. *)
SharedWithLinked(table, p) ==
    \E q \in DOMAIN table : Sharing(table, p, q) /\ table[q].sync

SharesLinkedJan(table, p) ==
    \E q \in DOMAIN table :
        Sharing(table, p, q) /\ (table[p].sync \/ table[q].sync)

(* A product registered with a JAN of its own, or under a code of the       *)
(* shop's with a JAN others have: those lose their link.                    *)
CreateProduct(p, jan, shared, sync, initial) ==
    LET relinked == {q \in Candidates(jan) :
                        shared /\ jan # NoJan /\ products[q].sync}
        table == [q \in DOMAIN products \cup {p} |->
                    IF q = p THEN [jan |-> jan, sync |-> sync,
                                   stock |-> initial, range |-> NoRange]
                    ELSE IF q \in relinked
                         THEN [products[q] EXCEPT !.sync = FALSE]
                         ELSE products[q]]
    IN  /\ p \notin DOMAIN products
        /\ initial > 0 => last.movement < MaxMovement
        /\ jan # NoJan /\ ~shared => Candidates(jan) = {}
        /\ ~SharesLinkedJan(table, p)
        /\ movements' = movements \cup
              {[id |-> last.movement + 1, product |-> p, qty |-> q,
                date |-> today, initial |-> TRUE, settlement |-> NoSettlement,
                import |-> 0, voided |-> FALSE] : q \in {initial} \ {0}}
        /\ last' = [last EXCEPT !.movement = IF initial > 0 THEN @ + 1 ELSE @]
        /\ UNCHANGED <<today, counts, imports, sales>>
        /\ Recompute(table, {p} \cup relinked)

(* The link may start only when every unlinked register sale is contained   *)
(* in the count the stock is derived from.                                  *)
StartLinking(p) ==
    LET table == [products EXCEPT ![p].sync = TRUE]
    IN  /\ ~products[p].sync
        /\ ~SharesLinkedJan(table, p)
        /\ UnlinkedSalesCounted(Ledger(p),
                                SaleImports(p, FALSE, imports, sales))
        /\ UNCHANGED <<today, counts, movements, imports, sales, last>>
        /\ Recompute(table, {p})

StopLinking(p) ==
    /\ products[p].sync
    /\ UNCHANGED <<today, counts, movements, imports, sales, last>>
    /\ Recompute([products EXCEPT ![p].sync = FALSE], {p})

(***************************************************************************)
(* The bulk import of products (commit_import): the rows the screen sends   *)
(* of a file, first those of new products and then the duplicates chosen to *)
(* be overwritten, are checked and written one after the other in one       *)
(* transaction; the first row refused undoes them all.  What is sent goes   *)
(* by a preview that may be of long ago, so it is any part of the file.     *)
(***************************************************************************)
IsNew(row) == row.product \notin DOMAIN products

LinkOf(row) ==
    \/ row.link = "on"
    \/ row.link = "keep" /\ (IsNew(row) \/ products[row.product].sync)

WrittenProduct(row) ==
    IF IsNew(row)
    THEN [jan |-> row.jan, sync |-> LinkOf(row),
          stock |-> row.initial, range |-> NoRange]
    ELSE [products[row.product] EXCEPT !.jan = row.jan, !.sync = LinkOf(row)]

RowFor(f, done, p) == CHOOSE k \in done : f[k].product = p

(* The products once the rows done of the file are written. *)
AfterRows(f, done) ==
    LET written == {f[k].product : k \in done}
    IN  [p \in DOMAIN products \cup written |->
            IF p \in written THEN WrittenProduct(f[RowFor(f, done, p)])
                              ELSE products[p]]

SentBefore(f, sent, k) ==
    {j \in sent : IF IsNew(f[j]) = IsNew(f[k]) THEN j < k ELSE IsNew(f[j])}

(* import_row_link_error.                                                   *)
RowAllowed(f, done, k) ==
    LET p == f[k].product
    IN  /\ ~SharesLinkedJan(AfterRows(f, done \cup {k}), p)
        /\ p \in DOMAIN products /\ ~products[p].sync /\ LinkOf(f[k]) =>
              UnlinkedSalesCounted(Ledger(p),
                                   SaleImports(p, FALSE, imports, sales))

StockedRows(f, sent) == {k \in sent : IsNew(f[k]) /\ f[k].initial > 0}

RecomputedRows(f, sent) ==
    {k \in sent : IsNew(f[k]) \/ LinkOf(f[k]) # products[f[k].product].sync}

ImportProducts(f, sent) ==
    LET stocked == StockedRows(f, sent)
    IN  /\ last.movement + Cardinality(stocked) <= MaxMovement
        /\ \A k \in sent : RowAllowed(f, SentBefore(f, sent, k), k)
        /\ movements' = movements \cup
              {[id |-> last.movement + Rank(k, stocked),
                product |-> f[k].product, qty |-> f[k].initial, date |-> today,
                initial |-> TRUE, settlement |-> NoSettlement, import |-> 0,
                voided |-> FALSE] : k \in stocked}
        /\ last' = [last EXCEPT !.movement = @ + Cardinality(stocked)]
        /\ UNCHANGED <<today, counts, imports, sales>>
        /\ Recompute(AfterRows(f, sent),
                     {f[k].product : k \in RecomputedRows(f, sent)})

(* preview_import: the new rows one after the other, each with the earlier   *)
(* ones that pass; then each duplicate with all of those.                   *)
(* Mutated: the duplicates are held against the database as it is. *)
PassedDuplicatesAlone(f, new) ==
    {k \in DOMAIN f : ~IsNew(f[k]) /\ RowAllowed(f, {}, k)}

PassedNew(f) ==
    LET passed[n \in 0..Len(f)] ==
            IF n = 0 THEN {}
            ELSE passed[n - 1] \cup
                    {k \in {n} : IsNew(f[k]) /\ RowAllowed(f, passed[n - 1], k)}
    IN  passed[Len(f)]

PassedDuplicates(f, new) ==
    {k \in DOMAIN f : ~IsNew(f[k]) /\ RowAllowed(f, new, k)}

-----------------------------------------------------------------------------
Init ==
    /\ today = 1
    /\ products = [p \in DOMAIN Catalogue |->
                     [jan |-> Catalogue[p].jan, sync |-> Catalogue[p].sync,
                      stock |-> 0, range |-> NoRange]]
    /\ counts = {} /\ movements = {} /\ imports = {} /\ sales = {}
    /\ last = [count |-> 0, movement |-> 0, import |-> 0]

SaveSomeCount ==
    \E p \in DOMAIN products, value \in CountValue, fresh \in BOOLEAN,
       date \in 1..MaxDate : SaveCount(p, value, fresh, date)

CreateSomeProduct ==
    \E p \in Product, jan \in Jan \cup {NoJan}, shared \in BOOLEAN,
       sync \in BOOLEAN, initial \in InitialStock :
          CreateProduct(p, jan, shared, sync, initial)

ImportSomeProducts ==
    \E f \in ProductFile : \E sent \in SUBSET DOMAIN f : ImportProducts(f, sent)

Next ==
    \/ NextDay
    \/ SetClockBack
    \/ \E op \in Operation : RecordOperation(op)
    \/ \E f \in Z004 : ImportSettlement(f)
    \/ \E i \in imports : RollbackImport(i)
    \/ SaveSomeCount
    \/ CreateSomeProduct
    \/ \E p \in DOMAIN products : StartLinking(p)
    \/ \E p \in DOMAIN products : StopLinking(p)
    \/ ImportSomeProducts

Spec == Init /\ [][Next]_vars

-----------------------------------------------------------------------------
(* The tables hold rows of their shapes, with ids the tables gave out.      *)
Dates == 1..MaxDate

CountRow == [id : 1..MaxCount, product : Product,
             value : CountValue \cup {0},  \* a stocktake counts 0 for the rest
             fresh : BOOLEAN, date : Dates,
             seenMovement : 0..MaxMovement, seenImport : 0..MaxImport]

MovementRow == [id : 1..MaxMovement, product : Product, qty : Int, date : Nat,
                initial : BOOLEAN, settlement : Nat \cup {NoSettlement},
                import : 0..MaxImport, voided : BOOLEAN]

ImportRow == [id : 1..MaxImport, hash : {f.hash : f \in Z004},
              machine : {f.machine : f \in Z004}, no : Nat, date : Nat,
              rolledBack : BOOLEAN]

SaleRow == [import : 1..MaxImport, line : Nat, product : Product, qty : Int,
            amount : Int, linked : BOOLEAN, voided : BOOLEAN]

ProductRow == [jan : Jan \cup {NoJan}, sync : BOOLEAN, stock : StockLimit,
               range : {NoRange} \cup (StockLimit \X StockLimit)]

TypeOK ==
    /\ today \in Dates
    /\ DOMAIN products \subseteq Product
    /\ products \in [DOMAIN products -> ProductRow]
    /\ counts \subseteq CountRow
    /\ movements \subseteq MovementRow
    /\ imports \subseteq ImportRow
    /\ sales \subseteq SaleRow
    /\ last \in [count : 0..MaxCount, movement : 0..MaxMovement,
                 import : 0..MaxImport]

(* SPEC-STK-CNT-D2: the copy of every product is what its records derive,   *)
(* after every command that writes any record.  A settlement concerns       *)
(* products it has no row of: it may become the first after a count, or     *)
(* move the cursor of a fresh one.                                          *)
CopyIsDerived ==
    \A p \in DOMAIN products :
        LET derived == Derive(Ledger(p))
        IN  /\ products[p].stock = derived.stock
            /\ products[p].range = derived.range

(* A count the screen permits can always be placed among the product's      *)
(* counts: effective_counts never meets a cycle and refuses the save        *)
(* (stock_ledger.rs, the comment in effective_counts).                      *)
CountsAreOrdered ==
    \A p \in DOMAIN products, value \in CountValue, fresh \in BOOLEAN,
       date \in Dates :
        CountDateAllowed(fresh, date) =>
            Derivable(CountsOf(p, counts) \cup {NewCount(p, value, fresh, date)})

(* SPEC-STK-CNT-D3: the range is exactly the span of the stocks the records *)
(* allow, over each count that may be the latest (of equal ones the fresh   *)
(* one, whose contents are known) and each choice of which undetermined     *)
(* movements it already contains; without a range there is one such stock,  *)
(* and it is the copy.                                                      *)
PossibleStocks(p) ==
    LET open(c) == {m \in Ledger(p).movements :
                       Undetermined(c, m, Settlements(imports))}
        sure(c) == {m \in Ledger(p).movements \ open(c) :
                       ~Included(c, m, Settlements(imports))}
    IN  UNION {{c.value + Total(sure(c) \cup applied) :
                   applied \in SUBSET open(c)} :
               c \in Bases(CountsOf(p, counts))}

RangeSpansPossibleStocks ==
    \A p \in DOMAIN products :
        CountsOf(p, counts) # {} =>
            IF products[p].range = NoRange
            THEN PossibleStocks(p) = {products[p].stock}
            ELSE /\ products[p].range = <<Min(PossibleStocks(p)),
                                          Max(PossibleStocks(p))>>
                 /\ products[p].stock \in PossibleStocks(p)

(* SPEC-STK-CNT-D4: the active settlements lie on one axis - one register,  *)
(* each number and each file once, dates in the order of the numbers -      *)
(* whatever is rolled back and imported again in between.                   *)
SettlementsFormOneAxis ==
    /\ \A i, j \in imports : i.machine = j.machine
    /\ \A i, j \in Active(imports) : i # j =>
          /\ i.no # j.no /\ i.hash # j.hash
          /\ i.no < j.no => i.date <= j.date

(* SPEC-STK-CNT-D7: an import's rows stand and fall with it, and a product's *)
(* movements of it are the linked sales of it, taken out of the stock.      *)
ImportRowsAgree ==
    /\ \A i \in imports :
          /\ \A s \in sales : s.import = i.id => s.voided = i.rolledBack
          /\ \A m \in movements : m.import = i.id =>
                /\ m.voided = i.rolledBack
                /\ m.settlement = i.no /\ m.date = i.date
          /\ \A p \in DOMAIN products :
                Total({m \in movements : m.import = i.id /\ m.product = p})
                  = -Total({s \in sales : /\ s.import = i.id /\ s.linked
                                          /\ s.product = p})
    /\ \A m \in movements : m.import = 0 => ~m.voided

(* SPEC-STK-CNT-D7: a file a fresh count had seen is, once imported again   *)
(* after its rollback, contained in the count or shown for a recheck; its   *)
(* sales are never taken out a second time without a word.  Holds while the *)
(* register's clock is not ahead of the PC's.                               *)
ReimportIsNeverTakenTwice ==
    \A c \in counts, i \in imports, j \in Active(imports) :
        c.fresh /\ i.id <= c.seenImport /\ i.hash = j.hash =>
            LET s == [no |-> j.no, date |-> j.date]
            IN  \/ SettlementIncluded(c, s, Settlements(imports))
                \/ SettlementUndetermined(c, s, Settlements(imports))

(* A product whose sales move its stock shares its barcode with no other:   *)
(* a register row of it belongs to it alone.                                *)
LinkedJanIsUnshared ==
    \A p, q \in DOMAIN products :
        Sharing(products, p, q) => ~products[p].sync

(* BIZ-01 4.7: with nothing in between, the commit takes the rows the        *)
(* preview has passed - all the new ones and one chosen duplicate of them;  *)
(* several may be at odds with each other and are refused by name.          *)
PreviewedRowsAreTaken ==
    \A f \in ProductFile :
        LET new == PassedNew(f)
        IN  \A sent \in {new} \cup {new \cup {k} : k \in PassedDuplicates(f, new)} :
            \A k \in sent : RowAllowed(f, SentBefore(f, sent, k), k)

(* SPEC-STK-CNT-D5: counting now settles the product, whatever was          *)
(* undetermined or in conflict before.                                      *)
FreshCountSettles ==
    [][\A c \in counts' \ counts : c.fresh =>
          /\ products'[c.product].stock = c.value
          /\ products'[c.product].range = NoRange]_vars
=============================================================================
