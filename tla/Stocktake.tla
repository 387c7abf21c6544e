----------------------------- MODULE Stocktake -----------------------------
(***************************************************************************)
(* Stocktakes over the records (stocktake_service.rs, BIZ-06).             *)
(*                                                                         *)
(* A stocktake lists the products to be counted, and when it is completed  *)
(* keeps what each was valued at and, as cutoff, the last ids the tables    *)
(* had given out.  It moves no stock; its record is read again from the     *)
(* records each time it is shown, cut off at the completion.                *)
(***************************************************************************)
EXTENDS InventoryRecords

CONSTANT MaxStocktake   \* bound on the behaviours

ASSUME StocktakeAssumption == MaxStocktake \in Nat

VARIABLES
    stocktakes,     \* id -> [completed, cutoff, items]
    discontinued    \* products.is_discontinued

stocktakeVars == <<stocktakes, discontinued>>
allVars == <<vars, stocktakeVars>>

NotCompleted == 0       \* stands for the date while in progress
NoCutoff == [count |-> 0, movement |-> 0, import |-> 0]
NewItem == [counted |-> FALSE, valuation |-> 0]

ActiveStocktakes ==
    {n \in DOMAIN stocktakes : stocktakes[n].completed = NotCompleted}

(* The stocktakes once the items of P in the active one are counted. *)
Counted(P) ==
    [n \in DOMAIN stocktakes |->
        IF n \in ActiveStocktakes
        THEN [stocktakes[n] EXCEPT !.items =
                [p \in DOMAIN @ |-> IF p \in P
                                    THEN [@[p] EXCEPT !.counted = TRUE]
                                    ELSE @[p]]]
        ELSE stocktakes[n]]

-----------------------------------------------------------------------------
(* Reading the records as of a completion (ledger_at_cutoff): what had its   *)
(* id by then; for the comparison shown after it also what was entered later *)
(* but concerns the days before.  day is the completion's date, or 0.       *)
(* Mutated: the last settlement the completion had seen is left out. *)
KeptBefore(s, n, day) == s.no < n \/ s.date < day

SettlementKept(s, n, day) == s.no <= n \/ s.date < day

(* Mutated: the counts saved after the completion are read with it. *)
LedgerWithLaterCounts(ledger, cutoff, day) ==
    LET n == SettlementNoWithin(ledger.settlements, cutoff.import)
        kept == {s \in ledger.settlements : SettlementKept(s, n, day)}
    IN  [ledger EXCEPT
            !.movements = {m \in @ :
                IF m.settlement = NoSettlement
                THEN m.id <= cutoff.movement \/ m.date <= day
                ELSE m.settlement \in {s.no : s \in kept}},
            !.settlements = kept,
            !.linkedImports = {s.import : s \in kept} \cap @]

LedgerAtCutoff(ledger, cutoff, day) ==
    LET n == SettlementNoWithin(ledger.settlements, cutoff.import)
        kept == {s \in ledger.settlements : SettlementKept(s, n, day)}
    IN  [counts |-> {c \in ledger.counts : c.id <= cutoff.count},
         movements |-> {m \in ledger.movements :
            IF m.settlement = NoSettlement
            THEN m.id <= cutoff.movement \/ m.date <= day
            ELSE m.settlement \in {s.no : s \in kept}},
         settlements |-> kept,
         linkedImports |-> {s.import : s \in kept} \cap ledger.linkedImports]

(* The stock at the completion as the records tell it now, and whether it    *)
(* departs from what the item was valued at (after_completion_diff).        *)
AtCompletion(st, ledger) ==
    Derive(LedgerAtCutoff(ledger, st.cutoff, st.completed))

Value(stock) == IF stock < 0 THEN 0 ELSE stock

Departs(item, derived) ==
    \/ Value(derived.stock) # item.valuation
    \/ \E k \in DOMAIN derived.range : Value(derived.range[k]) # item.valuation

(* What the record's detail shows of an item: the count it rests on, how     *)
(* much that corrected, and the stock after later entries.                  *)
Reading(st, ledger) ==
    LET cut == LedgerAtCutoff(ledger, st.cutoff, 0)
    IN  [rests |-> IF cut.counts = {} THEN {}
                                      ELSE {Representative(cut.counts)},
         corrected |-> IF cut.counts = {} THEN 0 ELSE CountDifference(cut),
         at |-> AtCompletion(st, ledger)]

(* The completed stocktakes whose comparison a settlement enters             *)
(* (completed_stocktakes_comparing_settlement): the rollback's preview       *)
(* names them.                                                              *)
(* Mutated: the preview goes by the settlement's date alone. *)
ComparingByDate(s, settlements) ==
    {n \in DOMAIN stocktakes : s.date < stocktakes[n].completed}

ComparingSettlement(s, settlements) ==
    {n \in DOMAIN stocktakes :
        /\ stocktakes[n].completed # NotCompleted
        /\ SettlementKept(s, SettlementNoWithin(settlements,
                                                stocktakes[n].cutoff.import),
                          stocktakes[n].completed)}

-----------------------------------------------------------------------------
(* A settlement that could still turn out undetermined for a count may be    *)
(* missing (settlement_pending): none on or after its date, a gap in the     *)
(* numbers around its date, or none before its date.                        *)
(* Mutated: gaps in the numbers are not looked at. *)
PendingAtEnds(c, settlements) ==
    \/ \A s \in settlements : s.date < c.date
    \/ /\ UsableCursor(c, settlements) = NoSettlement
       /\ \A s \in settlements : s.date >= c.date

SettlementPending(c, settlements) ==
    LET n == UsableCursor(c, settlements)
    IN  \/ \A s \in settlements : s.date < c.date
        \/ \E a, b \in settlements :
              /\ a.no + 1 < b.no /\ n + 1 < b.no
              /\ \A s \in settlements : s.no <= a.no \/ s.no >= b.no
              /\ a.date <= c.date /\ c.date <= b.date
        \/ n = NoSettlement /\ \A s \in settlements : s.date >= c.date

CountsInEffect(p) ==
    IF CountsOf(p, counts) = {} THEN {} ELSE Bases(CountsOf(p, counts))

(* What keeps a stocktake from being completed, for one item.               *)
Blocked(item, p) ==
    \/ products[p].range # NoRange
    \/ ~(item.counted \/ (p \in discontinued /\ products[p].stock = 0))
    \/ \E c \in CountsInEffect(p) : SettlementPending(c, Settlements(imports))

StartStocktake ==
    /\ ActiveStocktakes = {}
    /\ DOMAIN products # {}
    /\ Len(stocktakes) < MaxStocktake
    /\ stocktakes' = Append(stocktakes,
          [completed |-> NotCompleted, cutoff |-> NoCutoff,
           items |-> [p \in DOMAIN products |-> NewItem]])
    /\ UNCHANGED <<vars, discontinued>>

CompleteStocktake(n) ==
    LET items == stocktakes[n].items
    IN  /\ stocktakes[n].completed = NotCompleted
        /\ \A p \in DOMAIN items : ~Blocked(items[p], p)
        /\ stocktakes' = [stocktakes EXCEPT ![n] =
              [completed |-> today, cutoff |-> last,
               items |-> [p \in DOMAIN items |->
                  [items[p] EXCEPT !.valuation = Value(products[p].stock)]]]]
        /\ UNCHANGED <<vars, discontinued>>

(* A count saved from the stocktake's screen notes its item; one saved from  *)
(* the list of products to recheck may have none.                           *)
SaveItemCount(p, value, fresh, date) ==
    /\ \E n \in ActiveStocktakes : p \in DOMAIN stocktakes[n].items
    /\ SaveCount(p, value, fresh, date)
    /\ stocktakes' = Counted({p})
    /\ UNCHANGED discontinued

(* zero_uncounted_items: a default count of 0 for each of the chosen items.  *)
ZeroUncounted(P, date) ==
    LET rank(p) == Cardinality({q \in P : q <= p})
    IN  /\ \E n \in ActiveStocktakes : P \subseteq DOMAIN stocktakes[n].items
        /\ last.count + Cardinality(P) <= MaxCount
        /\ CountDateAllowed(FALSE, date)
        /\ counts' = counts \cup
              {[NewCount(p, 0, FALSE, date) EXCEPT !.id = last.count + rank(p)]
                  : p \in P}
        /\ last' = [last EXCEPT !.count = @ + Cardinality(P)]
        /\ UNCHANGED <<today, movements, imports, sales, discontinued>>
        /\ Recompute(products, P)
        /\ stocktakes' = Counted(P)

(* A product registered during a stocktake joins it.                        *)
Listing(P) ==
    [n \in DOMAIN stocktakes |->
        IF n \in ActiveStocktakes
        THEN [stocktakes[n] EXCEPT !.items =
                [p \in DOMAIN @ \cup P |-> IF p \in DOMAIN @ THEN @[p] ELSE NewItem]]
        ELSE stocktakes[n]]

(* Mutated: the stocktake in progress does not learn of the product. *)
CreateUnlistedProduct(p, jan, shared, sync, initial) ==
    /\ CreateProduct(p, jan, shared, sync, initial)
    /\ UNCHANGED stocktakeVars

CreateListedProduct(p, jan, shared, sync, initial) ==
    /\ CreateProduct(p, jan, shared, sync, initial)
    /\ stocktakes' = Listing({p})
    /\ UNCHANGED discontinued

ImportListedProducts(f, sent) ==
    /\ ImportProducts(f, sent)
    /\ stocktakes' = Listing({f[k].product : k \in {j \in sent : IsNew(f[j])}})
    /\ UNCHANGED discontinued

ToggleDiscontinue(p) ==
    /\ discontinued' = IF p \in discontinued THEN discontinued \ {p}
                                             ELSE discontinued \cup {p}
    /\ UNCHANGED <<vars, stocktakes>>

-----------------------------------------------------------------------------
StocktakeInit == Init /\ stocktakes = <<>> /\ discontinued = {}

RecordsOnly ==
    /\ \/ NextDay
       \/ \E op \in Operation : RecordOperation(op)
       \/ \E f \in Z004 : ImportSettlement(f)
       \/ \E i \in imports : RollbackImport(i)
       \/ SaveSomeCount
       \/ \E p \in DOMAIN products : StartLinking(p) \/ StopLinking(p)
    /\ UNCHANGED stocktakeVars

SaveSomeItemCount ==
    \E p \in DOMAIN products, value \in CountValue, fresh \in BOOLEAN,
       date \in 1..MaxDate : SaveItemCount(p, value, fresh, date)

ZeroSomeUncounted ==
    \E P \in (SUBSET DOMAIN products) \ {{}}, date \in 1..MaxDate :
        ZeroUncounted(P, date)

CreateSomeListedProduct ==
    \E p \in Product, jan \in Jan \cup {NoJan}, shared \in BOOLEAN,
       sync \in BOOLEAN, initial \in InitialStock :
          CreateListedProduct(p, jan, shared, sync, initial)

ImportSomeListedProducts ==
    \E f \in ProductFile : \E sent \in SUBSET DOMAIN f :
        ImportListedProducts(f, sent)

StocktakeNext ==
    \/ RecordsOnly
    \/ StartStocktake
    \/ \E n \in DOMAIN stocktakes : CompleteStocktake(n)
    \/ SaveSomeItemCount
    \/ ZeroSomeUncounted
    \/ CreateSomeListedProduct
    \/ ImportSomeListedProducts
    \/ \E p \in DOMAIN products : ToggleDiscontinue(p)

StocktakeSpec == StocktakeInit /\ [][StocktakeNext]_allVars

-----------------------------------------------------------------------------
(* A stocktake in progress lists every product of the shop, also those       *)
(* registered since it began; there is at most one.                         *)
ItemsCoverProducts ==
    /\ Cardinality(ActiveStocktakes) <= 1
    /\ \A n \in ActiveStocktakes :
          DOMAIN stocktakes[n].items = DOMAIN products

Completes(n) ==
    /\ n \in ActiveStocktakes
    /\ stocktakes'[n].completed # NotCompleted

(* SPEC-STK-CNT-D6: read back at once, a completed stocktake shows no        *)
(* difference after the completion: the cutoff takes in all that the         *)
(* valuation was made from.                                                 *)
NoDifferenceAtCompletion ==
    [][\A n \in DOMAIN stocktakes : Completes(n) =>
          \A p \in DOMAIN stocktakes[n].items :
              ~Departs(stocktakes'[n].items[p],
                       AtCompletion(stocktakes'[n], Ledger(p)))]_allVars

(* SPEC-STK-CNT-D6: when a stocktake completes, no settlement that could     *)
(* still be imported would be undetermined for a count it rests on, save a   *)
(* further settlement of the day of the count (the accepted hole H2).       *)
FitsAxis(s, settlements) ==
    \A t \in settlements : /\ t.no # s.no
                           /\ t.no < s.no => t.date <= s.date
                           /\ t.no > s.no => t.date >= s.date

CompletionIsSettled ==
    [][\A n \in DOMAIN stocktakes : Completes(n) =>
          \A p \in DOMAIN stocktakes[n].items :
          \A c \in CountsInEffect(p), no \in 0..(MaxImport + 1),
             date \in 1..(MaxDate + 1) :
              LET known == Settlements(imports)
                  s == [import |-> last.import + 1, no |-> no, date |-> date]
              IN  /\ FitsAxis(s, known)
                  /\ SettlementUndetermined(c, s, known \cup {s})
                  => date = c.date /\ \A t \in known : t.no < no]_allVars

Rereads(n) ==
    \E p \in DOMAIN stocktakes[n].items :
        Reading(stocktakes[n], Ledger(p)) #
        Reading(stocktakes[n],
                LedgerIn(p, counts', movements', imports', sales'))

(* BIZ-03-D2: the rollback's preview names every completed stocktake whose   *)
(* record the rollback changes.                                             *)
RollbackNamesStocktakes ==
    [][\A i \in Active(imports) : i \notin imports' =>
          \A n \in DOMAIN stocktakes \ ActiveStocktakes : Rereads(n) =>
              n \in ComparingSettlement(
                        [import |-> i.id, no |-> i.no, date |-> i.date],
                        Settlements(imports))]_allVars

(* SPEC-STK-CNT-D6: what was counted or happened after a completion never    *)
(* changes its record; only a rollback does, a movement dated up to its day, *)
(* or a settlement of before its day or of a number it had passed.          *)
LaterFactsLeaveRecord ==
    [][\A n \in DOMAIN stocktakes \ ActiveStocktakes : Rereads(n) =>
          LET st == stocktakes[n]
          IN  \/ \E i \in Active(imports) : i \notin imports'
              \/ \E m \in movements' \ movements :
                    m.settlement = NoSettlement /\ m.date <= st.completed
              \/ \E i \in imports' \ imports :
                    SettlementKept(i, SettlementNoWithin(Settlements(imports),
                                                         st.cutoff.import),
                                   st.completed)]_allVars
=============================================================================
