---------------------------- MODULE StockLedger ----------------------------
(***************************************************************************)
(* The recomputation of a product's stock from its records                 *)
(* (src-tauri/src/biz/stock_ledger.rs, BIZ-02).                            *)
(*                                                                         *)
(* Records are the truth.  A product's ledger is a record                  *)
(*   counts        its stock counts (append-only),                         *)
(*   movements     its movements that are not voided,                      *)
(*   settlements   the register settlements (Z004) that are imported and   *)
(*                 not rolled back - the same for every product,           *)
(*   linkedImports the ids of active imports with a stock-linked sale of   *)
(*                 the product.                                            *)
(* Everything here is a pure function of a ledger.  Dates are naturals: the *)
(* code compares ISO dates as strings, which is the order of the days.      *)
(* A settlement number may be 0 in the code, so the absence of one is       *)
(* NoSettlement = -1; row ids start at 1, so the absence of a cursor is 0.  *)
(***************************************************************************)
EXTENDS Integers, FiniteSets, FiniteSetsExt

NoSettlement == -1
NoRange == <<>>

(***************************************************************************)
(* Counts between themselves.  A default count stands for its whole date,   *)
(* a fresh one for the instant it is saved.                                 *)
(***************************************************************************)
(* Mutated: any count saved later comes after a fresh one. *)
IsAfterLastSaved(a, b) ==
    \/ a.fresh /\ b.fresh /\ b.id < a.id
    \/ a.fresh /\ ~b.fresh /\ (b.id < a.id \/ b.date < a.date)
    \/ ~a.fresh /\ b.fresh /\ b.id < a.id
    \/ ~a.fresh /\ ~b.fresh /\ b.date < a.date

(* Mutated: a fresh count is placed by its date alone. *)
IsAfterByDate(a, b) ==
    \/ a.fresh /\ b.fresh /\ b.id < a.id
    \/ ~(a.fresh /\ b.fresh) /\ b.date < a.date

IsAfter(a, b) ==
    \/ a.fresh /\ b.fresh /\ b.id < a.id
    \/ a.fresh /\ ~b.fresh /\ (b.id < a.id \/ b.date < a.date)
    \/ ~a.fresh /\ b.fresh /\ b.id < a.id /\ b.date < a.date
    \/ ~a.fresh /\ ~b.fresh /\ b.date < a.date

(* The counts no other count comes after. *)
EffectiveCounts(counts) ==
    {c \in counts : \A other \in counts : ~IsAfter(other, c)}

Conflicting(counts) ==
    \E a, b \in EffectiveCounts(counts) : a.value # b.value

(* The order of effective_counts: smaller value, then fresh, then older. *)
ComesFirst(a, b) ==
    \/ a.value < b.value
    \/ a.value = b.value /\ a.fresh /\ ~b.fresh
    \/ a.value = b.value /\ a.fresh = b.fresh /\ a.id <= b.id

Representative(counts) ==
    CHOOSE c \in EffectiveCounts(counts) :
        \A other \in EffectiveCounts(counts) : ComesFirst(c, other)

(* The counts the stock is derived from: every effective count when their   *)
(* values conflict, else the representative alone.                          *)
Bases(counts) ==
    IF Conflicting(counts) THEN EffectiveCounts(counts)
                           ELSE {Representative(counts)}

(* effective_counts fails when counts exist but none is effective. *)
Derivable(counts) == counts = {} \/ EffectiveCounts(counts) # {}

(***************************************************************************)
(* Which settlements a count already contains.                              *)
(***************************************************************************)
SettlementNoWithin(settlements, cursor) ==
    LET seen == {s.no : s \in {t \in settlements : t.import <= cursor}}
    IN  IF seen = {} THEN NoSettlement ELSE Max(seen)

UsableCursor(c, settlements) ==
    IF c.fresh THEN SettlementNoWithin(settlements, c.seenImport)
               ELSE NoSettlement

SettlementIncluded(c, s, settlements) ==
    s.no <= UsableCursor(c, settlements) \/ s.date < c.date

(* s is the first imported settlement after the count's date. *)
FirstAfter(c, s, settlements) ==
    LET later == {t.no : t \in {u \in settlements :
                      u.date > c.date /\ u.no > UsableCursor(c, settlements)}}
    IN  s.no \in later /\ \A k \in later : s.no <= k

(* Mutated: a settlement of the count's own date is taken as later. *)
UndeterminedOnlyAfter(c, s, settlements) ==
    /\ ~SettlementIncluded(c, s, settlements)
    /\ \A t \in settlements : t.date # c.date
    /\ FirstAfter(c, s, settlements)

SettlementUndetermined(c, s, settlements) ==
    /\ ~SettlementIncluded(c, s, settlements)
    /\ \/ s.date = c.date
       \/ /\ \A t \in settlements : t.date # c.date
          /\ FirstAfter(c, s, settlements)

(***************************************************************************)
(* Which movements a count already contains.  A Z004 movement is judged as  *)
(* its settlement, the initial stock precedes every count.                  *)
(***************************************************************************)
AsSettlement(m) == [no |-> m.settlement, date |-> m.date]

Included(c, m, settlements) ==
    \/ m.initial
    \/ /\ m.settlement # NoSettlement
       /\ SettlementIncluded(c, AsSettlement(m), settlements)
    \/ /\ m.settlement = NoSettlement
       /\ (c.fresh /\ m.id <= c.seenMovement) \/ m.date < c.date

Undetermined(c, m, settlements) ==
    /\ ~Included(c, m, settlements)
    /\ IF m.settlement = NoSettlement
       THEN m.date = c.date
       ELSE SettlementUndetermined(c, AsSettlement(m), settlements)

(***************************************************************************)
(* The stock as seen from one count (from_count) and from all of them       *)
(* (derive_ledger).                                                         *)
(***************************************************************************)
Total(movements) == MapThenSumSet(LAMBDA m : m.qty, movements)

FromCount(c, ledger) ==
    LET open == {m \in ledger.movements :
                    Undetermined(c, m, ledger.settlements)}
        after == {m \in ledger.movements :
                    /\ ~Included(c, m, ledger.settlements)
                    /\ ~Undetermined(c, m, ledger.settlements)}
        base == c.value + Total(after)
        low  == base + Total({m \in open : m.qty < 0})
        gain == Total({m \in open : m.qty >= 0})
    IN  [stock |-> low + gain, low |-> low, high |-> base + gain,
         undeterminedSettlement |->
            \/ \E m \in open : m.settlement # NoSettlement
            \/ \E s \in ledger.settlements :
                  /\ s.import \in ledger.linkedImports
                  /\ SettlementUndetermined(c, s, ledger.settlements),
         undeterminedMovement |-> \E m \in open : m.settlement = NoSettlement]

RecheckReasons(ledger) ==
    LET parts == {FromCount(c, ledger) : c \in Bases(ledger.counts)}
    IN  {reason \in {"undetermined_settlement", "same_date_movement",
                     "conflicting_counts"} :
            \/ /\ reason = "undetermined_settlement"
               /\ \E part \in parts : part.undeterminedSettlement
            \/ /\ reason = "same_date_movement"
               /\ \E part \in parts : part.undeterminedMovement
            \/ /\ reason = "conflicting_counts"
               /\ Conflicting(ledger.counts)}

(* Mutated: the range of the representative, whatever the others say. *)
DeriveFromRepresentative(ledger) ==
    IF ledger.counts = {}
    THEN [stock |-> Total(ledger.movements), range |-> NoRange]
    ELSE LET part == FromCount(Representative(ledger.counts), ledger)
         IN  [stock |-> part.stock,
              range |-> IF RecheckReasons(ledger) = {} THEN NoRange
                        ELSE <<part.low, part.high>>]

(* What the copy in products holds: the stock and, while the product is to  *)
(* be rechecked, the smallest and the largest stock it may have.            *)
Derive(ledger) ==
    IF ledger.counts = {}
    THEN [stock |-> Total(ledger.movements), range |-> NoRange]
    ELSE LET parts == {FromCount(c, ledger) : c \in Bases(ledger.counts)}
         IN  [stock |-> FromCount(Representative(ledger.counts), ledger).stock,
              range |-> IF RecheckReasons(ledger) = {} THEN NoRange
                        ELSE <<Min({part.low : part \in parts}),
                               Max({part.high : part \in parts})>>]

(***************************************************************************)
(* What the readers ask of a ledger.                                        *)
(***************************************************************************)

(* representative_count: the book stock is derived from the records the     *)
(* representative contains; the difference is what the count corrected.     *)
CountDifference(ledger) ==
    LET rep == Representative(ledger.counts)
        book == [counts |-> {c \in ledger.counts : IsAfter(rep, c)},
                 movements |-> {m \in ledger.movements :
                                   Included(rep, m, ledger.settlements)},
                 settlements |-> ledger.settlements,
                 linkedImports |-> {}]
    IN  rep.value - Derive(book).stock

(* unlinked_sales_counted: every import with an unlinked sale of the        *)
(* product (imports) is contained in the one effective value.               *)
UnlinkedSalesCounted(ledger, imports) ==
    \/ imports = {}
    \/ /\ ledger.counts # {}
       /\ ~Conflicting(ledger.counts)
       /\ \A i \in imports : \E s \in ledger.settlements :
             /\ s.import = i
             /\ SettlementIncluded(Representative(ledger.counts), s,
                                   ledger.settlements)
=============================================================================
