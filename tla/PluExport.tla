----------------------------- MODULE PluExport -----------------------------
(***************************************************************************)
(* The export of products to the cash register (biz/plu_export_service.rs)  *)
(* with the marks the product commands leave on the products                *)
(* (biz/product_service.rs) and the file the screen keeps until the clerk    *)
(* confirms it (src/features/plu-export/PluExportPage.tsx).                 *)
(*                                                                         *)
(* The register has numbered memories.  The program keeps a slot for each,   *)
(* reserves one for a barcode when it writes the file, and counts it as      *)
(* taken once the clerk says that the file went in.  Between the file and    *)
(* that confirmation anything may change: products, slots, another file.    *)
(***************************************************************************)
EXTENDS Integers, FiniteSets, FiniteSetsExt

CONSTANTS
    Product,        \* product codes
    Jan,            \* barcodes that pass validate_plu_jan, in SQL order
    Price, Tax,     \* selling prices and tax rates
    LastSlot,       \* the register's memories of scanned products: 1..LastSlot
    Catalogue,      \* the products registered at first
    Observation,    \* contents the register may be read with: slot -> barcode
    MaxEdit, MaxRead  \* bounds on the behaviours: changes of products,
                      \*   readings of the register

NoJan == 0          \* no barcode, or one the register cannot hold
Slot == 1..LastSlot

Marked == [jan : Jan \cup {NoJan}, price : Price, tax : Tax,
           target : BOOLEAN, discontinued : BOOLEAN, dirty : BOOLEAN]

ASSUME PluAssumption ==
    /\ Jan \subseteq Nat \ {NoJan}
    /\ {LastSlot, MaxEdit, MaxRead} \subseteq Nat
    /\ DOMAIN Catalogue \subseteq Product
    /\ Catalogue \in [DOMAIN Catalogue -> Marked]
    /\ Observation \subseteq [Slot -> Jan \cup {NoJan}]

VARIABLES
    products,       \* code -> Marked
    slots,          \* plu_slots: memory -> [code, status, activated]
    snapshotTaken,  \* whether the register was ever read
    unsaved,        \* the file prepared and not saved yet (the screen's)
    saved,          \* the file saved and not confirmed yet (localStorage)
    edits, reads    \* changes of products and readings of the register so far

database == <<products, slots, snapshotTaken>>
screen == <<unsaved, saved>>
vars == <<database, screen, edits, reads>>

NoFile == {}                \* a file is a set of rows, and never empty
Nothing == [code |-> NoJan] \* what a memory holds that was cleared

Managed == {"reserved", "active"}
Live == Managed \cup {"external"}
Status == Live \cup {"free", "release_pending"}

FreeSlot == [code |-> NoJan, status |-> "free", activated |-> FALSE]

With(table, jan, states) ==
    {s \in Slot : table[s].code = jan /\ table[s].status \in states}

(* The partial unique index on the live slots' barcodes: a command that      *)
(* would break it fails and is undone.                                      *)
LiveCodesUnique(table) ==
    \A jan \in Jan : Cardinality(With(table, jan, Live)) <= 1

Sold(product) == product.target /\ ~product.discontinued

(* Whether a product is sold under a barcode of the register (is_eligible_jan). *)
IsSold(table, jan) ==
    jan \in Jan /\ \E p \in DOMAIN table : table[p].jan = jan /\ Sold(table[p])

-----------------------------------------------------------------------------
(* Reading the register (import_plu_register_snapshot): the table after one  *)
(* more memory was seen to hold code.                                       *)
Observed(table, s, code) ==
    LET slot == table[s]
        Put(status) == [table EXCEPT ![s] = [code |-> code, status |-> status,
                                             activated |-> status = "active"]]
    IN  CASE code = NoJan ->
                IF slot.status \in Managed THEN table ELSE [table EXCEPT ![s] = FreeSlot]
          [] code # NoJan /\ slot.status = "free" ->
                Put(IF ~IsSold(products, code) THEN "external"
                    ELSE IF With(table, code, Managed) # {} THEN "release_pending"
                    ELSE "active")
          [] code # NoJan /\ slot.status = "reserved" ->
                Put(IF slot.code = code THEN "active" ELSE "external")
          [] code # NoJan /\ slot.status # "free" /\ slot.status # "reserved" ->
                IF slot.status = "active" \/ slot.code = code THEN table ELSE Put("external")

(* A memory that should hold a product and holds something else.             *)
Conflicting(s, code) == slots[s].status = "active" /\ slots[s].code # code

ReadRegister ==
    /\ reads < MaxRead /\ reads' = reads + 1
    /\ \E seen \in Observation :
       LET after[n \in 0..LastSlot] ==
              IF n = 0 THEN slots ELSE Observed(after[n - 1], n, seen[n])
           lost == {slots[s].code : s \in {t \in Slot : Conflicting(t, seen[t])}}
       IN  /\ \A n \in Slot : LiveCodesUnique(after[n])
           /\ slots' = after[LastSlot]
           /\ products' = [p \in DOMAIN products |->
                 [products[p] EXCEPT !.dirty = @ \/ products[p].jan \in lost]]
           /\ snapshotTaken' = TRUE
           /\ UNCHANGED <<screen, edits>>

-----------------------------------------------------------------------------
(* Writing a file (prepare_plu_export).                                     *)
Selected(mode) ==
    {p \in DOMAIN products :
        /\ products[p].target
        /\ IF mode = "full" THEN ~products[p].discontinued ELSE products[p].dirty}

Group(mode, jan) == {p \in Selected(mode) : products[p].jan = jan}

Agree(P) == \A p, q \in P : /\ products[p].price = products[q].price
                            /\ products[p].tax = products[q].tax

(* Barcodes whose memories the file leaves alone.                            *)
(* Mutated: none is. *)
NoneBlocked(mode) == {}

BlockedCodes(mode) == {jan \in Jan : ~Agree(Group(mode, jan))}

Exportable(mode) == {jan \in Jan : Group(mode, jan) # {} /\ Agree(Group(mode, jan))}

(* The k-th free memory, and where the row of a barcode goes: the memory it  *)
(* has, one that holds it without the program's doing, one about to be       *)
(* cleared of it, else a free one.                                          *)
Free == {s \in Slot : slots[s].status = "free"}
FreeNo(k) == CHOOSE s \in Free : Cardinality({t \in Free : t <= s}) = k

Needing(mode) == {jan \in Exportable(mode) : With(slots, jan, Status \ {"free"}) = {}}
Turn(mode, jan) == Cardinality({other \in Needing(mode) : other <= jan})

Placed(mode) ==
    {jan \in Exportable(mode) : jan \in Needing(mode) => Turn(mode, jan) <= Cardinality(Free)}

(* Mutated: the memory about to be cleared comes before the external one. *)
PlaceReleasedFirst(mode, jan) ==
    CASE With(slots, jan, Managed) # {} -> Min(With(slots, jan, Managed))
      [] With(slots, jan, Managed) = {} /\ jan \notin Needing(mode) ->
            IF With(slots, jan, {"release_pending"}) # {}
            THEN Min(With(slots, jan, {"release_pending"}))
            ELSE Min(With(slots, jan, {"external"}))
      [] OTHER -> FreeNo(Turn(mode, jan))

Place(mode, jan) ==
    CASE With(slots, jan, Live) # {} ->
            IF With(slots, jan, Managed) # {} THEN Min(With(slots, jan, Managed))
                                              ELSE Min(With(slots, jan, {"external"}))
      [] With(slots, jan, Live) = {} /\ jan \notin Needing(mode) ->
            Min(With(slots, jan, {"release_pending"}))
      [] OTHER -> FreeNo(Turn(mode, jan))

Taken(slot, jan) ==
    LET active == \/ slot.status \in {"active", "external"}
                  \/ slot.status = "release_pending" /\ slot.activated
    IN  [code |-> jan, status |-> IF active THEN "active" ELSE "reserved", activated |-> active]

SlotsPrepared(mode) ==
    LET jans(s) == {jan \in Placed(mode) : Place(mode, jan) = s}
    IN  [s \in Slot |-> IF jans(s) = {} THEN slots[s]
                        ELSE Taken(slots[s], CHOOSE jan \in jans(s) : TRUE)]

Content(mode, jan) ==
    LET p == Min(Group(mode, jan))
    IN  [code |-> jan, price |-> products[p].price, tax |-> products[p].tax]

ProductRows(mode) ==
    {[kind |-> "product", slot |-> Place(mode, jan), products |-> Group(mode, jan),
      content |-> Content(mode, jan)] : jan \in Placed(mode)}

(* append_clear_rows                                                        *)
ClearRows(mode) ==
    LET after == SlotsPrepared(mode)
    IN  {[kind |-> "clear", slot |-> s, products |-> {}, content |-> Nothing] :
            s \in {t \in Slot : /\ after[t].status = "release_pending"
                                /\ after[t].code \notin BlockedCodes(mode)}}

File(mode) == ProductRows(mode) \cup ClearRows(mode)

Prepare(mode) ==
    /\ snapshotTaken
    /\ File(mode) # NoFile
    /\ LiveCodesUnique(SlotsPrepared(mode))
    /\ slots' = SlotsPrepared(mode)
    /\ unsaved' = File(mode)
    /\ UNCHANGED <<products, snapshotTaken, saved, edits, reads>>

(* The screen saves the file, or the clerk cancels.                         *)
Save ==
    /\ unsaved # NoFile
    /\ saved' = unsaved /\ unsaved' = NoFile
    /\ UNCHANGED <<database, edits, reads>>

CancelSave ==
    /\ unsaved # NoFile
    /\ unsaved' = NoFile
    /\ UNCHANGED <<database, saved, edits, reads>>

Discard ==
    /\ saved # NoFile
    /\ saved' = NoFile /\ unsaved' = NoFile
    /\ UNCHANGED <<database, edits, reads>>

-----------------------------------------------------------------------------
(* Confirming a file (confirm_plu_export_saved) against the tables as they   *)
(* are by now.                                                              *)
(* Mutated: the products' barcodes are not compared with their memory's. *)
RowStandsByStatus(row, slotTable, productTable) ==
    LET slot == slotTable[row.slot]
    IN  IF row.kind = "product"
        THEN slot.status \in Managed /\ row.products \subseteq DOMAIN productTable
        ELSE slot.status = "release_pending" \/ slot = FreeSlot

(* Mutated: a memory cleared before may not be cleared again. *)
RowStandsOnce(row, slotTable, productTable) ==
    LET slot == slotTable[row.slot]
    IN  IF row.kind = "product"
        THEN /\ slot.status \in Managed
             /\ \A p \in row.products :
                   p \in DOMAIN productTable /\ productTable[p].jan = slot.code
        ELSE slot.status = "release_pending"

RowStands(row, slotTable, productTable) ==
    LET slot == slotTable[row.slot]
    IN  IF row.kind = "product"
        THEN /\ slot.status \in Managed
             /\ \A p \in row.products :
                   p \in DOMAIN productTable /\ productTable[p].jan = slot.code
        ELSE slot.status = "release_pending" \/ slot = FreeSlot

Accepted(file, slotTable, productTable) ==
    /\ file # NoFile
    /\ \A row \in file : RowStands(row, slotTable, productTable)
    /\ \A row, other \in file : row.slot = other.slot => row = other

RowOf(file, s) == CHOOSE row \in file : row.slot = s

SlotsConfirmed(file) ==
    [s \in Slot |->
        IF \A row \in file : row.slot # s THEN slots[s]
        ELSE IF RowOf(file, s).kind = "clear" THEN FreeSlot
        ELSE [slots[s] EXCEPT !.status = "active", !.activated = TRUE]]

(* The answer may be lost (the program ends before the screen has forgotten  *)
(* the file): the file then stays to be confirmed.                          *)
Confirm ==
    /\ Accepted(saved, slots, products)
    /\ slots' = SlotsConfirmed(saved)
    /\ products' = [p \in DOMAIN products |->
          IF \E row \in saved : p \in row.products
          THEN [products[p] EXCEPT !.dirty = FALSE] ELSE products[p]]
    /\ \E answered \in BOOLEAN : saved' = IF answered THEN NoFile ELSE saved
    /\ UNCHANGED <<snapshotTaken, unsaved, edits, reads>>

-----------------------------------------------------------------------------
(* The product commands, as far as they touch what the register is told.     *)

(* release_plu_slot_for_jan, given the products the command leaves.         *)
(* Mutated: products that share the barcode are not looked for. *)
ReleasedFromAll(table, jan, remaining) ==
    [s \in Slot |->
        IF table[s].code # jan \/ jan = NoJan THEN table[s]
        ELSE IF table[s].status = "reserved" THEN FreeSlot
        ELSE IF table[s].status = "active" THEN [table[s] EXCEPT !.status = "release_pending"]
        ELSE table[s]]

Released(table, jan, remaining) ==
    [s \in Slot |->
        IF table[s].code # jan \/ jan = NoJan \/ IsSold(remaining, jan) THEN table[s]
        ELSE IF table[s].status = "reserved" THEN FreeSlot
        ELSE IF table[s].status = "active" THEN [table[s] EXCEPT !.status = "release_pending"]
        ELSE table[s]]

(* The clerk leaves the export's page, so that a file not saved is lost.     *)
Editing ==
    /\ edits < MaxEdit /\ edits' = edits + 1
    /\ unsaved' = NoFile
    /\ UNCHANGED <<snapshotTaken, saved, reads>>

CreateProduct(p, jan, price, tax, target) ==
    /\ p \notin DOMAIN products
    /\ products' = [q \in DOMAIN products \cup {p} |->
          IF q = p THEN [jan |-> jan, price |-> price, tax |-> tax, target |-> target,
                         discontinued |-> FALSE, dirty |-> TRUE]
          ELSE products[q]]
    /\ UNCHANGED slots
    /\ Editing

(* update_product; revise_product_price is the case that changes no more     *)
(* than the price.                                                          *)
UpdateProduct(p, price, tax, target) ==
    LET old == products[p]
    IN  /\ products' = [products EXCEPT ![p] =
              [old EXCEPT !.price = price, !.tax = tax, !.target = target,
                          !.dirty = @ \/ price # old.price \/ (target /\ ~old.target)]]
        /\ slots' = IF old.target /\ ~target THEN Released(slots, old.jan, products') ELSE slots
        /\ Editing

ToggleDiscontinue(p) ==
    LET old == products[p]
    IN  /\ products' = [products EXCEPT ![p] =
              IF old.discontinued THEN [old EXCEPT !.discontinued = FALSE]
              ELSE [old EXCEPT !.discontinued = TRUE, !.target = FALSE, !.dirty = TRUE]]
        /\ slots' = IF old.discontinued THEN slots ELSE Released(slots, old.jan, products')
        /\ Editing

(* bulk_set_plu_target over the products of a filter.                       *)
TargetMany(P) ==
    LET turned == {p \in P : /\ ~products[p].target /\ ~products[p].discontinued
                             /\ products[p].jan # NoJan}
    IN  /\ products' = [p \in DOMAIN products |->
              IF p \in turned THEN [products[p] EXCEPT !.target = TRUE, !.dirty = TRUE]
              ELSE products[p]]
        /\ UNCHANGED slots
        /\ Editing

UntargetMany(P) ==
    LET turned == {p \in P : products[p].target}
        jans == {products[p].jan : p \in turned}
    IN  /\ products' = [p \in DOMAIN products |->
              IF p \in turned THEN [products[p] EXCEPT !.target = FALSE] ELSE products[p]]
        /\ slots' = [s \in Slot |->
              IF slots[s].code \in jans THEN Released(slots, slots[s].code, products')[s] ELSE slots[s]]
        /\ Editing

(* commit_import overwriting a product with a row of a file; without PLU    *)
(* column the target stays.  A row that changes no more than the unit       *)
(* leaves all of this as it is.                                             *)
OverwriteProduct(p, jan, price, tax, target) ==
    LET old == products[p]
    IN  /\ products' = [products EXCEPT ![p] =
              [old EXCEPT !.jan = jan, !.price = price, !.tax = tax,
                          !.target = target, !.dirty = TRUE]]
        /\ slots' = IF (old.target /\ ~target) \/ old.jan # jan
                    THEN Released(slots, old.jan, products') ELSE slots
        /\ Editing

-----------------------------------------------------------------------------
Init ==
    /\ products = Catalogue
    /\ slots = [s \in Slot |-> FreeSlot]
    /\ snapshotTaken = FALSE
    /\ unsaved = NoFile /\ saved = NoFile
    /\ edits = 0 /\ reads = 0

Export ==
    \/ ReadRegister
    \/ \E mode \in {"full", "diff"} : Prepare(mode)
    \/ Save
    \/ CancelSave
    \/ Discard
    \/ Confirm

EditProduct ==
    \/ \E p \in Product, jan \in Jan \cup {NoJan}, price \in Price, tax \in Tax,
          target \in BOOLEAN : CreateProduct(p, jan, price, tax, target)
    \/ \E p \in DOMAIN products, price \in Price, tax \in Tax, target \in BOOLEAN :
          UpdateProduct(p, price, tax, target)
    \/ \E p \in DOMAIN products : ToggleDiscontinue(p)
    \/ \E P \in SUBSET DOMAIN products : TargetMany(P) \/ UntargetMany(P)
    \/ \E p \in DOMAIN products, jan \in Jan \cup {NoJan}, price \in Price, tax \in Tax,
          target \in BOOLEAN : OverwriteProduct(p, jan, price, tax, target)

Next == Export \/ EditProduct

Spec == Init /\ [][Next]_vars

-----------------------------------------------------------------------------
(* No preparation of a file runs into the unique index: it never reserves a  *)
(* memory for a barcode that another one has.                               *)
PrepareNeverConflicts ==
    \A mode \in {"full", "diff"} : LiveCodesUnique(SlotsPrepared(mode))

(* No file clears a memory of a barcode it was to register unless it          *)
(* registers it in another memory.                                          *)
ClearSparesSelected ==
    [][unsaved' \notin {NoFile, unsaved} =>
          \A mode \in {"full", "diff"} : unsaved' = File(mode) =>
          \A row \in unsaved', p \in Selected(mode) :
              row.kind = "clear" /\ slots[row.slot].code = products[p].jan =>
                  \E other \in unsaved' : p \in other.products]_vars

(* A file is accepted as long as nothing changes after it, and again when    *)
(* the answer to its confirmation is lost.                                  *)
RetryIsAccepted ==
    [][/\ unsaved' \notin {NoFile, unsaved} => Accepted(unsaved', slots', products')
       /\ Confirm => Accepted(saved, slots', products')]_vars

(* A product stops being due for the register only when a memory was taken   *)
(* for the barcode it has by then, whatever happened since the file.         *)
ClearedWithSlot ==
    [][\A p \in DOMAIN products : products[p].dirty /\ ~products'[p].dirty =>
          \E s \in Slot : slots'[s].code = products'[p].jan /\ slots'[s].status = "active"]_vars

(* A barcode sold under keeps its memory, whichever product of it changes;    *)
(* only a reservation is lost, to what the register was found to hold.       *)
SlotsAreSticky ==
    [][\A s \in Slot, p \in DOMAIN products :
          /\ slots[s].status \in Managed /\ products[p].jan = slots[s].code
          /\ Sold(products[p]) /\ Sold(products'[p]) /\ products'[p].jan = products[p].jan
          => \/ slots'[s].code = slots[s].code /\ slots'[s].status \in Managed
             \/ slots[s].status = "reserved" /\ slots'[s].status = "external"]_vars
=============================================================================
