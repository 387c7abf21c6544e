----------------------------- MODULE MCRecords -----------------------------
(***************************************************************************)
(* Instance of InventoryRecords for TLC that asks four questions in one     *)
(* run: imports, rollbacks and re-imports around two counts; the            *)
(* registration of products and their links; products whose barcodes change *)
(* in a bulk import; files that contradict each other.  A behaviour keeps   *)
(* to the bounds of one of them.                                            *)
(***************************************************************************)
EXTENDS MCInventoryRecords

Allowed ==
    [settlements |-> [files |-> OneOfEach, counts |-> 2, movements |-> 3,
                      imports |-> 3, lead |-> 0],
     links |-> [files |-> UnlinkedSale, counts |-> 1, movements |-> 3,
                imports |-> 1, lead |-> 0],
     barcodes |-> [files |-> OneOfEach, counts |-> 1, movements |-> 1,
                   imports |-> 1, lead |-> 0],
     axis |-> [files |-> OddFiles, counts |-> 0, movements |-> 4,
               imports |-> 3, lead |-> 1]]

BarcodesKept ==
    \A p \in DOMAIN Catalogue : products'[p].jan = Catalogue[p].jan

ProductsKept ==
    /\ \A p \in DOMAIN products' :
          p \in DOMAIN Catalogue /\ (p # 1 => ~products'[p].sync)
    /\ \A c \in counts' : c.product = 1
    /\ \A m \in movements' : m.import # 0

Within(question, bound) ==
    /\ last'.count <= bound.counts /\ last'.movement <= bound.movements
    /\ last'.import <= bound.imports
    /\ question \in {"settlements", "axis"} => ProductsKept
    /\ IF question = "barcodes"
       THEN \A c \in counts' : c.product = 2 /\ c.fresh
       ELSE BarcodesKept
    /\ \A i \in imports' :
          i.date <= today' + bound.lead /\ \E f \in bound.files : f.hash = i.hash

OneQuestion == \E question \in DOMAIN Allowed : Within(question, Allowed[question])
=============================================================================
