---------------------------- MODULE MCPluExport ----------------------------
(***************************************************************************)
(* Instance of PluExport for TLC that asks two questions in one run: two     *)
(* products that share a barcode and differ in price, and products that      *)
(* come, go and change their barcodes at one price.                         *)
(***************************************************************************)
EXTENDS PluExport

Offered(jan) == [jan |-> jan, price |-> 1, tax |-> 10, target |-> TRUE,
                 discontinued |-> FALSE, dirty |-> TRUE]

OneOffered == [p \in {1} |-> Offered(1)]

AnyContents == [Slot -> Jan \cup {NoJan}]

VARIABLE question

Asked ==
    \/ /\ question = "shared"
       /\ \A p \in DOMAIN products' : products'[p].jan = 1
    \/ /\ question = "moved"
       /\ \A p \in DOMAIN products' : products'[p].price = 1

MCInit == Init /\ question \in {"shared", "moved"}

MCNext == Next /\ Asked /\ UNCHANGED question

MCSpec == MCInit /\ [][MCNext]_<<vars, question>>
=============================================================================
