---------------------------- MODULE PluRegister ----------------------------
(***************************************************************************)
(* PluExport with the content of the register as far as the clerk has told   *)
(* the program: the rows of the files confirmed.                            *)
(***************************************************************************)
EXTENDS PluExport

VARIABLE register   \* memory -> the content of its row last confirmed

RegisterInit == Init /\ register = [s \in Slot |-> Nothing]

RegisterNext ==
    /\ Next
    /\ register' =
          IF Confirm
          THEN [s \in Slot |-> IF \A row \in saved : row.slot # s THEN register[s]
                               ELSE RowOf(saved, s).content]
          ELSE register

RegisterSpec == RegisterInit /\ [][RegisterNext]_<<vars, register>>

(* "Not due for the register" means that the register has the product as it  *)
(* is: a memory whose last confirmed row has its barcode and its price.      *)
CleanIsRegistered ==
    \A p \in DOMAIN products :
        Sold(products[p]) /\ products[p].jan # NoJan /\ ~products[p].dirty =>
            \E s \in Slot :
               /\ slots[s].status = "active" /\ slots[s].code = products[p].jan
               /\ register[s] # Nothing
               /\ register[s].code = products[p].jan /\ register[s].price = products[p].price

Offered(jan) == [jan |-> jan, price |-> 1, tax |-> 10, target |-> TRUE,
                 discontinued |-> FALSE, dirty |-> TRUE]

OneOffered == [p \in {1} |-> Offered(1)]

AnyContents == [Slot -> Jan \cup {NoJan}]
=============================================================================
