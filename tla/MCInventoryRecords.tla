------------------------- MODULE MCInventoryRecords -------------------------
(***************************************************************************)
(* Instances of InventoryRecords for TLC: one or two products with a        *)
(* barcode each, a third code that may be registered, a few register files  *)
(* and operations.                                                          *)
(***************************************************************************)
EXTENDS InventoryRecords, TLC

CONSTANTS jan1, jan2, noJan, fileA, fileB, fileC, fileD, fileE, fileF,
          register1, register2

MCCatalogue == 1 :> [jan |-> jan1, sync |-> TRUE]
               @@ 2 :> [jan |-> jan2, sync |-> FALSE]

OneProduct == 1 :> [jan |-> jan1, sync |-> TRUE]

Row(jan, qty, amount) == [jan |-> jan, qty |-> qty, amount |-> amount]

Settlement(hash, machine, no, date, rows) ==
    [hash |-> hash, machine |-> machine, no |-> no, date |-> date,
     rows |-> rows]

(* A settlement with no row of product 1. *)
UnlinkedSale == {Settlement(fileF, register1, 0, 2, <<Row(jan2, 1, 5)>>)}

(* The same, and a later one of the day with a row of product 1. *)
OneOfEach ==
    UnlinkedSale \cup {Settlement(fileE, register1, 1, 2, <<Row(jan1, 2, 10)>>)}

(* Two settlements of one day, the second with an amount and no quantity. *)
LateFiles ==
    {Settlement(fileB, register1, 1, 2, <<Row(jan1, 2, 10)>>),
     Settlement(fileC, register1, 2, 2, <<Row(jan1, 0, 3)>>)}

(* The same number with other contents, another register, and a date that   *)
(* goes against the numbers.                                                *)
OddFiles ==
    {Settlement(fileA, register1, 1, 2, <<Row(jan1, 1, 5)>>),
     Settlement(fileB, register1, 1, 1, <<Row(jan1, 2, 5)>>),
     Settlement(fileC, register2, 2, 2, <<Row(jan2, 1, 5)>>),
     Settlement(fileD, register1, 2, 1, <<Row(jan2, 1, 5), Row(jan2, 1, 5)>>)}

Line(product, qty) == [product |-> product, qty |-> qty]

OneOperation == {[date |-> 2, lines |-> <<Line(1, 3), Line(2, -1)>>]}

OneLine == {[date |-> 1, lines |-> <<Line(1, 3)>>],
            [date |-> 2, lines |-> <<Line(1, -2)>>]}

AllFiles == OneOfEach \cup OddFiles

Imported(product, jan, link, initial) ==
    [product |-> product, jan |-> jan, link |-> link, initial |-> initial]

(* A duplicate that would be linked and a new product with its barcode, and *)
(* two duplicates that exchange their barcodes.                             *)
SomeProductFiles ==
    {<<Imported(2, jan2, "on", 0), Imported(3, jan2, "off", 4)>>,
     <<Imported(1, jan2, "off", 0), Imported(2, jan1, "keep", 0)>>}

NoProductFiles == {}

NoFiles == {}

NoOperation == {}
=============================================================================
