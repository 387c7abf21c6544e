---------------------------- MODULE MCCsvImport ----------------------------
(***************************************************************************)
(* Instances of CsvImport for TLC: a registered product of the second     *)
(* code, and one that may be registered under the first code with the same  *)
(* barcode, or with the barcode of a line that has no product yet.          *)
(***************************************************************************)
EXTENDS CsvImport, TLC

CONSTANTS jan1, jan2, noJan, fileA, fileB, register1

LaterCode == 2 :> [jan |-> jan1, sync |-> TRUE]

Row(jan, qty) == [jan |-> jan, qty |-> qty, amount |-> 5 * qty]

TwoFiles ==
    {[hash |-> fileA, machine |-> register1, no |-> 1, date |-> 1,
      rows |-> <<Row(jan1, 1), Row(jan2, 1)>>],
     [hash |-> fileB, machine |-> register1, no |-> 2, date |-> 1,
      rows |-> <<Row(jan1, 0), Row(jan1, 1)>>]}

(* The barcode of the linked product moves on to another.                   *)
SomeProductFiles ==
    {<<[product |-> 2, jan |-> jan2, link |-> "keep", initial |-> 0],
       [product |-> 1, jan |-> jan1, link |-> "off", initial |-> 0]>>}

NoOperation == {}

OneOperation == {[date |-> 1, lines |-> <<[product |-> 2, qty |-> -1]>>]}

-----------------------------------------------------------------------------
(* Three questions in one run: what happens to the cache, what the other    *)
(* commands may do between a preview and its commit, and what a bulk import *)
(* may that moves barcodes.                                                 *)
VARIABLE question

OnlyImported == last'.count = 0 /\ \A m \in movements' : m.import # 0

BarcodesKept == products'[2].jan = jan1

Within ==
    \/ question = "cache" /\ OnlyImported /\ BarcodesKept
    \/ /\ question \in {"commands", "barcodes"}
       /\ today' = 1 /\ last'.import <= 1 /\ lastToken' <= 2
       /\ IF question = "commands" THEN BarcodesKept ELSE OnlyImported

MCInit == CsvInit /\ question \in {"cache", "commands", "barcodes"}

MCNext == CsvNext /\ Within /\ UNCHANGED question

MCSpec == MCInit /\ [][MCNext]_<<allVars, question>>
=============================================================================
