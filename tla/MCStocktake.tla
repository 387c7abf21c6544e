---------------------------- MODULE MCStocktake ----------------------------
(***************************************************************************)
(* Instance of Stocktake for TLC that asks three questions in one run:      *)
(* products registered while stocktakes come and go, settlements of three   *)
(* days imported in part around one stocktake, and what is entered after a  *)
(* completion read into its record.                                         *)
(***************************************************************************)
EXTENDS Stocktake, TLC

CONSTANTS jan1, noJan, fileA, fileB, fileC, register1

OneProduct == 1 :> [jan |-> jan1, sync |-> TRUE]

Settlement(hash, no, date, rows) ==
    [hash |-> hash, machine |-> register1, no |-> no, date |-> date,
     rows |-> rows]

Row(jan, qty) == [jan |-> jan, qty |-> qty, amount |-> 5 * qty]

(* Settlements of three days, the middle one with a sale. *)
ThreeDays ==
    {Settlement(fileA, 0, 1, <<>>),
     Settlement(fileB, 1, 2, <<Row(jan1, 2)>>),
     Settlement(fileC, 2, 3, <<>>)}

OneLine ==
    {[date |-> 2, lines |-> <<[product |-> 1, qty |-> 3]>>]}

SomeProductFiles ==
    {<<[product |-> 1, jan |-> jan1, link |-> "off", initial |-> 0],
       [product |-> 2, jan |-> noJan, link |-> "keep", initial |-> 0]>>}

VARIABLE question

NoMovementEntered == \A m \in movements' : m.settlement # NoSettlement

Asked ==
    \/ /\ question = "items"
       /\ today' = 1 /\ imports' = {} /\ last'.count <= 1 /\ NoMovementEntered
    \/ /\ question = "completion"
       /\ Len(stocktakes') <= 1 /\ last'.count <= 1 /\ NoMovementEntered
       /\ DOMAIN products' = DOMAIN Catalogue /\ discontinued' = {}
    \/ /\ question = "record"
       /\ Len(stocktakes') <= 1 /\ today' <= 2 /\ last'.import <= 2
       /\ DOMAIN products' = DOMAIN Catalogue /\ discontinued' = {}
       /\ products'[1].sync

MCInit == StocktakeInit /\ question \in {"items", "completion", "record"}

MCNext == StocktakeNext /\ Asked /\ UNCHANGED question

MCSpec == MCInit /\ [][MCNext]_<<allVars, question>>
=============================================================================
