--------------------------- MODULE MCDailyReport ---------------------------
(***************************************************************************)
(* An instance of DailyReport for TLC: a settlement of the first day, the    *)
(* same settlement with other bytes in one of its files, and a second        *)
(* settlement of that day, filed on the card under the next, or a report     *)
(* without a number of the next.                                           *)
(***************************************************************************)
EXTENDS DailyReport, TLC

CONSTANTS first, again, second, layoutB, path1, path2, path3, bytes1, bytes2, bytes3

A == [id |-> first, date |-> 1, filed |-> 1, no |-> 1,
      files |-> path1 :> bytes1 @@ path2 :> bytes1]
B == [id |-> again, date |-> 1, filed |-> 1, no |-> 1,
      files |-> path1 :> bytes1 @@ path2 :> bytes2]
C == [id |-> second, date |-> 1, filed |-> 2, no |-> 2, files |-> path3 :> bytes3]
D == [id |-> layoutB, date |-> 2, filed |-> 2, no |-> NoNumber, files |-> <<>>]

FourBundles == {A, B, C, D}

-----------------------------------------------------------------------------
(* Three questions in one run: what becomes of one settlement that is copied, *)
(* stopped, rolled back and taken again; what the other reports of the day   *)
(* do to a preview; and what happens to the caches.                         *)
VARIABLE question

Of(bundles) == \A k \in DOMAIN previews' : previews'[k].bundle \in bundles

Settlement ==
    /\ Of({A, B})
    /\ offered' = {} /\ today' = 1
    /\ \A k \in DOMAIN previews' : previews'[k].card

Day ==
    /\ Of({A, B, C})
    /\ offered' = {} /\ faults' = 0
    /\ \A k \in DOMAIN previews' :
          ~previews'[k].expired /\ previews'[k].card
    /\ Cardinality(imports' \ {i \in imports' : ~i.rolledBack}) <= 1

Caches ==
    /\ Of({A, D}) /\ offered' \subseteq {A, C} /\ faults' = 0
    /\ \A i \in imports' : ~i.rolledBack

Within ==
    \/ question = "settlement" /\ Settlement
    \/ question = "day" /\ Day
    \/ question = "caches" /\ Caches

MCInit == Init /\ question \in {"settlement", "day", "caches"}

MCNext == Next /\ Within /\ UNCHANGED question

(* The bounds stop no step that is fair. *)
MCSpec == MCInit /\ [][MCNext]_<<vars, question>> /\ Fairness
=============================================================================
