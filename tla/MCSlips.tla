------------------------------ MODULE MCSlips ------------------------------
(***************************************************************************)
(* Slips for TLC: two contents of each kind, alike but for one field, so     *)
(* that a change of the slip between two attempts is a small one.           *)
(***************************************************************************)
EXTENDS Slips

Item(p, qty, out, amount) == [product |-> p, qty |-> qty, out |-> out, amount |-> amount]

Entry(kind, head, processed, lines, aside) ==
    [kind |-> kind, head |-> head, processed |-> processed, lines |-> lines, aside |-> aside]

Both == <<Item(1, 1, FALSE, 3), Item(2, 1, FALSE, 3)>>
Swapped == <<Item(2, 1, FALSE, 3), Item(1, 1, FALSE, 3)>>

Sales ==
    {Entry("manual_sale", "day", FALSE, Both, "note"),
     Entry("manual_sale", "day", FALSE, Both, "other note"),
     Entry("manual_sale", "next day", FALSE, Both, "note")}

Others ==
    {Entry("receiving", "day", FALSE, <<Item(1, 2, FALSE, 3)>>, "note"),
     Entry("receiving", "day", FALSE, <<Item(1, 2, FALSE, 3)>>, "other note"),
     Entry("disposal", "day", FALSE, Both, "none"),
     Entry("disposal", "day", FALSE, Swapped, "none"),
     Entry("return", "exchange", FALSE, <<Item(1, 1, FALSE, 0), Item(2, 1, TRUE, 0)>>, "note"),
     Entry("return", "exchange", TRUE, <<Item(1, 1, FALSE, 0), Item(2, 1, TRUE, 0)>>, "note"),
     Entry("return", "return", FALSE, <<Item(1, 1, FALSE, 0), Item(2, 1, TRUE, 0)>>, "note")}

EverySlip == Sales \cup Others

VARIABLE question

Allowed == [sales |-> [slips |-> Sales, keys |-> 2, faults |-> 1, edits |-> 1],
            others |-> [slips |-> Others, keys |-> 2, faults |-> 2, edits |-> 1]]

MCInit ==
    /\ Init /\ question \in DOMAIN Allowed
    /\ \A p \in Product : marks[p].dirty

MCNext ==
    /\ Next
    /\ LET bound == Allowed[question] IN
       /\ form'.slip \in bound.slips \cup {Blank}
       /\ (keys' <= bound.keys \/ form'.saved) /\ faults' <= bound.faults /\ edits' <= bound.edits
    /\ question = "others" => marks' = marks
    /\ UNCHANGED question

MCSpec == MCInit /\ [][MCNext]_<<vars, question>> /\ Fairness
=============================================================================
