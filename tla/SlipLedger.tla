----------------------------- MODULE SlipLedger -----------------------------
(***************************************************************************)
(* What the saving of slips promises: one saving attempt moves the stock at *)
(* most once, whatever is sent again, and the clerk is told that a slip is   *)
(* saved only when it is in the book exactly as the screen shows it.         *)
(***************************************************************************)
EXTENDS Integers

CONSTANTS
    Product,        \* the products
    Effect(_, _),   \* Effect(s, p): what slip s adds to the stock of p
    InitialStock    \* the stock of each product before the first slip

VARIABLES
    book,           \* the slips recorded, each under the key of its attempt
    stock,          \* product -> stock
    told            \* the slips the clerk was told are saved, by key

Init ==
    /\ book = {} /\ told = {}
    /\ stock = [p \in Product |-> InitialStock]

Enter(entry) ==
    /\ \A e \in book : e.key # entry.key
    /\ book' = book \cup {entry}
    /\ stock' = [p \in Product |-> stock[p] + Effect(entry.slip, p)]
    /\ UNCHANGED told

Tell(entry) ==
    /\ entry \in book
    /\ told' = told \cup {entry}
    /\ UNCHANGED <<book, stock>>

Next ==
    \/ \E entry \in book' : Enter(entry)
    \/ \E entry \in told' : Tell(entry)

Spec == Init /\ [][Next]_<<book, stock, told>>
=============================================================================
