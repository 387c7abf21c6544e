--------------------------- MODULE AtomicRestore ---------------------------
(***************************************************************************)
(* What the restore of a backup promises (docs/function-design/71, D4, D5): *)
(* the shop's database is always one whole snapshot.  A restore puts the    *)
(* chosen snapshot in its place or leaves the one before it; while it has    *)
(* not been answered, neither by itself nor by the next start of the        *)
(* program, either of the two may be found; afterwards only the shop's own   *)
(* writes change the database.                                              *)
(***************************************************************************)
EXTENDS Naturals

CONSTANTS Chosen    \* the snapshot in the backup file

VARIABLES
    written,        \* the last snapshot the shop has written
    db,             \* the snapshot a start of the program would open
    open,           \* a restore has begun and is not settled yet
    before,         \* the snapshot when it began
    answer          \* what the shop was told of the last restore

atomicVars == <<written, db, open, before, answer>>

Init ==
    /\ written = 1 /\ db = 1
    /\ open = FALSE /\ before = 1 /\ answer = "none"

Write ==
    /\ ~open
    /\ written' = written + 1 /\ db' = written'
    /\ UNCHANGED <<open, before, answer>>

Begin ==
    /\ ~open
    /\ open' = TRUE /\ before' = db
    /\ UNCHANGED <<written, db, answer>>

TakeEffectOrUndo ==
    /\ open
    /\ db' \in {before, Chosen}
    /\ UNCHANGED <<written, open, before, answer>>

Settle ==
    /\ open /\ open' = FALSE
    /\ \/ answer' = "restored" /\ db = Chosen
       \/ answer' = "kept" /\ db = before
       \/ answer' = "restarted" /\ db \in {before, Chosen}
    /\ UNCHANGED <<written, db, before>>

Next == Write \/ Begin \/ TakeEffectOrUndo \/ Settle

Spec == Init /\ [][Next]_atomicVars
=============================================================================
