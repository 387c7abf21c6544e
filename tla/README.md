# A verification of the inventory system

The program (Rust and Tauri, `src/src-tauri`, with React screens in `src/src`)
keeps the stock of a shop beside a cash register that knows nothing of stock.
Its core rule, in `docs/adr/2026-10-16-stocktake-count-placement.md`: records
are the truth (counts, movements, register settlements), and the stock of a
product is a *copy* derived from them by `biz/stock_ledger.rs` each time a
record changes. Records arrive late and out of order, so the derivation has to
say when it does not know: a product "to be rechecked" carries a range. Around
that core the models follow what crosses the boundary of one command: a slip
that is sent again, a file for the register that is confirmed days later, a
report read from the register's card, and a restore that is interrupted.

## Inventory of the system

Paths are under `src/src-tauri/src`. Every Tauri command is synchronous and
works in one SQLite transaction under the one connection mutex of `AppState`
(`cmd/mod.rs:36`); nothing runs in the background. What is concurrent is people
and things outside: any command may come between the two halves of another
(preview and commit, prepare and confirm), answers are lost, the program is
killed, the power goes, the PC's clock is wrong.

| component | state | operations | what is hard | what makes it correct |
|---|---|---|---|---|
| stock ledger `biz/stock_ledger.rs` | none | derive, recompute, judge | late and conflicting records | a range exactly as wide as what is unknown |
| records `db/inventory_repo.rs`, `db/sales_repo.rs` | counts, movements, imports, sales, the copy in `products` | every command below | a record of one product changes the stock of another | the copy is always the derived one |
| register import `biz/csv_import_service`, `cmd/csv_import_cmd.rs` | `csv_imports`, preview cache | preview, commit, preview of a rollback, rollback | time between preview and commit; re-import | one axis of settlements; nothing taken out twice; the two commands are one |
| stocktake `biz/stocktake_service.rs` | `stocktakes`, items, cutoffs | start, save a count, zero the uncounted, complete, read | settlements that come after completion | a completed record changes only where the code says |
| products `biz/product_service.rs` | `products` | register, update, discontinue, bulk import | barcodes shared by several products | a linked product shares its barcode with none |
| stock operations `biz/inventory_service`, their screens | receivings, returns, disposals, manual sales; the form and its key | create | lost answers, retries, edits between retries, stale confirmations | one attempt moves the stock once; what is called saved is saved |
| PLU export `biz/plu_export_service.rs`, its screen | register slots, dirty marks, the file kept by the screen | read the register, prepare, save, confirm, release | changes between file and confirmation | a barcode keeps its slot; a mark goes only with a slot |
| restore `mnt/restore.rs`, `lib.rs` | database files, backups, manifest | restore, undo, reconcile at the start | a stop or a failure between two file operations | the old or the new database, whole |
| backups `mnt/backup.rs` | backup files | create, retain, check at start | - | a backup is whole before it is listed |
| daily report `biz/daily_report_import_service`, `io/pos_source_copy.rs` | reports, copies of the card's files, caches | scan, preview, commit, rollback | reports of one day; a stop between copies and record | a settlement once; the copies kept |
| migrations `db/migration.rs` | schema version | migrate at start | failure half way | all or nothing |
| integrity check, reports, lists, parsers, settings, logs, other screens | - | read or format | - | - |

`PROJECT.json` lists each with its status, and the hazards with their lines.

## Modules

```
StockLedger            pure: a ledger -> stock, range, reasons
  InventoryRecords     the tables; one action per command; Spec
    CsvImport          preview and commit as two commands; implements Spec
    Stocktake          stocktakes, items and cutoffs over the same tables
Slips                  forms, requests, answers, book; implements SlipLedger
PluExport              products, slots, the screen's file
  PluRegister          with what the register holds
Restore                files, disk, manifest, plan; implements AtomicRestore
DailyReport            scans, previews, copies, imports
*Proofs                the theorems: StockLedger (lemmas), InventoryRecords,
                       Stocktake, CsvImport, DailyReport, Slips, PluExport,
                       Restore
MC*                    instances for TLC
```

**StockLedger** follows `stock_ledger.rs` function by function. A ledger is the
record `read_ledger` builds. A count has a value, a date, and is *fresh* (counted
now; it notes the last movement and import ids it has seen) or *default* (as of
its whole date). `IsAfter` is the order of counts; `Bases` are the counts the
stock is derived from; `SettlementIncluded`, `Included` and their
`Undetermined` counterparts are the three windows of `judge_settlement` and
`judge`; `FromCount` and `Derive` compute stock and range.

**InventoryRecords** has a variable per table (`counts`, `movements`,
`imports`, `sales`, `products`), `last` for the ids the tables have given out, and
`today` for the PC's date. Its actions are whole commands, with the
recomputation each ends in:

| action | code |
|---|---|
| `RecordOperation` | receiving, return, disposal, manual sale: `apply_stock_change` for each line, each recomputed within the limit |
| `ImportSettlement` | a Z004 file: `check_settlement_rules`, sales, movements, recomputation of all counted products and those of the file |
| `RollbackImport` | `apply_rollback`: sales and movements void, the same recomputation |
| `SaveSomeCount` | `save_stock_count` |
| `CreateSomeProduct` | `create_product`, with the barcode's other products losing their link |
| `StartLinking`, `StopLinking` | `update_product`, the stock link |
| `ImportSomeProducts` | `commit_import` of products: the rows sent of a product file, each new product or overwritten barcode and link checked (`import_row_link_error`) against what the rows before it have written; the first refusal undoes all |
| `NextDay`, `SetClockBack` | the environment: the PC's clock |

A refusal writes nothing, so it is the action not being enabled.

The rows of a product file are sent in the order of the screen
(`buildProductImportTargetRows`: the new ones first). What is sent is any part
of the file, because the clerk chooses which duplicates to overwrite, and the
preview the choice was made from may be older than the products.
`PassedNew` and `PassedDuplicates` are the last step of the preview: the rows it
would let pass, each judged together with those passed before it.

**CsvImport** adds the preview cache (`previews`). `Preview` finds the product of
each line and keeps it; `Commit` checks the settlement rules and the
registration again and writes from the cache; `Evicted` is the oldest preview,
when the cache is full; `Expire`, `CommitExpired` and `Restart` are the ways a
preview is lost. Its specification implements `InventoryRecords!Spec` with the
identity on the tables (`ImportsAsOneStep`).

**Stocktake** adds `stocktakes` (with items, the valuation and the cutoff kept at
completion) and `discontinued`; products that are registered or imported join the
stocktake in progress. `Reading` is what the record's detail shows,
computed again from the records each time.

**Slips** puts the four `create_*` commands together with the screens that send
them. `form` is the screen: the slip, the key of the attempt, the signature of
what failed (`failed`), the token of a confirmation. `Edit` issues a new key
where the screens do (`NeedsNewKey`); `Submit` sends; `Saved`, `AskedToConfirm`,
`Failed` and `Dropped` are the screen's handlers of an answer. A command is one
of `Replay` (the key is in the book), `AskConfirmation`, `RefuseToken`,
`Record`, `RefuseStock`, in the order of the code. `FailCommand`, `LoseAnswer`
and `Restart` are the faults, `MarkDirty` and `ConfirmExport` what the register
export does to the marks a token is made of. **SlipLedger** is the promise: an
entry of the book moves the stock once, and only an entry can be told of.

**PluExport** has the products as far as the register is concerned, `slots`
(the table `plu_slots`), and the two files of the screen: `unsaved` (its state)
and `saved` (localStorage, until the clerk confirms). `Observed` is one row of
`import_plu_register_snapshot`; `Place` and `Taken` are where a barcode's row
goes and what becomes of the slot; `RowStands` is the check of a confirmation;
`Released` is `release_plu_slot_for_jan`, which the product commands call.
**PluRegister** adds the content of the register as told by the confirmations.

**Restore** is the procedure of `restore.rs` at the grain of
`RestoreFileOps`: every phase enters with a `plan`, a sequence of renames,
deletions, creations, flushes and syncs, and `Step` performs its head. `files`
is the directory as the program sees it, `disk` as of the last sync, `unsynced`
the changes between, `unflushed` the names whose content may be lost. A power
loss keeps a part of `unsynced` (a beginning of it, or with `Reordering` any
part). `Reconciliation` and `Refused` are the branches R1-R7 of the start.
`PoweredSpec` is the specification without power losses. **AtomicRestore** is the
promise, in terms of the snapshot the next start would open (`AtNextStart`).

**DailyReport** has the imports, the copies on the PC, the cache of the scan
(`offered`) and of the previews, and the commit that is running: `StartCommit`,
a `SaveCopy` for each file of the card, `Record` or `RefuseRecord`. Faults are a
copy that fails and a stop of the program between any two of these.

## What the runs check

Several questions share a run: an MC module adds a variable `question`, chosen
at the start and never changed, and the next-state relation is that of the
module under the bounds of the question; in `MCRecords` an action constraint
keeps each behaviour to the bounds of one question. A property is checked under
all of them.

| run | properties | what happens in it |
|---|---|---|
| Records | TypeOK, CopyIsDerived, ImportRowsAgree, ReimportIsNeverTakenTwice, LinkedJanIsUnshared, SettlementsFormOneAxis, CountsAreOrdered, PreviewedRowsAreTaken | two settlements of one day, the earlier number without a row of the product, imported, rolled back and imported again around 2 counts; 2 products registered and a third to come, shared barcodes, links, an operation of two lines, a limit that refuses some of it; files of products that move barcodes and links; four files that contradict each other |
| RecordsCounts | RangeSpansPossibleStocks, FreshCountSettles | 2 counts of 2 values, fresh or for a date, 2 movements of both signs on different days, one of two settlements, one with an amount and no quantity; the PC's clock set back |
| RecordsClockCycle | CountsAreOrdered | **violated**: finding 1 |
| Stocktake | ItemsCoverProducts, NoDifferenceAtCompletion, CompletionIsSettled, RollbackNamesStocktakes, LaterFactsLeaveRecord | two stocktakes with a registration or an import of products during the first; settlements of 3 days imported in any order and subset around 1 count and 1 completion; 2 counts, a movement, 2 settlements and rollbacks before and after a completion |
| CsvImport | PreviewsOK, PreviewsStay, ImportsAsOneStep | 3 previews of 2 files in a cache of 2, commits, expiry, restarts; registration, link changes, counts, operations and rollbacks between preview and commit; an import of products that moves a barcode between the two |
| Restore | NoRemains, LogsEachRestoreOnce, RestoreIsAtomic, ShopReopens | 2 restores, 2 failing operations and 2 stops with at most 3 of these four, unsynced changes lost from the end; and no failure with one power loss that keeps any part of the unsynced changes |
| RestoreRollbackOrder | GenerationsNeverMix | **violated**: finding 2 |
| RestoreCleanupOrder | StartIsNeverRefused | **violated**: finding 3 |
| Slips | KeysNeverConflict, SlipsAreKept, ConfirmedKnowingly, SavedInTheEnd | 3 manual sales and 7 other slips that differ in one field each, 2 keys, an edit, 1 or 2 faults, 2 exports confirmed |
| PluExport | PrepareNeverConflicts, ClearSparesSelected, RetryIsAccepted, ClearedWithSlot, SlotsAreSticky | 2 products of one barcode at two prices; 2 products of two barcodes that come, go and change; the register read with any contents |
| PluStaleConfirmation | CleanIsRegistered | **violated**: finding 4 |
| DailyReport | TakenOnce, CopiesAreKept, TakenAsShown, TakenInTheEnd | a settlement, the same with other bytes, copied, stopped, rolled back and taken again; a second settlement of the day, filed on the card under the next; a report without a number, expiry and a full cache |

Every property has a mutant of the code it is violated by (`PROJECT.json`,
`mutants`; the mutated forms stand before the definitions they replace, marked
`Mutated:`).

*Bounds.* The constants `Max...` that stand for no limit of the program
(`MaxDate`, `MaxCount`, `MaxMovement`, `MaxImport`, `MaxStocktake`,
`MaxPreview`, `MaxKey`, `MaxEdit`, `MaxFault`, `MaxStop`, `MaxAttempt`,
`MaxWrite`, `MaxRead`, `MaxRollback`, `MaxExport`) bound the behaviours;
`MaxStock`, `PreviewLimit`, `Window` and `LastSlot` are the program's own
limits, small. The judgements compare at most a count, a settlement and one
neighbour of it, and dates only by order, so two days (before, same) with a fact
entered late, two counts, and three settlements or imports reach every branch.
An attempt to save a slip interferes with the one before it and no other, so
two keys do; a restore interferes with what the one before it has left behind,
so two attempts do. The mutants show that each run is large enough for its
properties. `CHECK_DEADLOCK FALSE` stands everywhere because a bounded shop ends
when its bounds are used up; the program itself waits for the user.

*Bounds that matter.* The run of `Restore` allows two stops and two failing
operations, three of these four in all, when unsynced changes are lost from the
end, and one power loss when they are lost in any order. Larger bounds, tried
once with TLC and not kept as runs, mark how far the code's care goes:

* `RestoreIsAtomic` with two failures *and* two stops does not hold: a kill
  between the renaming of the committed manifest and its sync, a failing sync in
  the reconciliation, a failing completion (after which the shop opens), and then
  a power loss bring the old manifest back when the shop has been working on the
  new database. Without any failure it holds for 3 stops and not for 4: three
  kills, each between a rename or a deletion and its sync, and a power loss
  bring the active manifest and an evacuated file back after the shop was told.
  It holds for 4 power losses without kills.
* `LogsEachRestoreOnce` does not hold for two stops when changes are lost in any
  order: a kill between the renaming of the committed manifest and its sync, a
  deletion of an evacuated file by the reconciliation, and a power loss that
  keeps the deletion and forgets the renaming leave the new database without a
  row. The cause is that of finding 3: the reconciliation does not sync what an
  earlier run of the program has left unsynced.
* With the power on, three failures and three kills violate nothing, and
  `NoRemains` holds under every loss. These are proved for any number (below).

No document of the repository speaks of several stops within one restore, so
none of the first two is listed as a finding.

## Liveness and fairness

In the records, the stocktake and the register import nothing happens unless a
user asks for it: a stocktake may stay open for ever, no step is fair, and no
liveness is stated. It is stated where the program itself has to get somewhere:

* `Restore`, `ShopReopens`: whatever failed or was interrupted, the shop is open
  again in the end. Weak fairness of the program's own steps (a procedure goes
  on with its next operation), and of two acts of the clerk: closing the program
  that asks for it and starting it. Faults and stops are not fair and finitely
  many, which is what the bound stands for.
* `Slips`, `SavedInTheEnd`: a clerk who goes on pressing "save" gets the slip
  saved, leaves it, or is at rest in one of the states the property names. Weak
  fairness of `Command` and `Answered` (a Tauri command runs to its end and its
  promise is settled) and of `Submit` (the clerk). The property names a rest it
  would be better without: after a confirmation has gone stale the screen keeps
  the token that was refused, and sends it again until the slip is edited or the
  form reset (`onError` leaves `token`).
* `DailyReport`, `TakenInTheEnd`: a clerk who reads a bundle again and again has
  the settlement imported in the end. Weak fairness of a running commit; strong
  fairness of the commit of the latest preview of a bundle, because previews
  expire between. The bounds of the run stop no fair step, and none of the
  three properties is checked under a state constraint.

## What is proved

TLAPS proves, for every value of the constants that meets the named assumptions
of the modules (`BoundsAssumption`, `ShopAssumption`, `FilesAssumption`,
`ProductFilesAssumption`, `StocktakeAssumption`, `PreviewAssumption`,
`SlipAssumption`, `PluAssumption`, `RestoreAssumption`,
`DailyReportAssumption`), what follows.
Hypotheses beyond these stand in the theorem and are named here.

**The ledger** (`StockLedgerProofs`, lemmas only). The stock is a sum of rows,
which the code adds up with `SUM` and the model with `MapThenSumSet`. The prover
has no induction over finite sets that takes a property, so `SubsetInduction`
states it for the *set* of subsets that have the property; from it come the
existence of the function behind the fold, and that a sum over two disjoint
sets is the sum of their sums, is unchanged by rows of 0 and by renumbering, and
takes each value between that of its negative and of its positive rows.
`DerivedSpans`: a range is the least and the greatest of the stocks the records
allow. `LatestContainsAll`: a count that comes after all others and contains
every record leaves a stock and no range.

**The records** (`InventoryRecordsProofs`).

* `TypeCorrect`: `TypeOK`. A derivation is a stock and a range of integers when
  the ledger's rows are of their types.
* `CopyStaysDerived`: `CopyIsDerived`. The inductive step goes by the
  parts of a ledger a command changes: what is not recomputed has the same
  ledger before and after, or, when the list of settlements changes, no count
  (its stock is then the sum of its movements, whatever the settlements are).
  Here lies the reason for `recompute_for_settlement_change` to take all
  counted products. A row of a product file that overwrites a product changes
  its barcode and its link, on which the derivation does not rest.
* `AxisIsKept`: `SettlementsFormOneAxis`, with the invariant that ids
  are below the last one given out.
* `LinkedStaysUnshared`: `LinkedJanIsUnshared`. For an import of
  products, take two products that have one barcode afterwards: the row written
  later was held against the other product as it ends up, or neither was
  written (`ProductsUnshared`).
* `ImportRowsStayTogether`: `ImportRowsAgree`, with `RecordsInvariant`: rows are
  finitely many, their ids have been given out, a movement of an import belongs
  to one in the table and is void when it is, and for each import and product the
  movements are the opposite of the linked sales. The last is about sums over
  the rows of a file, which the import makes one by one.
* `PreviewsAreTaken`: `PreviewedRowsAreTaken`. `PassedNew` is a recursive function
  over the rows; `PassExists` shows that there is such a function, and
  `PassedNewRows` that a row it has passed meets none it is written with.
* `CountsStayOrdered`: `CountsAreOrdered` when `ClockMayGoBack =
  FALSE`. `CountsAreOrdered` says that a cycle does not arise at the next save and
  is not inductive. `CountInvariant` is: counts are dated up to today, fresh ones
  are in the order of their dates and ids, and each set of counts has an
  effective one; `OneMoreCount` shows that it survives one more count. The
  assumption on the clock is what finding 1 is about.
* `RangesAreExact`: `RangeSpansPossibleStocks`, whatever the clock does, from
  `DerivedSpans` and `CountsAreDerivable` (the counts of a product always have
  an effective one, because a save that would leave none is refused).
* `FreshCountsSettle`: `FreshCountSettles`. The new count notes the last ids given
  out and is dated today, so by the id part of `RecordsInvariant` it contains
  every record.
* `ReimportsAreSeen`: `ReimportIsNeverTakenTwice` when `ClockMayGoBack = FALSE`,
  `RegisterLead = 0` and different files have different hashes, with
  `SeenInvariant`: an import is of a file, of a day not to come, and one that a
  fresh count has seen is of no later day than the count.

**The stocktakes** (`StocktakeProofs`). The invariant is in two layers:
`RecordsHold`, the invariants above, which the one new command on the records
(`ZeroUncounted`) keeps too; and `StocktakesHold`, which says that at most one
stocktake is in progress, that it lists the products of the shop, and that the
cutoffs of completed ones are ids that had been given out.

* `CopyStaysDerivedInStocktakes`, `ItemsCoverTheShop`: `CopyIsDerived` and
  `ItemsCoverProducts` for the whole of `StocktakeSpec`.
* `CompletionsFitTheirRecords`: `NoDifferenceAtCompletion`. What a reading keeps
  of the records at the completion's cutoff is all of them, so it derives the
  copy, and the copy is what the completion valued.
* `RecordsOutlastLaterFacts`: `LaterFactsLeaveRecord`. A step that is none of the
  named exceptions only adds rows the reading does not take (`AddedFactsUnread`),
  so it derives from the same ledger before and after (`SameReading`).
* `RollbacksNameStocktakes`: `RollbackNamesStocktakes`. A settlement that is rolled
  back changes a reading only when it was kept by it, or was the last number
  passed; both are what `ComparingSettlement` asks.
* `CompletionsAreSettled`: `CompletionIsSettled` when `RegisterLead = 0`, with
  `CountsHold`. The hypothesis is needed: with a register whose clock is a day
  ahead, a fresh count may have seen a settlement of the day after its own, and
  a further one between the two is then undetermined for it. The ADR lists a date that
  is off among the holes it accepts.

**The register import** (`CsvImportProofs`).

* `TwoCommandsAreOneStep`: `ImportsAsOneStep`, the refinement, with
  `PreviewInvariant`: a preview's file is one the register has written, and each
  of its lines is matched, unmatched or empty. From it and
  `RegistrationUnchanged` the cached rows are the rows `ImportSettlement` would
  write.
* `CacheStaysInBounds`, `PreviewsWaitForTheUser`: `PreviewsOK` and `PreviewsStay`,
  with `CacheInvariant` (finitely many previews, each with a token of its own).
  The oldest of a full cache has as many newer ones as the limit after one more
  preview (`TokensFit` counts the tokens).

**The slips** (`SlipsProofs`). The inductive invariant is in five parts
(`IInv`): only one command or answer of the present key is on its way, and the
screen waits for it; the screen remembers a failure of just the slip it shows,
and does whenever the present key may be in the book; a key stands for one
content, in the book and on its way; an answer "saved" has its record.

* `KeysStandForOneContent`: `KeysNeverConflict`.
* `SlipsImplementTheLedger`: the refinement `SlipsAreKept`. A record
  under a key that is in the book would have the same content, hence the same
  kind, and would have been answered by `Replay`; and the slip on the screen when
  "saved" arrives is the slip recorded, note included, because the signature the
  screen compares fixes it (`SignatureIsSlip`).
* `ClerksConfirmKnowingly`: `ConfirmedKnowingly`, with `ConfirmationInvariant`: a
  token on the screen or on its way came with the warnings it stands for, shown
  for the slip it goes with.

**The register's slots** (`PluExportProofs`), with `PluInvariant`: `slots` is a
table of rows, no two slots in use have one barcode (the unique index), and a row
of the two files of the screen is for a slot and, when it clears the slot, names
no product.

* `FilesNeverConflict`: `PrepareNeverConflicts`. Placing the selected barcodes is a
  recursion over their slots; each goes to its own slot or to a free one no other
  of the file takes.
* `ProductsAreClearedWithTheirSlot`, `RetriesAreAccepted`, `SelectedAreSpared`,
  `SlotsStayWithTheirProducts`: the action properties `ClearedWithSlot`,
  `RetryIsAccepted`, `ClearSparesSelected` and `SlotsAreSticky`.

**The daily report** (`DailyReportProofs`): `SettlementsCountOnce`,
`ReportsAreAddedAsShown`, `ImportedFilesStay`, with the invariant `Shaped` (what
the cache offers and the running commit holds are bundles of the card, ids of
imports are below the next one). For the copies the invariant also speaks of the
running commit: the names it has saved hold the bytes of its bundle, and a copy
is never changed once its name is taken, which is why a file of the same name
with other bytes goes under another name.

**The restore** (`RestoreProofs`). `MaxFault`, `MaxStop`, `MaxAttempt` and
`MaxWrite` are any numbers, so the failures, stops and restores are as many as
one likes. A plan is a sequence of file operations; the lemmas on plans
(`HeadOfPlan`, `Joined`, `EachIsPlanned`) turn the procedures into the sets of
their operations, and `Replayed` turns the recursive function by which a power
loss repeats changes into its steps.

* `NothingRemains`: `NoRemains`, of `Spec`, whatever part of the unsynced changes
  a power loss keeps. `RemainsInv` says that every name on the disk, in the
  unsynced changes and in the plan is one of the shop's eight (`NamesKnown`),
  and that the rest of a plan that clears up takes every file beside the
  database away, or puts it back, and adds none (`ClearsUp`). It does not need
  to know what a loss has left: the start plans by what it finds.
* `RestoresAreAtomic`: the refinement `RestoreIsAtomic`, of `PoweredSpec`. The
  database is defined at every moment as what a start would find of it: of each
  part the evacuated file, or the one in place when the restore is committed or
  the part not evacuated (`Db`, `Worth`; `NextStartFinds` shows that it is what
  `AtNextStart` opens). `Whole` is what the directory is like at any moment: a
  manifest that can be read, evacuated files only with a manifest that names
  them, and the main file to be found. `Stage` says for each phase what is
  left of its procedure in terms of the directory it has brought about so far
  (`Cleaning`, `Announcing`, `Evacuating`, `Installing`, `Committing`,
  `Undoing`), and `Knowledge` what the program may say of the database. Each
  procedure has a lemma that it begins in its stage, one that its head leaves
  `Db` and the rest in the stage, and one on what its end has brought about. The
  one operation that changes the database is the renaming of the committed
  manifest (`RestoreCommitted`). The order of a plan matters in two places: a file
  put back is not deleted any more (`Ordered`), and all files of the new
  database go before the first is put back (`Removing`).
* `StartsAreAccepted`: with the power on, `StartIsNeverRefused` and
  `GenerationsNeverMix`, the properties of findings 2 and 3, hold.
* `RestoresAreLogged`: `LogsEachRestoreOnce`, of `PoweredSpec`, with `LogInv`: the
  generation of the database is logged, or its committed manifest is there and a
  clean-up under way has the log still to come (`LogComesFirst`).

For the last three the power has to stay, because with power losses they are not
true for all values of the constants (*Bounds that matter*, findings 2 and 3);
TLC checks two of them under few losses in the run `Restore`.

*Only model-checked.* `RestoreIsAtomic` and `LogsEachRestoreOnce` under power
losses within the bounds of the run. The liveness properties `ShopReopens`,
`SavedInTheEnd` and `TakenInTheEnd` are out of the prover's reach, as is
`ENABLED`. Every other property of a passing run is stated by a theorem.

## Findings

1. **Counts can form a cycle** (`RecordsClockCycle`). `effective_counts`
   (`biz/stock_ledger.rs:223`) refuses counts of which none is effective and
   comments that no save can lead there, because a default count's date is at
   most the day it is saved on, and that at most the day of a later fresh count.
   That holds while the PC's clock only moves forward (proved:
   `CountsStayOrdered`). In the run a default count is saved on day 3 for that
   day, the clock is set back, and a fresh count is saved on day 1. A default
   count for day 2, on day 2, would then close the cycle: it comes after the
   fresh count (saved later, of a later day), the fresh count after the first
   default count (saved later), and that one after the new one (of a later day).
   TLC stops at day 2, before this third save, because the save is refused as a
   database error. Nothing false is stored; the product can still be settled by
   a fresh count (`RecordsCounts`), but the comment is not true of the saves.
2. **An undone restore can mix two generations** (`RestoreRollbackOrder`). The
   undoing in the running program removes the failed generation's files and
   renames the evacuated ones back, and syncs the directory afterwards. In the run
   only the main file was evacuated. A power loss before that sync keeps the
   main file's return to its own name and forgets the deletion of the failed
   generation's log beside it; the next start has nothing to put back and opens
   one generation with the other's log, which the design says cannot happen.
3. **A start can be refused although nothing is lost** (`RestoreCleanupOrder`).
   The clean-up after a finished restore removes evacuated files, then the
   manifest. If the program stops between the two and the reconciliation of the
   next start finishes the clean-up, it removes the manifest without making the
   earlier run's deletions durable; a power loss then brings evacuated files back
   without a manifest, and the start refuses (branch R5).
4. **A late confirmation takes off a mark it has not exported**
   (`PluStaleConfirmation`). `mark_plu_exported` clears the dirty mark of the
   products of a file by what they are at the confirmation. A price changed since
   the preparation is not in the file, yet its mark goes, and the register keeps
   the old price. The design speaks of the mark as "what the register does not
   have yet".

Two smaller observations met on the way, which no run states: setting the
target mark of a discontinued product lets it into the list of differences,
which does not look at `is_discontinued`, so that a slot can later be released
under a clean product (the reason `ClearedWithSlot` and `SlotsAreSticky` speak of
steps and not of states); and the screen of the slips keeps a token that was
refused (see `SavedInTheEnd`). `PROJECT.json` has the quoted lines.

## Abstractions

* Dates are numbers (ISO dates compare as strings). Product codes are numbers
  in their SQL order; barcodes, registers and file hashes are model values.
* Quantities are those of the stock: the conversion of length units by 100 and the
  limit of one line (`MAX_LINE_QUANTITY`) belong to the parsing of rows. Sums do
  not overflow: rows and stock are limited far below 64 bits.
* The sets `Z004`, `Operation`, `Slip` and `Bundle` are what the register has
  written and what the screens send. A file dated more than `RegisterLead` days
  after the PC's date does not exist yet; the code would take it, with a note.
  `ReimportIsNeverTakenTwice` needs `RegisterLead = 0`: the register is not ahead
  of the PC.
* A code of the shop's own is any code not in use; `next_seq` and the clash of a
  code with another product's barcode are left out.
* `RecordOperation` leaves the keys of a slip to `Slips`, and `Slips` leaves the
  derivation of the stock to the records: it adds up movements. The two share
  no variable: a slip, once recorded, is an operation of the records.
* A fingerprint, a signature and a token are the data they are computed from:
  hashes do not collide, and sorting is a bag (`Sorted`).
* An item is counted when a count was saved for it
  (`stock_counts.stocktake_item_id`); the copy of the count shown on it is left
  out.
* `stock_after` of movements, logs, prices and yen are left out except where the
  register export compares a price. A valuation is the quantity valued.
* The set of products of `ZeroUncounted` is numbered in code order; the request's
  order only numbers ids of different products.
* A row of a product file is a product, a barcode, a link and an initial stock;
  the checks of names, prices and units, and the price changes an overwriting row
  is logged for, are left out. The code skips an overwriting row of a product that
  is no longer there and refuses the whole file for a new row of one that is; the
  model sends no such rows.
* `SetClockBack` is not a step of `CsvImport` and `Stocktake`: the first compares
  files with today, the second would only repeat what `RecordsCounts` shows.
* A bundle of DailyReport has the date of the report (`date`) and the date of its
  path on the card (`filed`): the scan goes by the latter, all else by the former.
  A bundle dated after the PC's date does not exist yet, under either.
* In DailyReport a token is the position in the cache, the confirmation flag
  is "the screen showed others of the day", and a copy appears whole (temporary
  file and rename). A name made of a hash names one content, so the clash the
  code reports for it cannot occur.
* In Restore the content of a database is the name of its snapshot; the check of
  a backup's schema and integrity is a choice of outcome. SQLite's own recovery
  of a write-ahead log is external: a main file with its own log is its snapshot.

## Not modelled

* *Backups* (`mnt/backup.rs`): creation and retention run alone under the
  connection lock and hand restore a whole file; the models take "a backup exists"
  from them.
* *Migrations*: a fixed list of SQL scripts, each in a transaction; there is no
  state beside the schema version for a model to relate them to.
* *Integrity check, sales reports, lists, search*: read only. *Parsers* of the
  register's files and of product files, units, barcodes: functions of strings whose
  interesting part is the layout of the strings, which their many in-file tests
  pin down; a model of them would be a transliteration.
* *Settings, logs, images, the rest of the user interface.*

The lines of code the models stand for are a small part of the repository's, and
stay so: of some 75 700 lines counted as implementation about 27 000 are Rust
outside in-file tests, and most of those are SQL, readers, parsers, validation
messages and reports, in which no state changes.

## Plan

Done: all modules above, their runs and theorems. What is left, in this order:

1. The restore under power losses without kills and failures: the invariant would
   relate what is synced to what is planned, one sync behind.
2. Backups and their retention beside a restore.
