---------------------------- MODULE DailyReport ----------------------------
(***************************************************************************)
(* The daily report import (biz/daily_report_import_service, BIZ-08;        *)
(* cmd/daily_report_import_cmd.rs, CMD-12; io/pos_source_copy.rs, IO-10).    *)
(*                                                                         *)
(* The register writes the totals of a settlement as a bundle of files on    *)
(* its card.  A scan lists the bundles of the card, a preview reads one and  *)
(* keeps it in memory with what the shop has of that day already, and the    *)
(* commit copies the card's files to the PC and then records the import.     *)
(* Other commands run between these, copying may fail, and the program may   *)
(* be stopped between a copy and the record.                                *)
(***************************************************************************)
EXTENDS Integers, Sequences, FiniteSets

CONSTANTS
    Bundle,         \* the bundles: [id, date, filed, no, files],
                    \* files: path |-> bytes, filed: the date of their path
    NoNumber,       \* of a bundle without a settlement number
    Plain,          \* a copy under the card's own file name
    NoCommit,
    PreviewLimit,   \* PREVIEW_CACHE_LIMIT
    Window,         \* WINDOW_DAYS
    MaxDate, MaxRollback, MaxFault      \* bounds on the behaviours

(* A bundle is named by the hash of its files, so different bundles have     *)
(* different ids.                                                          *)
ASSUME DailyReportAssumption ==
    /\ \A b \in Bundle : b.date \in 1..MaxDate /\ b.filed \in 1..MaxDate
    /\ \A b1, b2 \in Bundle : b1.id = b2.id => b1 = b2
    /\ PreviewLimit \in Nat \ {0} /\ Window \in Nat
    /\ MaxDate \in Nat /\ MaxRollback \in Nat /\ MaxFault \in Nat

VARIABLES
    today,
    imports,        \* [id, bundle, at, rolledBack], at: path |-> place of its copy
    copies,         \* the copies on the PC: place |-> bytes
    offered,        \* the bundles of the latest scan that were not imported
    previews,       \* the cache, oldest first: [bundle, card, imported, others, expired]
    running,        \* a commit: [preview, left, at], or NoCommit
    faults

vars == <<today, imports, copies, offered, previews, running, faults>>

Active == {i \in imports : ~i.rolledBack}

SameDate(date) == {i.id : i \in {j \in Active : j.bundle.date = date}}

Imported(b) == \E i \in Active : i.bundle = b

(* Mutated: the bundles are compared by date and number of the latest import. *)
SameSettlementAsLast(b) ==
    /\ b.no # NoNumber
    /\ \E i \in Active : /\ \A j \in Active : j.id <= i.id
                         /\ i.bundle # b
                         /\ i.bundle.date = b.date /\ i.bundle.no = b.no

(* A bundle of other bytes of the same settlement is never taken as well.    *)
SameSettlement(b) ==
    /\ b.no # NoNumber
    /\ \E i \in Active : /\ i.bundle # b
                         /\ i.bundle.date = b.date /\ i.bundle.no = b.no

Refused(b) == ~Imported(b) /\ SameSettlement(b)

-----------------------------------------------------------------------------
(* The scan and the preview. *)

Earlier(d, e) == IF d < e THEN d ELSE e

(* The scan goes back to the latest day imported, and Window days at least;   *)
(* it compares the dates of the paths.                                     *)
ScannedFrom ==
    LET days == {i.bundle.date : i \in Active}
    IN  IF days = {} THEN today - Window
        ELSE Earlier(today - Window, CHOOSE d \in days : \A e \in days : e <= d)

(* What a card may hold at one time: one file under each path. *)
OnOneCard(seen) ==
    \A b1, b2 \in seen : b1 # b2 => DOMAIN b1.files \cap DOMAIN b2.files = {}

(* The register has written the bundle. *)
Written(b) == b.date <= today /\ b.filed <= today

Scan(seen) ==
    /\ running = NoCommit
    /\ OnOneCard(seen)
    /\ \A b \in seen : Written(b)
    /\ offered' = {b \in seen : /\ b.filed >= ScannedFrom
                                /\ b.no # NoNumber
                                /\ ~Imported(b) /\ ~SameSettlement(b)}
    /\ UNCHANGED <<today, imports, copies, previews, running, faults>>

NewPreview(b, card) ==
    [bundle |-> b, card |-> card, imported |-> Imported(b),
     others |-> SameDate(b.date), expired |-> FALSE]

(* The oldest preview gives way when the cache is full. *)
Room == IF Len(previews) < PreviewLimit THEN previews ELSE Tail(previews)

(* A file from the card must have a settlement number. *)
Preview(b, card) ==
    /\ running = NoCommit
    /\ Written(b)
    /\ card => b.no # NoNumber
    /\ ~Refused(b)
    /\ previews' = Append(Room, NewPreview(b, card))
    /\ UNCHANGED <<today, imports, copies, offered, running, faults>>

PreviewOffered(b) == b \in offered /\ Preview(b, TRUE)

-----------------------------------------------------------------------------
(* The commit of a preview: the copies, file by file, and the record. *)

Without(k) == SubSeq(previews, 1, k - 1) \o SubSeq(previews, k + 1, Len(previews))

(* additional_import_confirmed is given exactly when the preview has shown   *)
(* other imports of the day.                                               *)
StartCommit(k) ==
    /\ running = NoCommit
    /\ ~previews[k].expired /\ ~previews[k].imported
    /\ running' = [preview |-> k, at |-> <<>>,
                   left |-> IF previews[k].card THEN DOMAIN previews[k].bundle.files
                            ELSE {}]
    /\ UNCHANGED <<today, imports, copies, offered, previews, faults>>

CommitExpired(k) ==
    /\ running = NoCommit
    /\ previews[k].expired
    /\ previews' = Without(k)
    /\ UNCHANGED <<today, imports, copies, offered, running, faults>>

Committing == previews[running.preview]

Extended(f, x, y) == [z \in DOMAIN f \cup {x} |-> IF z = x THEN y ELSE f[z]]

(* Where a file's copy goes: a copy of other bytes is never written over.    *)
(* A copy that is there already with the same bytes is the copy.            *)
Place(path, bytes) ==
    IF \/ <<path, Plain>> \notin DOMAIN copies
       \/ copies[<<path, Plain>>] = bytes
    THEN <<path, Plain>> ELSE <<path, bytes>>

(* Mutated: a copy that is there is an error. *)
NothingAt(place, bytes) == place \notin DOMAIN copies

MayCopy(place, bytes) == place \in DOMAIN copies => copies[place] = bytes

Copied(path, place) ==
    /\ path \in running.left
    /\ copies' = Extended(copies, place, Committing.bundle.files[path])
    /\ running' = [running EXCEPT !.left = @ \ {path}, !.at = Extended(@, path, place)]
    /\ UNCHANGED <<today, imports, offered, previews, faults>>

(* Mutated: the copy is written over what has its name. *)
SaveCopyOver(path) == Copied(path, <<path, Plain>>)

SaveCopy(path) ==
    LET bytes == Committing.bundle.files[path]
    IN  /\ MayCopy(Place(path, bytes), bytes)
        /\ Copied(path, Place(path, bytes))

Copyable ==
    \A path \in running.left :
        LET bytes == Committing.bundle.files[path] IN MayCopy(Place(path, bytes), bytes)

(* SourceCopyFailed: nothing is recorded and the preview stays. *)
FailCopy ==
    /\ running # NoCommit
    /\ running.left # {}
    /\ Copyable => faults < MaxFault
    /\ faults' = IF Copyable THEN faults + 1 ELSE faults
    /\ running' = NoCommit
    /\ UNCHANGED <<today, imports, copies, offered, previews>>

(* Mutated: only the number of the day's imports is compared. *)
AsManyAsShown(v) == Cardinality(SameDate(v.bundle.date)) = Cardinality(v.others)

AsShown(v) == SameDate(v.bundle.date) = v.others

Record ==
    /\ running # NoCommit
    /\ running.left = {}
    /\ LET b == Committing.bundle
       IN  /\ ~Imported(b) /\ ~SameSettlement(b) /\ AsShown(Committing)
           /\ imports' = imports \cup {[id |-> Cardinality(imports) + 1, bundle |-> b,
                                        at |-> running.at, rolledBack |-> FALSE]}
    /\ previews' = Without(running.preview)
    /\ running' = NoCommit
    /\ UNCHANGED <<today, copies, offered, faults>>

(* The preview is dropped only when the imports of its day have changed. *)
RefuseRecord ==
    /\ running # NoCommit
    /\ running.left = {}
    /\ LET b == Committing.bundle
       IN  \/ (Imported(b) \/ SameSettlement(b)) /\ UNCHANGED previews
           \/ /\ ~Imported(b) /\ ~SameSettlement(b) /\ ~AsShown(Committing)
              /\ previews' = Without(running.preview)
    /\ running' = NoCommit
    /\ UNCHANGED <<today, imports, copies, offered, faults>>

-----------------------------------------------------------------------------
Rollback(i) ==
    /\ running = NoCommit
    /\ ~i.rolledBack
    /\ Cardinality(imports \ Active) < MaxRollback
    /\ imports' = (imports \ {i}) \cup {[i EXCEPT !.rolledBack = TRUE]}
    /\ UNCHANGED <<today, copies, offered, previews, running, faults>>

(* PREVIEW_CACHE_TTL_SECS pass after preview k, or after the scan. *)
Expire(k) ==
    /\ previews' = [j \in DOMAIN previews |->
                       [previews[j] EXCEPT !.expired = @ \/ j <= k]]
    /\ UNCHANGED <<today, imports, copies, offered, running, faults>>

ExpireScan ==
    /\ offered' = {}
    /\ UNCHANGED <<today, imports, copies, previews, running, faults>>

(* The caches are in memory; the copies and the database are not. *)
Restart ==
    /\ faults < MaxFault
    /\ faults' = faults + 1
    /\ offered' = {} /\ previews' = <<>> /\ running' = NoCommit
    /\ UNCHANGED <<today, imports, copies>>

NextDay ==
    /\ today < MaxDate
    /\ today' = today + 1
    /\ UNCHANGED <<imports, copies, offered, previews, running, faults>>

Init ==
    /\ today = 1
    /\ imports = {} /\ copies = <<>>
    /\ offered = {} /\ previews = <<>> /\ running = NoCommit
    /\ faults = 0

RunCommit ==
    \/ running # NoCommit /\ \E path \in running.left : SaveCopy(path)
    \/ FailCopy
    \/ Record
    \/ RefuseRecord

Next ==
    \/ \E seen \in SUBSET Bundle : Scan(seen)
    \/ \E b \in Bundle : \E card \in BOOLEAN : Preview(b, card)
    \/ \E b \in Bundle : PreviewOffered(b)
    \/ \E k \in DOMAIN previews : StartCommit(k)
    \/ \E k \in DOMAIN previews : CommitExpired(k)
    \/ RunCommit
    \/ \E i \in imports : Rollback(i)
    \/ \E k \in DOMAIN previews : Expire(k)
    \/ ExpireScan
    \/ Restart
    \/ NextDay

(* A commit that has started runs to its end unless the program is stopped,  *)
(* and a clerk who reads a bundle again and again commits the preview last   *)
(* made before it expires.                                                 *)
CommitLatest(b) ==
    /\ previews # <<>>
    /\ previews[Len(previews)].bundle = b
    /\ StartCommit(Len(previews))

Fairness == WF_vars(RunCommit) /\ \A b \in Bundle : SF_vars(CommitLatest(b))

Spec == Init /\ [][Next]_vars /\ Fairness

-----------------------------------------------------------------------------
(* BIZ-08-D4, duplicate check: of the imports that count, no two are of the  *)
(* same bundle, nor of the same settlement of a day under different bytes.   *)
TakenOnce ==
    \A i, j \in Active :
        \/ i = j
        \/ /\ i.bundle # j.bundle
           /\ \/ i.bundle.no = NoNumber
              \/ i.bundle.date # j.bundle.date
              \/ i.bundle.no # j.bundle.no

(* BIZ-08-D5, 29 section 29.8: an import from the card has a copy of each of its *)
(* files on the PC with the bytes that were imported, whatever was copied    *)
(* later under the same names.                                             *)
CopiesAreKept ==
    \A i \in imports : \A path \in DOMAIN i.at :
        /\ i.at[path] \in DOMAIN copies
        /\ copies[i.at[path]] = i.bundle.files[path]

(* 37 section 37.4 step 5: an import is added to a day only when the imports of  *)
(* that day are those the clerk was shown, neither fewer nor others.        *)
TakenAsShown ==
    [][\A i \in imports' :
          \/ \E j \in imports : j.id = i.id
          \/ \E v \in {previews[k] : k \in DOMAIN previews} :
                v.bundle = i.bundle /\ v.others = SameDate(i.bundle.date)]_vars

(* 37 section 37.4, 45 section 45.7: whatever fails, expires, changes or is stopped *)
(* on the way, a clerk who reads a bundle again and again has its settlement *)
(* imported in the end.                                                    *)
TakenInTheEnd ==
    \A b \in Bundle :
        []<><<Preview(b, b.no # NoNumber)>>_vars => <>[](Imported(b) \/ SameSettlement(b))
=============================================================================
