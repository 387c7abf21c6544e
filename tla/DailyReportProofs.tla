------------------------- MODULE DailyReportProofs -------------------------
(***************************************************************************)
(* The daily report import for any bundles, caches and bounds: a settlement *)
(* counts once, a copy once written stays, and an import is added to the    *)
(* day the clerk was shown.                                                *)
(***************************************************************************)
EXTENDS DailyReport, FiniteSetTheorems, TLAPS

(* The shapes the proofs need: what a rollback and an expiry leave alone.    *)
Imports(at) == [id : Nat, bundle : Bundle, at : at, rolledBack : BOOLEAN]

ImportsShaped ==
    /\ IsFiniteSet(imports)
    /\ imports \subseteq Imports({i.at : i \in imports})

Previewed == [bundle : Bundle, card : BOOLEAN, imported : BOOLEAN,
              others : SUBSET Nat, expired : BOOLEAN]

PreviewsShaped ==
    /\ previews \in Seq(Previewed)
    /\ running # NoCommit =>
          /\ running.preview \in DOMAIN previews
          /\ running = [preview |-> running.preview, at |-> running.at,
                        left |-> running.left]

Shaped == ImportsShaped /\ PreviewsShaped

-----------------------------------------------------------------------------
LEMMA DatesNumbered == ASSUME ImportsShaped, NEW d PROVE SameDate(d) \subseteq Nat
  BY DEF SameDate, Active, ImportsShaped, Imports

LEMMA WithoutShaped ==
    ASSUME previews \in Seq(Previewed), NEW k \in DOMAIN previews
    PROVE  Without(k) \in Seq(Previewed)
<1>1. /\ SubSeq(previews, 1, k - 1) \in Seq(Previewed)
      /\ SubSeq(previews, k + 1, Len(previews)) \in Seq(Previewed)
  OBVIOUS
<1> QED
  BY <1>1 DEF Without

LEMMA RoomShaped ==
    ASSUME previews \in Seq(Previewed)
    PROVE  Room \in Seq(Previewed)
<1>1. CASE previews = <<>>
  BY <1>1, DailyReportAssumption DEF Room
<1>2. CASE previews # <<>>
  BY <1>2 DEF Room
<1> QED
  BY <1>1, <1>2

(* Expiry changes no more than the mark of expiry.                          *)
LEMMA ExpiredShaped ==
    ASSUME previews \in Seq(Previewed), NEW k, Expire(k)
    PROVE  /\ previews' \in Seq(Previewed) /\ DOMAIN previews' = DOMAIN previews
           /\ \A j \in DOMAIN previews : previews'[j].bundle = previews[j].bundle
<1>1. previews' = [j \in 1..Len(previews) |->
                      [previews[j] EXCEPT !.expired = @ \/ j <= k]]
  BY DEF Expire
<1>2. \A j \in 1..Len(previews) :
          /\ previews'[j] \in Previewed
          /\ previews'[j].bundle = previews[j].bundle
  <2> TAKE j \in 1..Len(previews)
  <2>1. previews[j] \in Previewed
    OBVIOUS
  <2>2. previews'[j] = [previews[j] EXCEPT !.expired = @ \/ j <= k]
    BY <1>1
  <2>3. (previews[j].expired \/ j <= k) \in BOOLEAN
    OBVIOUS
  <2> QED
    BY <2>1, <2>2, <2>3 DEF Previewed
<1> QED
  BY <1>1, <1>2

-----------------------------------------------------------------------------
(* Each action preserves the shapes. *)
LEMMA ShapesAtFirst == Init => Shaped
<1> SUFFICES ASSUME Init PROVE Shaped
  OBVIOUS
<1>1. IsFiniteSet(imports)
  BY FS_EmptySet DEF Init
<1> QED
  BY <1>1 DEF Init, Shaped, ImportsShaped, PreviewsShaped

LEMMA RecordShapes ==
    ASSUME Shaped, Record
    PROVE  Shaped'
<1>1. /\ running.preview \in DOMAIN previews
      /\ Committing \in Previewed
  BY DEF Record, Shaped, PreviewsShaped, Committing
<1> DEFINE new == [id |-> Cardinality(imports) + 1, bundle |-> Committing.bundle,
                   at |-> running.at, rolledBack |-> FALSE]
<1>2. imports' = imports \cup {new}
  BY DEF Record
<1>3. IsFiniteSet(imports') /\ Cardinality(imports) \in Nat
  BY <1>2, FS_AddElement, FS_CardinalityType DEF Shaped, ImportsShaped
<1>4. new \in Imports({i.at : i \in imports'})
  <2>1. new.at \in {i.at : i \in imports'}
    BY <1>2
  <2> QED
    BY <1>1, <1>3, <2>1 DEF Imports, Previewed
<1>5. ImportsShaped'
  BY <1>2, <1>3, <1>4 DEF Shaped, ImportsShaped, Imports
<1>6. PreviewsShaped'
  BY <1>1, WithoutShaped DEF Record, Shaped, PreviewsShaped
<1> QED
  BY <1>5, <1>6 DEF Shaped

LEMMA RollbackShapes ==
    ASSUME Shaped, NEW i \in imports, Rollback(i)
    PROVE  Shaped'
<1> DEFINE undone == [i EXCEPT !.rolledBack = TRUE]
<1>1. imports' = (imports \ {i}) \cup {undone}
  BY DEF Rollback
<1>2. IsFiniteSet(imports')
  BY <1>1, FS_AddElement, FS_RemoveElement DEF Shaped, ImportsShaped
<1>3. i \in Imports({j.at : j \in imports})
  BY DEF Shaped, ImportsShaped
<1>4. undone \in Imports({j.at : j \in imports'}) /\ undone.at = i.at
  BY <1>1, <1>3 DEF Imports
<1>5. {j.at : j \in imports} \subseteq {j.at : j \in imports'}
  BY <1>1, <1>4
<1>6. ImportsShaped'
  BY <1>1, <1>2, <1>4, <1>5 DEF Shaped, ImportsShaped, Imports
<1> QED
  BY <1>6 DEF Rollback, Shaped, PreviewsShaped

LEMMA PreviewShapes ==
    ASSUME Shaped, NEW b \in Bundle, NEW card \in BOOLEAN, Preview(b, card)
    PROVE  Shaped'
<1>1. NewPreview(b, card) \in Previewed
  <2>1. SameDate(b.date) \in SUBSET Nat
    BY DatesNumbered DEF Shaped
  <2>2. Imported(b) \in BOOLEAN
    BY DEF Imported
  <2> QED
    BY <2>1, <2>2 DEF NewPreview, Previewed
<1>2. previews' \in Seq(Previewed)
  BY <1>1, RoomShaped DEF Preview, Shaped, PreviewsShaped
<1> QED
  BY <1>2 DEF Preview, Shaped, ImportsShaped, PreviewsShaped

LEMMA ShapesStay == Shaped /\ [Next]_vars => Shaped'
<1> SUFFICES ASSUME Shaped, [Next]_vars PROVE Shaped'
  OBVIOUS
<1>1. CASE \E seen \in SUBSET Bundle : Scan(seen)
  BY <1>1 DEF Scan, Shaped, ImportsShaped, PreviewsShaped
<1>2. CASE \E b \in Bundle : \E card \in BOOLEAN : Preview(b, card)
  BY <1>2, PreviewShapes
<1>3. CASE \E b \in Bundle : PreviewOffered(b)
  BY <1>3, PreviewShapes DEF PreviewOffered
<1>4. CASE \E k \in DOMAIN previews : StartCommit(k)
  BY <1>4 DEF StartCommit, Shaped, ImportsShaped, PreviewsShaped
<1>5. CASE \E k \in DOMAIN previews : CommitExpired(k)
  BY <1>5, WithoutShaped DEF CommitExpired, Shaped, ImportsShaped, PreviewsShaped
<1>6. CASE RunCommit
  <2>1. CASE running # NoCommit /\ \E path \in running.left : SaveCopy(path)
    BY <2>1 DEF SaveCopy, Copied, Shaped, ImportsShaped, PreviewsShaped
  <2>2. CASE FailCopy
    BY <2>2 DEF FailCopy, Shaped, ImportsShaped, PreviewsShaped
  <2>3. CASE Record
    BY <2>3, RecordShapes
  <2>4. CASE RefuseRecord
    BY <2>4, WithoutShaped DEF RefuseRecord, Shaped, ImportsShaped, PreviewsShaped
  <2> QED
    BY <1>6, <2>1, <2>2, <2>3, <2>4 DEF RunCommit
<1>7. CASE \E i \in imports : Rollback(i)
  BY <1>7, RollbackShapes
<1>8. CASE \E k \in DOMAIN previews : Expire(k)
  BY <1>8, ExpiredShaped DEF Expire, Shaped, ImportsShaped, PreviewsShaped
<1>9. CASE ExpireScan \/ Restart \/ NextDay
  <2>1. CASE ExpireScan \/ NextDay
    BY <2>1 DEF ExpireScan, NextDay, Shaped, ImportsShaped, PreviewsShaped
  <2>2. CASE Restart
    BY <2>2 DEF Restart, Shaped, ImportsShaped, PreviewsShaped
  <2> QED
    BY <1>9, <2>1, <2>2
<1>10. CASE UNCHANGED vars
  BY <1>10 DEF vars, Shaped, ImportsShaped, PreviewsShaped
<1> QED
  BY <1>1, <1>2, <1>3, <1>4, <1>5, <1>6, <1>7, <1>8, <1>9, <1>10 DEF Next

-----------------------------------------------------------------------------
(* Of the reports that count, no two are of one settlement: each commit looks *)
(* at all of them in the transaction that writes (commit.rs, step 4a),       *)
(* however old the preview is and whatever was rolled back since.            *)
LEMMA RecordTakesOnce ==
    ASSUME Shaped, TakenOnce, Record
    PROVE  TakenOnce'
<1> DEFINE b == Committing.bundle
           new == [id |-> Cardinality(imports) + 1, bundle |-> b,
                   at |-> running.at, rolledBack |-> FALSE]
<1>1. imports' = imports \cup {new} /\ ~Imported(b) /\ ~SameSettlement(b)
  BY DEF Record
<1>2. Active' \subseteq Active \cup {new}
  BY <1>1 DEF Active
<1>3. \A i \in Active :
          /\ i.bundle # b
          /\ b.no = NoNumber \/ i.bundle.date # b.date \/ i.bundle.no # b.no
  BY <1>1 DEF Imported, SameSettlement
<1>4. new.bundle = b
  OBVIOUS
<1> HIDE DEF new, b
<1> QED
  BY <1>2, <1>3, <1>4 DEF TakenOnce

LEMMA TakenOnceStays == Shaped /\ TakenOnce /\ [Next]_vars => TakenOnce'
<1> SUFFICES ASSUME Shaped, TakenOnce, [Next]_vars PROVE TakenOnce'
  OBVIOUS
<1>1. CASE Record
  BY <1>1, RecordTakesOnce
<1>2. CASE \E i \in imports : Rollback(i)
  <2>1. PICK i \in imports : Rollback(i)
    BY <1>2
  <2>2. [i EXCEPT !.rolledBack = TRUE].rolledBack
    BY DEF Shaped, ImportsShaped, Imports
  <2>3. Active' \subseteq Active
    BY <2>1, <2>2 DEF Rollback, Active
  <2> QED
    BY <2>3 DEF TakenOnce
<1>3. CASE imports' = imports
  BY <1>3 DEF TakenOnce, Active
<1>4. Record \/ (\E i \in imports : Rollback(i)) \/ imports' = imports
  BY DEF Next, RunCommit, Scan, Preview, PreviewOffered, StartCommit, CommitExpired,
         SaveCopy, Copied, FailCopy, RefuseRecord, Expire, ExpireScan, Restart,
         NextDay, vars
<1> QED
  BY <1>1, <1>2, <1>3, <1>4

THEOREM SettlementsCountOnce == Spec => []TakenOnce
<1>1. Init => Shaped /\ TakenOnce
  BY ShapesAtFirst DEF Init, TakenOnce, Active
<1>2. Shaped /\ TakenOnce /\ [Next]_vars => Shaped' /\ TakenOnce'
  BY ShapesStay, TakenOnceStays
<1> QED
  BY <1>1, <1>2, PTL DEF Spec

-----------------------------------------------------------------------------
(* The clerk was shown the day to which the report is added: between the     *)
(* preview and the commit no report of the day came or went (37, 37.4).      *)
LEMMA StepTakesAsShown ==
    ASSUME Shaped, [Next]_vars, NEW i \in imports'
    PROVE  \/ \E j \in imports : j.id = i.id
           \/ \E v \in {previews[k] : k \in DOMAIN previews} :
                 v.bundle = i.bundle /\ v.others = SameDate(i.bundle.date)
<1>1. CASE Record
  <2>1. CASE i \in imports
    BY <2>1
  <2>2. CASE i \notin imports
    <3>1. i.bundle = Committing.bundle /\ AsShown(Committing)
      BY <1>1, <2>2 DEF Record
    <3>2. Committing \in {previews[k] : k \in DOMAIN previews}
      BY <1>1 DEF Record, Shaped, PreviewsShaped, Committing
    <3> QED
      BY <3>1, <3>2 DEF AsShown
  <2> QED
    BY <2>1, <2>2
<1>2. CASE \E j \in imports : Rollback(j)
  <2>1. PICK j \in imports : Rollback(j)
    BY <1>2
  <2>2. [j EXCEPT !.rolledBack = TRUE].id = j.id
    BY DEF Shaped, ImportsShaped, Imports
  <2> QED
    BY <2>1, <2>2 DEF Rollback
<1>3. CASE imports' = imports
  BY <1>3
<1>4. Record \/ (\E j \in imports : Rollback(j)) \/ imports' = imports
  BY DEF Next, RunCommit, Scan, Preview, PreviewOffered, StartCommit, CommitExpired,
         SaveCopy, Copied, FailCopy, RefuseRecord, Expire, ExpireScan, Restart,
         NextDay, vars
<1> QED
  BY <1>1, <1>2, <1>3, <1>4

THEOREM ReportsAreAddedAsShown == Spec => TakenAsShown
<1>1. Init => Shaped
  BY ShapesAtFirst
<1>2. Shaped /\ [Next]_vars => Shaped'
  BY ShapesStay
<1>3. Shaped /\ [Next]_vars =>
          [\A i \in imports' :
              \/ \E j \in imports : j.id = i.id
              \/ \E v \in {previews[k] : k \in DOMAIN previews} :
                    v.bundle = i.bundle /\ v.others = SameDate(i.bundle.date)]_vars
  BY StepTakesAsShown
<1> QED
  BY <1>1, <1>2, <1>3, PTL DEF Spec, TakenAsShown

-----------------------------------------------------------------------------
(* A commit that is running has copied what it notes. *)
CopyInvariant ==
    /\ CopiesAreKept
    /\ running # NoCommit =>
          \A path \in DOMAIN running.at :
              /\ running.at[path] \in DOMAIN copies
              /\ copies[running.at[path]] = Committing.bundle.files[path]

(* A copy once there keeps its bytes, whatever is copied later.              *)
LEMMA CopiesStay ==
    ASSUME NEW path, running # NoCommit, SaveCopy(path)
    PROVE  \A place \in DOMAIN copies :
              place \in DOMAIN copies' /\ copies'[place] = copies[place]
<1> DEFINE bytes == Committing.bundle.files[path]
           at == Place(path, bytes)
<1>1. /\ at \in DOMAIN copies => copies[at] = bytes
      /\ copies' = [z \in DOMAIN copies \cup {at} |->
                       IF z = at THEN bytes ELSE copies[z]]
  BY DEF SaveCopy, MayCopy, Copied, Extended
<1> HIDE DEF bytes, at
<1> QED
  BY <1>1

LEMMA SaveCopyKeeps ==
    ASSUME Shaped, CopyInvariant, NEW path, running # NoCommit, SaveCopy(path)
    PROVE  CopyInvariant'
<1> DEFINE bytes == Committing.bundle.files[path]
           at == Place(path, bytes)
<1>1. CopiesAreKept'
  BY CopiesStay DEF SaveCopy, Copied, CopyInvariant, CopiesAreKept
<1>2. /\ running'.at = Extended(running.at, path, at)
      /\ running'.preview = running.preview /\ previews' = previews
  BY DEF SaveCopy, Copied, Shaped, PreviewsShaped
<1>3. /\ at \in DOMAIN copies' /\ copies'[at] = bytes
      /\ Committing' = Committing
  BY <1>2 DEF SaveCopy, Copied, Extended, Committing
<1>4. \A p \in DOMAIN running.at :
          /\ running.at[p] \in DOMAIN copies'
          /\ copies'[running.at[p]] = Committing.bundle.files[p]
  BY CopiesStay DEF CopyInvariant
<1>5. \A p \in DOMAIN running'.at :
          /\ running'.at[p] \in DOMAIN copies'
          /\ copies'[running'.at[p]] = Committing.bundle.files[p]
  <2> HIDE DEF at
  <2> QED
    BY <1>2, <1>3, <1>4 DEF Extended
<1> QED
  BY <1>1, <1>3, <1>5 DEF CopyInvariant

LEMMA CopyInvariantStays ==
    Shaped /\ CopyInvariant /\ [Next]_vars => CopyInvariant'
<1> SUFFICES ASSUME Shaped, CopyInvariant, [Next]_vars PROVE CopyInvariant'
  OBVIOUS
<1>1. CASE running # NoCommit /\ \E path \in running.left : SaveCopy(path)
  BY <1>1, SaveCopyKeeps
<1>2. CASE Record
  <2>1. /\ imports' = imports \cup
              {[id |-> Cardinality(imports) + 1, bundle |-> Committing.bundle,
                at |-> running.at, rolledBack |-> FALSE]}
        /\ running # NoCommit /\ running' = NoCommit /\ copies' = copies
    BY <1>2 DEF Record
  <2>2. ASSUME NEW i \in imports', NEW path \in DOMAIN i.at
        PROVE  /\ i.at[path] \in DOMAIN copies'
               /\ copies'[i.at[path]] = i.bundle.files[path]
    <3>1. CASE i \in imports
      BY <2>1, <3>1 DEF CopyInvariant, CopiesAreKept
    <3>2. CASE i.at = running.at /\ i.bundle = Committing.bundle
      BY <2>1, <3>2 DEF CopyInvariant
    <3> QED
      BY <2>1, <3>1, <3>2
  <2>3. CopiesAreKept'
    BY <2>2 DEF CopiesAreKept
  <2> QED
    BY <2>1, <2>3 DEF CopyInvariant
<1>3. CASE \E i \in imports : Rollback(i)
  <2>1. PICK i \in imports : Rollback(i)
    BY <1>3
  <2>2. /\ [i EXCEPT !.rolledBack = TRUE].at = i.at
        /\ [i EXCEPT !.rolledBack = TRUE].bundle = i.bundle
    BY DEF Shaped, ImportsShaped, Imports
  <2> DEFINE undone == [i EXCEPT !.rolledBack = TRUE]
  <2>3. /\ imports' = (imports \ {i}) \cup {undone}
        /\ undone.at = i.at /\ undone.bundle = i.bundle /\ copies' = copies
    BY <2>1, <2>2 DEF Rollback
  <2> HIDE DEF undone
  <2>4. CopiesAreKept'
    BY <2>3 DEF CopyInvariant, CopiesAreKept
  <2> QED
    BY <2>1, <2>4 DEF Rollback, CopyInvariant
<1>4. CASE \E k \in DOMAIN previews : Expire(k)
  <2>1. PICK k \in DOMAIN previews : Expire(k)
    BY <1>4
  <2>2. running # NoCommit => previews'[running.preview].bundle = Committing.bundle
    BY <2>1, ExpiredShaped DEF Shaped, PreviewsShaped, Committing
  <2> QED
    BY <2>1, <2>2 DEF Expire, CopyInvariant, CopiesAreKept, Committing
<1>5. CASE \E k \in DOMAIN previews : StartCommit(k)
  <2>1. running' = NoCommit \/ running'.at = <<>>
    BY <1>5 DEF StartCommit
  <2>2. DOMAIN <<>> = {}
    OBVIOUS
  <2> QED
    BY <1>5, <2>1, <2>2 DEF StartCommit, CopyInvariant, CopiesAreKept
<1>6. CASE UNCHANGED <<imports, copies, running, previews>>
  BY <1>6 DEF CopyInvariant, CopiesAreKept, Committing
<1>7. CASE UNCHANGED <<imports, copies>> /\ running' = NoCommit
  BY <1>7 DEF CopyInvariant, CopiesAreKept
<1>8. \/ running # NoCommit /\ \E path \in running.left : SaveCopy(path)
      \/ Record \/ (\E i \in imports : Rollback(i))
      \/ (\E k \in DOMAIN previews : Expire(k) \/ StartCommit(k))
      \/ UNCHANGED <<imports, copies, running, previews>>
      \/ UNCHANGED <<imports, copies>> /\ running' = NoCommit
  BY DEF Next, RunCommit, Scan, Preview, PreviewOffered, CommitExpired,
         FailCopy, RefuseRecord, ExpireScan, Restart, NextDay, vars
<1> QED
  BY <1>1, <1>2, <1>3, <1>4, <1>5, <1>6, <1>7, <1>8

(* However often a file of the same name is read from the card again, with   *)
(* whatever bytes, and wherever a commit is cut short, the bytes an import    *)
(* was made from stay on the PC (pos_source_copy.rs, step 2).                *)
THEOREM ImportedFilesStay == Spec => []CopiesAreKept
<1>1. Init => Shaped /\ CopyInvariant
  BY ShapesAtFirst DEF Init, CopyInvariant, CopiesAreKept
<1>2. Shaped /\ CopyInvariant /\ [Next]_vars => Shaped' /\ CopyInvariant'
  BY ShapesStay, CopyInvariantStays
<1> QED
  BY <1>1, <1>2, PTL DEF Spec, CopyInvariant
=============================================================================
