------------------------------ MODULE Restore ------------------------------
(***************************************************************************)
(* The restore of a backup and the reconciliation at the next start         *)
(* (mnt/restore.rs, MNT-01-D1/D4/D5; cmd/settings_cmd.rs restore_backup;     *)
(* lib.rs prepare_database).                                                *)
(*                                                                         *)
(* The database is up to three files.  A restore moves them aside, copies    *)
(* the backup to their place, opens it, and clears up, one file operation    *)
(* after the other; a manifest on the disk says how far it has come.  Any    *)
(* operation may fail, the program may be killed between any two of them,    *)
(* and the power may go, which loses directory changes not synced yet.      *)
(***************************************************************************)
EXTENDS Naturals, Sequences

CONSTANTS
    Reordering,     \* unsynced directory changes may be lost in any order
    MaxFault,       \* bounds on the behaviours: operations that fail,
    MaxStop,        \*   kills and power losses,
    MaxAttempt,     \*   restores,
    MaxWrite        \*   writes of the shop

ASSUME RestoreAssumption ==
    /\ Reordering \in BOOLEAN
    /\ {MaxFault, MaxStop, MaxAttempt, MaxWrite} \subseteq Nat

(* RestorePaths: the files by name.                                         *)
Part == {"main", "wal", "shm"}
Original(p) == <<p, "original">>
Backup(p) == <<p, "backup">>
Manifest == <<"manifest", "canonical">>
Temp == <<"manifest", "temp">>

Chosen == 0         \* the snapshot in the backup file
Torn == [torn |-> TRUE]     \* content whose writing the power loss cut short

VARIABLES
    files,          \* the directory as the program sees it: name -> content
    disk,           \* the directory as of its last sync
    unsynced,       \* the changes made to it since
    unflushed,      \* names of files whose content may not be on the disk
    phase,          \* what the program is doing
    plan,           \* the file operations left to do in this phase
    attempt,        \* the number of restores begun
    logged,         \* log rows written of each restore
    written,        \* the shop's last snapshot
    open, before,   \* a restore is not settled; the snapshot when it began
    answer,         \* what the shop was told of the last restore
    faults, stops   \* failures, kills and power losses so far

fileVars == <<files, disk, unsynced, unflushed>>
vars == <<fileVars, phase, plan, attempt, logged, written, open, before,
          answer, faults, stops>>

-----------------------------------------------------------------------------
(* Directories, and the operations of RestoreFileOps on them.               *)
Has(d, name) == name \in DOMAIN d
Without(d, names) == [n \in DOMAIN d \ names |-> d[n]]
With(d, name, content) ==
    [n \in DOMAIN d \cup {name} |-> IF n = name THEN content ELSE d[n]]

Rename(from, to) == [do |-> "rename", from |-> from, to |-> to]
Delete(name) == [do |-> "delete", name |-> name]
Create(name, content) == [do |-> "create", name |-> name, content |-> content]
Flush(name) == [do |-> "flush", name |-> name]
Sync == [do |-> "sync"]
Open == [do |-> "open"]
Log == [do |-> "log"]

Changed(d, op) ==
    CASE op.do = "rename" /\ Has(d, op.from) ->
            With(Without(d, {op.from}), op.to, d[op.from])
      [] op.do = "delete" -> Without(d, {op.name})
      [] op.do = "create" -> With(d, op.name, op.content)
      [] OTHER -> d

AllChanged(d, ops) ==
    LET after[n \in 0..Len(ops)] ==
            IF n = 0 THEN d ELSE Changed(after[n - 1], ops[n])
    IN  after[Len(ops)]

BackupSet(d) == {p \in Part : Has(d, Backup(p))}
OriginalSet(d) == {p \in Part : Has(d, Original(p))}

(* What is done for each of some files, in the order of triples().          *)
ForEach(parts, ops) ==
    LET Of(p) == IF p \in parts THEN ops[p] ELSE <<>>
    IN  Of("main") \o Of("wal") \o Of("shm")

(* The snapshot in a set of files, when they belong together.               *)
Mixed == MaxWrite + 2
Missing == MaxWrite + 3
Locked == MaxWrite + 4

Snapshot(d) ==
    LET main == d[Original("main")]
        here == {d[Original(p)] : p \in OriginalSet(d)}
    IN  IF ~Has(d, Original("main")) THEN Missing
        ELSE IF Torn \in here THEN Mixed
        ELSE IF \E c \in here : c.gen # main.gen THEN Mixed
        ELSE IF Has(d, Original("wal")) THEN d[Original("wal")].version
        ELSE main.version

-----------------------------------------------------------------------------
(* The procedures of restore.rs, as the operations each is made of.         *)
ActiveManifest(n, d) ==
    [attempt |-> n, originals |-> OriginalSet(d), phase |-> "active"]

Commit(manifest) == [manifest EXCEPT !.phase = "committed"]

(* write_manifest: a new file, then its new name.                           *)
WriteManifest(manifest) ==
    <<Create(Temp, manifest), Flush(Temp), Rename(Temp, Manifest), Sync>>

DeleteManifest == <<Delete(Manifest), Delete(Temp), Sync>>

Evacuation(parts) ==
    ForEach(parts, [p \in Part |-> <<Rename(Original(p), Backup(p)), Sync>>])

Installation(n) ==
    <<Create(Original("main"), [gen |-> n, version |-> Chosen]),
      Flush(Original("main")), Sync, Open>>

RemoveOriginals == ForEach(Part, [p \in Part |-> <<Delete(Original(p))>>])

(* restore_recorded_backups, by remove_all_originals.                       *)
RestoreOverNew(parts) ==
    RemoveOriginals \o <<Sync>> \o
    ForEach(parts, [p \in Part |-> <<Rename(Backup(p), Original(p)), Sync>>]) \o
    (IF "main" \in parts THEN <<>> ELSE <<Sync>>)

RestoreMissing(parts) ==
    ForEach(parts, [p \in Part |-> <<Delete(Original(p)),
                                     Rename(Backup(p), Original(p)), Sync>>]) \o
    (IF parts = {} THEN <<Sync>> ELSE <<>>)

Rollback(evacuated, removeNewGeneration) ==
    (IF removeNewGeneration THEN RemoveOriginals ELSE <<>>) \o
    RestoreMissing(evacuated) \o DeleteManifest

RemoveBackups(parts) ==
    ForEach(parts, [p \in Part |-> <<Delete(Backup(p)), Sync>>])

CleanupCommitted(d) ==
    RemoveBackups(BackupSet(d)) \o <<Log>> \o DeleteManifest

(* The branches R1 to R7 of the reconciliation.                             *)
Readable(d) == Has(d, Manifest) /\ d[Manifest] # Torn
Active(d) == Readable(d) /\ d[Manifest].phase = "active"
Committed(d) == Readable(d) /\ d[Manifest].phase = "committed"

(* Mutated: any backup found counts as a finished evacuation.               *)
EvacuatedSomething(d) == Active(d) /\ BackupSet(d) # {}

EvacuationComplete(d) == Active(d) /\ BackupSet(d) = d[Manifest].originals

(* Mutated: an evacuation that has not moved a file yet is not one.         *)
EvacuationHalfway(d) ==
    /\ Active(d) /\ ~EvacuationComplete(d)
    /\ BackupSet(d) # {} /\ BackupSet(d) \subseteq d[Manifest].originals

EvacuationPartial(d) ==
    /\ Active(d) /\ ~EvacuationComplete(d)
    /\ BackupSet(d) \subseteq d[Manifest].originals

NothingToDo(d) == BackupSet(d) = {} /\ ~Readable(d)

(* Mutated: nothing is left to do for a committed restore.                  *)
ReconciliationForgetsLog(d) ==
    CASE Committed(d) -> RemoveBackups(BackupSet(d)) \o DeleteManifest
      [] EvacuationComplete(d) -> RestoreOverNew(BackupSet(d)) \o DeleteManifest
      [] EvacuationPartial(d) -> RestoreMissing(BackupSet(d)) \o DeleteManifest
      [] NothingToDo(d) -> IF Has(d, Manifest) THEN DeleteManifest ELSE <<>>

Reconciliation(d) ==
    CASE Committed(d) -> RemoveBackups(BackupSet(d))
      [] EvacuationComplete(d) -> RestoreOverNew(BackupSet(d)) \o DeleteManifest
      [] EvacuationPartial(d) -> RestoreMissing(BackupSet(d)) \o DeleteManifest
      [] NothingToDo(d) -> IF Has(d, Manifest) THEN DeleteManifest ELSE <<>>

Refused(d) ==
    ~(Committed(d) \/ EvacuationComplete(d) \/ EvacuationPartial(d) \/ NothingToDo(d))

-----------------------------------------------------------------------------
(* The program: every step of a plan is one file operation.                 *)
Init ==
    /\ files = [n \in {Original("main")} |-> [gen |-> 0, version |-> 1]]
    /\ disk = files /\ unsynced = <<>> /\ unflushed = {}
    /\ phase = "ready" /\ plan = <<>>
    /\ attempt = 0 /\ logged = [n \in 1..MaxAttempt |-> 0] /\ written = 1
    /\ open = FALSE /\ before = 1 /\ answer = "none"
    /\ faults = 0 /\ stops = 0

restoreVars == <<attempt, logged, written, open, before, answer, faults, stops>>

EnterPhase(next, ops) == phase' = next /\ plan' = ops

Performed(op) == plan # <<>> /\ Head(plan).do \in op /\ plan' = Tail(plan)

ChangeDirectory ==
    /\ Performed({"rename", "delete", "create"})
    /\ LET op == Head(plan) IN
       /\ files' = Changed(files, op)
       /\ unsynced' = IF files' = files THEN unsynced ELSE Append(unsynced, op)
       /\ unflushed' = DOMAIN files' \cap
              (unflushed \cup
               (IF op.do = "create" THEN {op.name}
                ELSE IF op.do = "rename" /\ op.from \in unflushed THEN {op.to}
                ELSE {}))
    /\ UNCHANGED <<disk, phase, restoreVars>>

FlushFile ==
    /\ Performed({"flush"})
    /\ unflushed' = unflushed \ {Head(plan).name}
    /\ UNCHANGED <<files, disk, unsynced, phase, restoreVars>>

SyncParent ==
    /\ Performed({"sync"})
    /\ disk' = files /\ unsynced' = <<>>
    /\ UNCHANGED <<files, unflushed, phase, restoreVars>>

(* SQLite makes its own changes durable.                                    *)
DatabaseBecomes(seen, durable) ==
    /\ files' = seen /\ disk' = durable
    /\ UNCHANGED <<unsynced, unflushed>>

Written(d, version) ==
    LET wal == [gen |-> d[Original("main")].gen, version |-> version]
    IN  With(With(d, Original("wal"), wal), Original("shm"), wal)

Closed(d) ==
    With(Without(d, {Original("wal"), Original("shm")}), Original("main"),
         [d[Original("main")] EXCEPT !.version = Snapshot(d)])

(* Opening the copy may leave files of its own beside it (migrations).      *)
Beside(d) ==
    LET main == d[Original("main")]
    IN  With(With(d, Original("wal"), main), Original("shm"), main)

MayLeaveFiles ==
    \/ DatabaseBecomes(Beside(files), Beside(disk))
    \/ UNCHANGED fileVars

OpenDatabase ==
    /\ Performed({"open"})
    /\ MayLeaveFiles
    /\ UNCHANGED <<phase, restoreVars>>

(* classify_restore_log, and the row when there is none of this restore.    *)
LogRestore ==
    /\ Performed({"log"})
    /\ logged' = [logged EXCEPT ![files[Manifest].attempt] = IF @ = 0 THEN 1 ELSE @]
    /\ UNCHANGED <<fileVars, phase, attempt, written, open, before, answer, faults, stops>>

Step == ChangeDirectory \/ FlushFile \/ SyncParent \/ OpenDatabase \/ LogRestore

-----------------------------------------------------------------------------
(* The restore command.                                                     *)
WriteSnapshot ==
    /\ phase = "ready" /\ written < MaxWrite
    /\ written' = written + 1
    /\ DatabaseBecomes(Written(files, written + 1), Written(disk, written + 1))
    /\ UNCHANGED <<phase, plan, attempt, logged, open, before, answer, faults, stops>>

Residue(d) ==
    \/ Has(d, Temp)
    \/ Active(d) \/ (Has(d, Manifest) /\ ~Readable(d))
    \/ ~Has(d, Manifest) /\ BackupSet(d) # {}

RefuseRestore ==
    /\ phase = "ready" /\ attempt < MaxAttempt
    /\ Residue(files)
    /\ EnterPhase("broken", <<>>)
    /\ UNCHANGED <<fileVars, restoreVars>>

BeginRestore ==
    /\ phase = "ready" /\ attempt < MaxAttempt
    /\ ~Residue(files)
    /\ EnterPhase("release", IF Committed(files) THEN CleanupCommitted(files) ELSE <<>>)
    /\ open' = TRUE /\ before' = Snapshot(files)
    /\ UNCHANGED <<fileVars, attempt, logged, written, answer, faults, stops>>

Done(ended) == phase = ended /\ plan = <<>>

(* The connection is closed; SQLite may leave its files or take them away.  *)
Close ==
    /\ Done("release")
    /\ DatabaseBecomes(Closed(files), Closed(disk)) \/ UNCHANGED fileVars
    /\ attempt' = attempt + 1
    /\ EnterPhase("announce", WriteManifest(ActiveManifest(attempt', files')))
    /\ UNCHANGED <<logged, written, open, before, answer, faults, stops>>

Evacuate ==
    /\ Done("announce")
    /\ EnterPhase("evacuate", Evacuation(OriginalSet(files)))
    /\ UNCHANGED <<fileVars, restoreVars>>

Install ==
    /\ Done("evacuate")
    /\ EnterPhase("install", Installation(attempt))
    /\ UNCHANGED <<fileVars, restoreVars>>

CommitRestore ==
    /\ Done("install")
    /\ EnterPhase("commit", WriteManifest(Commit(files[Manifest])))
    /\ UNCHANGED <<fileVars, restoreVars>>

CleanUp ==
    /\ Done("commit")
    /\ EnterPhase("cleanup", CleanupCommitted(files))
    /\ UNCHANGED <<fileVars, restoreVars>>

Answer(told) ==
    /\ EnterPhase("ready", <<>>)
    /\ open' = FALSE
    /\ answer' = IF open THEN told ELSE answer
    /\ UNCHANGED <<fileVars, attempt, logged, written, before, stops>>

AnswerRestored == Done("cleanup") /\ Answer("restored") /\ UNCHANGED faults

AnswerKept == Done("rollback") /\ Answer("kept") /\ UNCHANGED faults

(* ------------------------------------------------------------------------ *)
(* A file operation fails: nothing is changed, or a file is written in part. *)
Fault == plan # <<>> /\ faults < MaxFault /\ faults' = faults + 1

LeavesPart ==
    \/ UNCHANGED fileVars
    \/ Head(plan).do = "open" /\ MayLeaveFiles
    \/ LET name == Head(plan).name IN
       /\ Head(plan).do = "create"
       /\ files' = With(files, name, Torn)
       /\ unsynced' = Append(unsynced, Create(name, Torn))
       /\ unflushed' = unflushed \cup {name}
       /\ UNCHANGED disk

faultless == <<attempt, logged, written, open, before, answer, stops>>

FailToAnnounce ==
    /\ phase = "announce" /\ Fault
    /\ EnterPhase("rollback", <<>>)
    /\ \/ /\ Has(files, Temp)
          /\ files' = Without(files, {Temp})
          /\ unsynced' = Append(unsynced, Delete(Temp))
          /\ unflushed' = unflushed \ {Temp}
          /\ UNCHANGED disk
       \/ LeavesPart
    /\ UNCHANGED faultless

FailToEvacuate ==
    /\ phase = "evacuate" /\ Fault
    /\ EnterPhase("rollback", Rollback(BackupSet(files), FALSE))
    /\ UNCHANGED <<fileVars, faultless>>

FailToInstall ==
    /\ phase = "install" /\ Fault
    /\ LeavesPart
    /\ EnterPhase("rollback", Rollback(BackupSet(files), TRUE))
    /\ UNCHANGED faultless

(* The rollback, the commit and the new connection after a rollback are not   *)
(* tried again before the restart.                                          *)
FailForGood ==
    /\ Fault
    /\ \/ phase \in {"rollback", "commit"}
       \/ phase = "release" /\ Head(plan) # Log
    /\ LeavesPart
    /\ EnterPhase("broken", <<>>)
    /\ UNCHANGED faultless

FailToReconnect ==
    /\ Done("rollback") /\ faults < MaxFault
    /\ faults' = faults + 1
    /\ EnterPhase("broken", <<>>)
    /\ UNCHANGED <<fileVars, faultless>>

FailToReleaseLog ==
    /\ phase = "release" /\ Fault /\ Head(plan) = Log
    /\ plan' = Tail(plan)
    /\ UNCHANGED <<fileVars, phase, faultless>>

FailToCleanUp ==
    /\ phase = "cleanup" /\ Fault
    /\ Answer("restored")

FailToComplete ==
    /\ phase = "complete" /\ Fault
    /\ Answer("restarted")

FailToReconcile ==
    /\ phase \in {"sweep", "reconcile"} /\ Fault
    /\ EnterPhase("stopped", <<>>)
    /\ UNCHANGED <<fileVars, faultless>>

-----------------------------------------------------------------------------
(* The program stops: closed after a failure, killed, or without power.     *)
Quit ==
    /\ phase = "broken"
    /\ EnterPhase("stopped", <<>>)
    /\ UNCHANGED <<fileVars, restoreVars>>

Kill ==
    /\ phase # "stopped" /\ stops < MaxStop
    /\ stops' = stops + 1
    /\ EnterPhase("stopped", <<>>)
    /\ UNCHANGED <<fileVars, attempt, logged, written, open, before, answer, faults>>

(* The changes that have reached the disk: the first ones, or any.          *)
InOrder == {SubSeq(unsynced, 1, n) : n \in 0..Len(unsynced)}

InAnyOrder ==
    {[i \in DOMAIN unsynced |-> IF i \in kept THEN unsynced[i] ELSE Sync] :
         kept \in SUBSET DOMAIN unsynced}

PowerLoss(reached) ==
    /\ stops < MaxStop
    /\ stops' = stops + 1
    /\ \E changes \in reached, torn \in SUBSET unflushed :
          disk' = LET d == AllChanged(disk, changes)
                  IN  [n \in DOMAIN d |-> IF n \in torn THEN Torn ELSE d[n]]
    /\ files' = disk' /\ unsynced' = <<>> /\ unflushed' = {}
    /\ EnterPhase("stopped", <<>>)
    /\ UNCHANGED <<attempt, logged, written, open, before, answer, faults>>

(* The next start: T0, the branch of the reconciliation, and the rest of a  *)
(* committed restore.                                                       *)
(* Mutated: a manifest that was being written is left alone.                *)
StartWithoutSweep ==
    /\ phase = "stopped"
    /\ EnterPhase("sweep", <<>>)
    /\ UNCHANGED <<fileVars, restoreVars>>

Start ==
    /\ phase = "stopped"
    /\ EnterPhase("sweep", IF Has(files, Temp) THEN <<Delete(Temp), Sync>> ELSE <<>>)
    /\ UNCHANGED <<fileVars, restoreVars>>

Reconcile ==
    /\ Done("sweep")
    /\ IF Refused(files) THEN EnterPhase("stopped", <<>>)
       ELSE EnterPhase("reconcile", Reconciliation(files))
    /\ UNCHANGED <<fileVars, restoreVars>>

CompleteReconciled ==
    /\ Done("reconcile")
    /\ EnterPhase("complete", IF Committed(files) THEN CleanupCommitted(files) ELSE <<>>)
    /\ UNCHANGED <<fileVars, restoreVars>>

OpenShop == Done("complete") /\ Answer("restarted") /\ UNCHANGED faults

-----------------------------------------------------------------------------
RestoreCommand ==
    \/ RefuseRestore \/ BeginRestore \/ Close \/ Evacuate \/ Install
    \/ CommitRestore \/ CleanUp \/ AnswerRestored \/ AnswerKept

StartUp == Reconcile \/ CompleteReconciled \/ OpenShop

Failure ==
    \/ FailToAnnounce \/ FailToEvacuate \/ FailToInstall \/ FailForGood
    \/ FailToReconnect \/ FailToReleaseLog \/ FailToCleanUp \/ FailToComplete
    \/ FailToReconcile

Program ==
    \/ Step \/ WriteSnapshot \/ RestoreCommand \/ StartUp
    \/ Start \/ Quit \/ Kill

Next ==
    \/ Program \/ Failure
    \/ PowerLoss(IF Reordering THEN InAnyOrder ELSE InOrder)

(* The program goes on with what it has begun; somebody closes a program    *)
(* that says so, and starts one that is not running.                        *)
Fairness ==
    /\ WF_vars(Step)
    /\ WF_vars(RestoreCommand /\ phase # "ready")
    /\ WF_vars(StartUp)
    /\ WF_vars(Start)
    /\ WF_vars(Quit)

Spec == Init /\ [][Next]_vars

(* The behaviours in which the power stays.                                 *)
PoweredSpec == Init /\ [][Program \/ Failure]_vars

FairSpec == Spec /\ Fairness

-----------------------------------------------------------------------------
(* The snapshot the next start would open, if nothing else failed.          *)
AtNextStart(d) ==
    LET back == BackupSet(d)
        putBack == [n \in (DOMAIN d \ {Backup(p) : p \in Part})
                          \cup {Original(p) : p \in back} |->
                      IF \E p \in back : n = Original(p)
                      THEN d[Backup(n[1])] ELSE d[n]]
    IN  IF Refused(d) THEN Locked
        ELSE IF Committed(d) THEN Snapshot(d)
        ELSE IF EvacuationComplete(d)
        THEN Snapshot(Without(putBack, {Original(p) : p \in Part \ back}))
        ELSE Snapshot(putBack)

(* MNT-01-D5: whatever fails or stops at whatever moment, the database is    *)
(* the snapshot before the restore or the chosen one, whole; the shop is    *)
(* told which; and once told, only its own writes change it.                *)
Promise == INSTANCE AtomicRestore WITH db <- AtNextStart(files)

RestoreIsAtomic == Promise!Spec

(* MNT-01-D5, R3, R5, R7 and durability contract (d): no interruption leaves *)
(* files behind that the next start refuses to touch.                       *)
StartIsNeverRefused == ~Refused(files)

(* MNT-01-D5, durability contracts (b), (c) and step 8a: files of two        *)
(* generations are never opened together.                                   *)
GenerationsNeverMix == AtNextStart(files) # Mixed

(* MNT-01-D5: however often it was interrupted, a restore that met no        *)
(* failure leaves nothing beside the database once the shop is open.        *)
NoRemains ==
    faults = 0 /\ phase = "ready" => DOMAIN files \subseteq {Original(p) : p \in Part}

(* MNT-01-D5, R4: a restore that took effect has one row in the operation    *)
(* log, and no interruption loses it: only a failure does.                  *)
LogsEachRestoreOnce ==
    /\ \A n \in 1..attempt : logged[n] <= 1
    /\ faults = 0 /\ phase = "ready" /\ ~Has(files, Manifest) =>
          \A n \in 1..attempt : files[Original("main")].gen = n => logged[n] = 1

(* Whatever has failed, the shop is opened again in the end.                *)
ShopReopens == phase # "ready" ~> phase = "ready"

=============================================================================
