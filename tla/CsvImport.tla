----------------------------- MODULE CsvImport -----------------------------
(***************************************************************************)
(* The import of a register file in two commands                           *)
(* (cmd/csv_import_cmd.rs, CMD-07; biz/csv_import_service, BIZ-03).         *)
(*                                                                         *)
(* The first command reads the file, finds the product of each line and     *)
(* keeps the result in a cache in memory under a token; the second writes   *)
(* what the cache holds.  Between the two any other command may run, the    *)
(* preview may expire or be pushed out, and the program may be restarted.   *)
(* This module shows that the two commands together are the one action      *)
(* ImportSettlement of InventoryRecords.                                    *)
(***************************************************************************)
EXTENDS InventoryRecords

CONSTANTS
    PreviewLimit,   \* PREVIEW_CACHE_LIMIT
    MaxPreview      \* bound on the behaviours

ASSUME PreviewAssumption == PreviewLimit \in Nat \ {0} /\ MaxPreview \in Nat

VARIABLES
    previews,       \* the cache: [token, file, matched, unmatched, expired]
    lastToken       \* tokens are numbered in the order they are given out

csvVars == <<previews, lastToken>>
allVars == <<vars, csvVars>>

(* A line of the preview's file is matched with a product, unmatched, or    *)
(* empty; matched notes whether other products have the barcode.            *)
Shared(jan) == Cardinality(Candidates(jan)) > 1

LinesOf(f) == {k \in DOMAIN f.rows : f.rows[k].qty # 0 \/ f.rows[k].amount # 0}

Matches(f) ==
    [k \in MatchedLines(f) |-> [product |-> FirstCandidate(f.rows[k].jan),
                                shared |-> Shared(f.rows[k].jan)]]

NewPreview(f) ==
    [token |-> lastToken + 1, file |-> f, matched |-> Matches(f),
     unmatched |-> LinesOf(f) \ MatchedLines(f), expired |-> FALSE]

(* The oldest preview gives way when the cache is full. *)
(* Mutated: none does, or all do. *)
NoneEvicted == {}

AllEvicted == IF Cardinality(previews) < PreviewLimit THEN {} ELSE previews

Evicted ==
    IF Cardinality(previews) < PreviewLimit THEN {}
    ELSE {v \in previews : \A other \in previews : v.token <= other.token}

Preview(f) ==
    /\ lastToken < MaxPreview
    /\ f.date <= today + RegisterLead
    /\ SettlementRules(f)
    /\ previews' = (previews \ Evicted) \cup {NewPreview(f)}
    /\ lastToken' = lastToken + 1
    /\ UNCHANGED vars

(* recheck_matches: the registration is still what the preview has shown.   *)
(* Mutated: the lines without a product are not looked up again. *)
MatchesAreCurrent(v) ==
    \A k \in DOMAIN v.matched :
        LET jan == v.file.rows[k].jan
        IN  /\ Candidates(jan) # {}
            /\ v.matched[k] = [product |-> FirstCandidate(jan),
                               shared |-> Shared(jan)]

RegistrationUnchanged(v) ==
    /\ \A k \in DOMAIN v.matched :
          LET jan == v.file.rows[k].jan
          IN  /\ Candidates(jan) # {}
              /\ v.matched[k] = [product |-> FirstCandidate(jan),
                                 shared |-> Shared(jan)]
    /\ \A k \in v.unmatched : Candidates(v.file.rows[k].jan) = {}

(* The link is the one set at the commit. *)
Linked(v, k) == ~v.matched[k].shared /\ products[v.matched[k].product].sync

LinkedLines(v) ==
    {k \in DOMAIN v.matched : Linked(v, k) /\ v.file.rows[k].qty # 0}

CachedSales(v, id) ==
    {[import |-> id, line |-> k, product |-> v.matched[k].product,
      qty |-> v.file.rows[k].qty, amount |-> v.file.rows[k].amount,
      linked |-> Linked(v, k), voided |-> FALSE] : k \in DOMAIN v.matched}

CachedMovements(v, id) ==
    {[id |-> last.movement + Rank(k, LinkedLines(v)),
      product |-> v.matched[k].product, qty |-> -v.file.rows[k].qty,
      date |-> v.file.date, initial |-> FALSE, settlement |-> v.file.no,
      import |-> id, voided |-> FALSE] : k \in LinkedLines(v)}

(* The token is taken out of the cache only when the commit succeeds. *)
Commit(v) ==
    /\ ~v.expired
    /\ last.import < MaxImport
    /\ last.movement + Cardinality(LinkedLines(v)) <= MaxMovement
    /\ SettlementRules(v.file)
    /\ RegistrationUnchanged(v)
    /\ LET id == last.import + 1 IN
       /\ imports' = imports \cup
             {[id |-> id, hash |-> v.file.hash, machine |-> v.file.machine,
               no |-> v.file.no, date |-> v.file.date, rolledBack |-> FALSE]}
       /\ sales' = sales \cup CachedSales(v, id)
       /\ movements' = movements \cup CachedMovements(v, id)
       /\ last' = [last EXCEPT !.import = id,
                               !.movement = @ + Cardinality(LinkedLines(v))]
    /\ UNCHANGED <<today, counts>>
    /\ Recompute(products, SettlementTargets(last'.import, sales', movements'))
    /\ previews' = previews \ {v}
    /\ UNCHANGED lastToken

CommitExpired(v) ==
    /\ v.expired
    /\ previews' = previews \ {v}
    /\ UNCHANGED <<vars, lastToken>>

(* PREVIEW_CACHE_TTL_SECS pass after the previews up to token. *)
Expire(token) ==
    /\ previews' = {[v EXCEPT !.expired = @ \/ v.token <= token] : v \in previews}
    /\ UNCHANGED <<vars, lastToken>>

(* The cache is in memory; the database is not. *)
Restart ==
    /\ previews' = {}
    /\ UNCHANGED <<vars, lastToken>>

-----------------------------------------------------------------------------
CsvInit == Init /\ previews = {} /\ lastToken = 0

(* The PC's clock is not set back between a preview and its commit: the file *)
(* would be of a day still to come, as if nobody had written it yet.        *)
OtherCommand ==
    /\ \/ NextDay
       \/ \E op \in Operation : RecordOperation(op)
       \/ \E i \in imports : RollbackImport(i)
       \/ SaveSomeCount
       \/ CreateSomeProduct
       \/ \E p \in DOMAIN products : StartLinking(p)
       \/ \E p \in DOMAIN products : StopLinking(p)
       \/ ImportSomeProducts
    /\ UNCHANGED csvVars

CsvNext ==
    \/ OtherCommand
    \/ \E f \in Z004 : Preview(f)
    \/ \E v \in previews : Commit(v)
    \/ \E v \in previews : CommitExpired(v)
    \/ \E v \in previews : Expire(v.token)
    \/ Restart

CsvSpec == CsvInit /\ [][CsvNext]_allVars

-----------------------------------------------------------------------------
(* A preview can only be of a file the register has written by now, and      *)
(* each of its lines is either matched, unmatched or empty.                 *)
PreviewOK(v) ==
    /\ v.token \in 1..lastToken /\ v.file \in Z004
    /\ v.expired \in BOOLEAN
    /\ v.file.date <= today + RegisterLead
    /\ v.unmatched \cup DOMAIN v.matched = LinesOf(v.file)
    /\ v.unmatched \cap DOMAIN v.matched = {}

(* The cache holds such previews, and no more than its limit.               *)
PreviewsOK ==
    /\ lastToken \in 0..MaxPreview
    /\ Cardinality(previews) <= PreviewLimit
    /\ \A v \in previews : PreviewOK(v)

(* SPEC-STK-CNT-D4, BIZ-03 commit: whatever ran between the preview and the *)
(* commit, the commit writes what one command would that reads the file and *)
(* writes its rows at once; every other step leaves the records alone.      *)
ImportsAsOneStep == Spec

(* CMD-07: a preview the user may be looking at stays in the cache until its *)
(* commit succeeds, unless it has expired, the program has been restarted,  *)
(* or PreviewLimit previews have been made after it.                        *)
PreviewsStay ==
    [][\A v \in previews :
          \/ \E w \in previews' : w.token = v.token
          \/ \E i \in imports' \ imports : i.hash = v.file.hash
          \/ v.expired
          \/ previews' = {} /\ lastToken' = lastToken
          \/ lastToken' - v.token >= PreviewLimit]_allVars
=============================================================================
