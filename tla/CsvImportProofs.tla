-------------------------- MODULE CsvImportProofs --------------------------
(***************************************************************************)
(* CsvImport implements InventoryRecords: the preview and the commit of a   *)
(* register file are together the one action ImportSettlement.  The cache   *)
(* between the two keeps its limit and the previews that are waited for.    *)
(***************************************************************************)
EXTENDS CsvImport, InventoryRecordsProofs

-----------------------------------------------------------------------------
(* The previews. *)
Previewed == \A v \in previews : PreviewOK(v)

PreviewInvariant == /\ lastToken \in Nat
                    /\ Previewed

(* A new preview is of a file the register has written.                     *)
LEMMA PreviewMakes ==
    ASSUME TypeOK, PreviewInvariant, NEW f \in Z004, Preview(f)
    PROVE  PreviewInvariant'
<1>1. /\ previews' \subseteq previews \cup {NewPreview(f)}
      /\ lastToken' = lastToken + 1 /\ today' = today
      /\ f.date <= today + RegisterLead
  BY DEF Preview, vars
<1>2. ASSUME NEW v, v = NewPreview(f)
      PROVE  PreviewOK(v)'
  <2>1. DOMAIN Matches(f) = MatchedLines(f)
        /\ MatchedLines(f) \subseteq LinesOf(f)
    BY DEF Matches, MatchedLines, LinesOf
  <2>2. /\ v.token = lastToken + 1 /\ v.file = f /\ v.expired = FALSE
        /\ v.matched = Matches(f)
        /\ v.unmatched = LinesOf(f) \ MatchedLines(f)
    BY <1>2 DEF NewPreview
  <2>3. lastToken + 1 \in 1..lastToken'
    BY <1>1 DEF PreviewInvariant
  <2> QED
    BY <1>1, <2>1, <2>2, <2>3 DEF PreviewOK, LinesOf
<1>3. ASSUME NEW v \in previews PROVE PreviewOK(v)'
  BY <1>1 DEF PreviewOK, PreviewInvariant, Previewed
<1> QED
  BY <1>1, <1>2, <1>3 DEF PreviewInvariant, Previewed

LEMMA PreviewStep ==
    TypeOK /\ PreviewInvariant /\ [CsvNext]_allVars => PreviewInvariant'
<1> SUFFICES ASSUME TypeOK, PreviewInvariant, [CsvNext]_allVars
             PROVE  PreviewInvariant'
  OBVIOUS
<1>1. CASE OtherCommand
  <2>1. previews' = previews /\ lastToken' = lastToken
    BY <1>1 DEF OtherCommand, csvVars
  <2>2. today' \in {today, today + 1}
    <3>1. CASE NextDay
      BY <3>1 DEF NextDay
    <3>2. CASE \E op \in Operation : RecordOperation(op)
      BY <3>2 DEF RecordOperation
    <3>3. CASE \E i \in imports : RollbackImport(i)
      BY <3>3 DEF RollbackImport
    <3>4. CASE SaveSomeCount
      BY <3>4 DEF SaveSomeCount, SaveCount
    <3>5. CASE CreateSomeProduct
      BY <3>5 DEF CreateSomeProduct, CreateProduct
    <3>6. CASE \E p \in DOMAIN products : StartLinking(p) \/ StopLinking(p)
      BY <3>6 DEF StartLinking, StopLinking
    <3>7. CASE ImportSomeProducts
      BY <3>7 DEF ImportSomeProducts, ImportProducts
    <3> QED
      BY <1>1, <3>1, <3>2, <3>3, <3>4, <3>5, <3>6, <3>7 DEF OtherCommand
  <2>3. ASSUME NEW v \in previews PROVE PreviewOK(v)'
    <3>1. v.file \in Z004 /\ v.file.date \in Nat
          /\ v.file.date <= today + RegisterLead
      BY FilesAssumption DEF PreviewInvariant, Previewed, PreviewOK
    <3>2. v.file.date <= today' + RegisterLead
      BY <2>2, <3>1, BoundsAssumption DEF TypeOK, Dates
    <3> QED
      BY <2>1, <3>2 DEF PreviewInvariant, Previewed, PreviewOK
  <2> QED
    BY <2>1, <2>3 DEF PreviewInvariant, Previewed
<1>2. CASE \E f \in Z004 : Preview(f)
  BY <1>2, PreviewMakes
<1>3. CASE \/ \E v \in previews : Commit(v) \/ CommitExpired(v)
           \/ Restart \/ UNCHANGED allVars
  <2>1. previews' \subseteq previews /\ lastToken' = lastToken /\ today' = today
    BY <1>3 DEF Commit, CommitExpired, Restart, allVars, csvVars, vars
  <2> QED
    BY <2>1 DEF PreviewInvariant, Previewed, PreviewOK
<1>4. CASE \E w \in previews : Expire(w.token)
  <2>1. PICK w \in previews : Expire(w.token)
    BY <1>4
  <2>2. lastToken' = lastToken /\ today' = today
    BY <2>1 DEF Expire, vars
  <2>3. ASSUME NEW v \in previews'
        PROVE  PreviewOK(v)'
    <3>1. PICK u \in previews :
              v = [u EXCEPT !.expired = @ \/ u.token <= w.token]
      BY <2>1 DEF Expire
    <3>2. PreviewOK(u)
      BY DEF PreviewInvariant, Previewed
    <3> QED
      BY <2>2, <3>1, <3>2 DEF PreviewOK
  <2> QED
    BY <2>2, <2>3 DEF PreviewInvariant, Previewed
<1> QED
  BY <1>1, <1>2, <1>3, <1>4 DEF CsvNext

-----------------------------------------------------------------------------
(* The commit. *)

(* A barcode with a product is either shared or has that one product.       *)
LEMMA SharedOrAlone ==
    ASSUME TypeOK, NEW jan, Candidates(jan) # {}
    PROVE  Shared(jan) <=> Cardinality(Candidates(jan)) # 1
<1>1. Candidates(jan) \in SUBSET Product
  BY DEF Candidates, TypeOK
<1>2. IsFiniteSet(Candidates(jan))
  BY <1>1, ShopAssumption, FS_Subset
<1>3. Cardinality(Candidates(jan)) \in Nat \ {0}
  BY <1>2, FS_CardinalityType, FS_EmptySet
<1> QED
  BY <1>3 DEF Shared

(* What the cache holds is what the file gives when the registration has    *)
(* not changed.                                                            *)
LEMMA CacheIsFile ==
    ASSUME TypeOK, NEW v \in previews, PreviewOK(v), RegistrationUnchanged(v),
           NEW id
    PROVE  /\ LinkedLines(v) = StockLines(v.file)
           /\ CachedSales(v, id) = SaleRows(v.file, id)
           /\ CachedMovements(v, id) = MovementRows(v.file, id)
<1>1. DOMAIN v.matched = MatchedLines(v.file)
  BY DEF PreviewOK, RegistrationUnchanged, MatchedLines, LinesOf
<1>2. ASSUME NEW k \in MatchedLines(v.file)
      PROVE  /\ v.matched[k].product = FirstCandidate(v.file.rows[k].jan)
             /\ v.matched[k].shared = Shared(v.file.rows[k].jan)
  <2>1. v.matched[k] = [product |-> FirstCandidate(v.file.rows[k].jan),
                        shared |-> Shared(v.file.rows[k].jan)]
    BY <1>1 DEF RegistrationUnchanged
  <2> QED
    BY <2>1
<1>3. ASSUME NEW k \in MatchedLines(v.file)
      PROVE  Linked(v, k) = RowLinked(v.file.rows[k])
  <2>1. Candidates(v.file.rows[k].jan) # {}
    BY DEF MatchedLines
  <2>2. FirstCandidate(v.file.rows[k].jan) \in DOMAIN products
    BY <2>1, FirstCandidateIsCandidate DEF TypeOK, Candidates
  <2>3. products[FirstCandidate(v.file.rows[k].jan)].sync \in BOOLEAN
    BY <2>2 DEF TypeOK, ProductRow
  <2>4. Shared(v.file.rows[k].jan)
           <=> Cardinality(Candidates(v.file.rows[k].jan)) # 1
    BY <2>1, SharedOrAlone
  <2> QED
    BY <1>2, <2>3, <2>4 DEF Linked, RowLinked
<1>4. LinkedLines(v) = StockLines(v.file)
  BY <1>1, <1>3 DEF LinkedLines, StockLines
<1>5. CachedSales(v, id) = SaleRows(v.file, id)
  BY <1>1, <1>2, <1>3 DEF CachedSales, SaleRows
<1>6. CachedMovements(v, id) = MovementRows(v.file, id)
  BY <1>2, <1>4 DEF CachedMovements, MovementRows, StockLines
<1> QED
  BY <1>4, <1>5, <1>6

LEMMA CommitImports ==
    ASSUME TypeOK, PreviewInvariant, NEW v \in previews, Commit(v)
    PROVE  v.file \in Z004 /\ ImportSettlement(v.file)
<1>1. PreviewOK(v) /\ RegistrationUnchanged(v)
  BY DEF PreviewInvariant, Previewed, Commit
<1>2. LinkedLines(v) = StockLines(v.file)
      /\ \A id : /\ CachedSales(v, id) = SaleRows(v.file, id)
                 /\ CachedMovements(v, id) = MovementRows(v.file, id)
  BY <1>1, CacheIsFile
<1> QED
  BY <1>1, <1>2 DEF Commit, ImportSettlement, PreviewOK

LEMMA CsvStepImports ==
    TypeOK /\ PreviewInvariant /\ [CsvNext]_allVars => [Next]_vars
<1> SUFFICES ASSUME TypeOK, PreviewInvariant, [CsvNext]_allVars
             PROVE  [Next]_vars
  OBVIOUS
<1>1. CASE OtherCommand
  BY <1>1 DEF OtherCommand, Next
<1>2. CASE \E v \in previews : Commit(v)
  BY <1>2, CommitImports DEF Next
<1>3. CASE \/ \E f \in Z004 : Preview(f)
           \/ \E v \in previews : CommitExpired(v) \/ Expire(v.token)
           \/ Restart \/ UNCHANGED allVars
  BY <1>3 DEF Preview, CommitExpired, Expire, Restart, allVars
<1> QED
  BY <1>1, <1>2, <1>3 DEF CsvNext

(* Whatever runs between the preview of a register file and its commit, and *)
(* whichever previews expire, give way or are lost in a restart, the two    *)
(* commands write what one command would that reads the file and writes its *)
(* rows at once (csv_import_cmd.rs, commit.rs): the two-command program     *)
(* implements InventoryRecords, and its theorems hold of it.                *)
THEOREM TwoCommandsAreOneStep == CsvSpec => ImportsAsOneStep
<1>1. CsvInit => Init /\ TypeOK /\ PreviewInvariant
  BY TypeInit DEF CsvInit, PreviewInvariant, Previewed
<1>2. TypeOK /\ PreviewInvariant /\ [CsvNext]_allVars
        => TypeOK' /\ PreviewInvariant' /\ [Next]_vars
  BY CsvStepImports, PreviewStep, TypeStep
<1> QED
  BY <1>1, <1>2, PTL DEF CsvSpec, ImportsAsOneStep, Spec
-----------------------------------------------------------------------------
(* The cache: finitely many previews, each under a token of its own, and no *)
(* more than the limit.                                                     *)
DistinctTokens == \A v, w \in previews : v.token = w.token => v = w

CacheInvariant ==
    /\ lastToken \in 0..MaxPreview
    /\ IsFiniteSet(previews)
    /\ Cardinality(previews) <= PreviewLimit
    /\ DistinctTokens

(* As many tokens fit into an interval as it has numbers.                   *)
LEMMA TokensFit ==
    ASSUME IsFiniteSet(previews), DistinctTokens, NEW a \in Int, NEW b \in Int,
           a <= b + 1, \A v \in previews : v.token \in a..b
    PROVE  Cardinality(previews) <= b - a + 1
<1> DEFINE f == [v \in previews |-> v.token]
<1>1. f \in Injection(previews, a..b)
  BY DEF Injection, IsInjective, DistinctTokens
<1>2. IsFiniteSet(a..b) /\ Cardinality(a..b) = b - a + 1
  BY FS_Interval
<1> HIDE DEF f
<1> QED
  BY <1>1, <1>2, FS_Injection

(* When the cache is full the oldest preview is there to give way.          *)
LEMMA OldestExists ==
    ASSUME PreviewInvariant, IsFiniteSet(previews), previews # {}
    PROVE  \E v \in previews : \A w \in previews : v.token <= w.token
<1> DEFINE f == [v \in previews |-> v.token]
           T == {f[v] : v \in previews}
<1>1. IsFiniteSet(T)
  <2> DOMAIN f = previews
    OBVIOUS
  <2> HIDE DEF f
  <2> QED
    BY ImageIsFinite
<1>2. \A v \in previews : v.token \in Int /\ f[v] = v.token
  BY DEF PreviewInvariant, Previewed, PreviewOK
<1>3. T \in SUBSET Int /\ T # {}
  BY <1>2
<1>4. Min(T) \in T /\ \A t \in T : Min(T) <= t
  <2> HIDE DEF T
  <2> QED
    BY <1>1, <1>3, ExtremesExist
<1>5. PICK v \in previews : f[v] = Min(T)
  BY <1>4
<1>6. ASSUME NEW w \in previews PROVE v.token <= w.token
  BY <1>2, <1>4, <1>5
<1> QED
  BY <1>6

(* A new preview finds room, or is given it.                                *)
LEMMA PreviewFits ==
    ASSUME PreviewInvariant, CacheInvariant, NEW f \in Z004, Preview(f)
    PROVE  CacheInvariant'
<1> DEFINE n == NewPreview(f)
           kept == previews \ Evicted
<1>1. /\ previews' = kept \cup {n} /\ lastToken' = lastToken + 1
      /\ n.token = lastToken + 1
      /\ lastToken \in Nat /\ lastToken < MaxPreview
  BY DEF Preview, NewPreview, CacheInvariant
<1>2. \A v \in previews : v.token \in Nat /\ v.token <= lastToken
  BY DEF PreviewInvariant, Previewed, PreviewOK
<1>3. kept \in SUBSET previews /\ IsFiniteSet(kept)
  BY FS_Subset DEF CacheInvariant
<1> HIDE DEF n
<1>4. Cardinality(kept) + 1 <= PreviewLimit
  <2>1. Cardinality(previews) \in Nat /\ Cardinality(kept) \in Nat
        /\ Cardinality(kept) <= Cardinality(previews)
    BY <1>3, FS_CardinalityType, FS_Subset DEF CacheInvariant
  <2>2. CASE Cardinality(previews) < PreviewLimit
    BY <2>1, <2>2, PreviewAssumption
  <2>3. CASE ~(Cardinality(previews) < PreviewLimit)
    <3>1. previews # {}
      BY <2>3, FS_EmptySet, PreviewAssumption
    <3>2. PICK v \in previews : \A w \in previews : v.token <= w.token
      BY <3>1, OldestExists DEF CacheInvariant
    <3>3. v \in Evicted
      BY <2>3, <3>2 DEF Evicted
    <3>4. Cardinality(kept) # Cardinality(previews)
      BY <1>3, <3>3, FS_Subset DEF CacheInvariant
    <3> HIDE DEF kept
    <3> QED
      BY <2>1, <3>4, PreviewAssumption DEF CacheInvariant
  <2> QED
    BY <2>2, <2>3
<1>5. IsFiniteSet(previews') /\ Cardinality(previews') <= PreviewLimit
  <2>1. /\ IsFiniteSet(kept \cup {n})
        /\ Cardinality(kept \cup {n}) =
              IF n \in kept THEN Cardinality(kept) ELSE Cardinality(kept) + 1
    BY <1>3, FS_AddElement
  <2>2. Cardinality(kept) \in Nat
    BY <1>3, FS_CardinalityType
  <2> HIDE DEF kept
  <2> QED
    BY <1>1, <1>4, <2>1, <2>2, PreviewAssumption
<1>6. DistinctTokens'
  <2>1. ASSUME NEW v \in previews', NEW w \in previews', v.token = w.token
        PROVE  v = w
    <3>1. (v = n \/ v \in previews) /\ (w = n \/ w \in previews)
      BY <1>1, <1>3
    <3> QED
      BY <1>1, <1>2, <2>1, <3>1 DEF CacheInvariant, DistinctTokens
  <2> QED
    BY <2>1 DEF DistinctTokens
<1>7. lastToken' \in 0..MaxPreview
  BY <1>1, PreviewAssumption
<1> QED
  BY <1>5, <1>6, <1>7 DEF CacheInvariant

(* Time passing changes no token.                                           *)
LEMMA ExpireKeepsCache ==
    ASSUME PreviewInvariant, CacheInvariant, NEW token, Expire(token)
    PROVE  /\ CacheInvariant'
           /\ \A v \in previews : \E w \in previews' : w.token = v.token
<1> DEFINE f == [v \in previews |-> [v EXCEPT !.expired = @ \/ v.token <= token]]
<1>1. previews' = {f[v] : v \in previews} /\ lastToken' = lastToken
  BY DEF Expire
<1>2. ASSUME NEW v \in previews PROVE f[v].token = v.token
  <2>1. f[v] = [v EXCEPT !.expired = @ \/ v.token <= token]
    OBVIOUS
  <2>2. PICK w : w = [v EXCEPT !.expired = @ \/ v.token <= token]
    OBVIOUS
  <2>3. w.token = v.token
    BY <2>2 DEF PreviewInvariant, Previewed, PreviewOK
  <2> HIDE DEF f
  <2> QED
    BY <2>1, <2>2, <2>3
<1>3. f \in Surjection(previews, previews')
  BY <1>1 DEF Surjection
<1> HIDE DEF f
<1>4. IsFiniteSet(previews') /\ Cardinality(previews') <= Cardinality(previews)
  BY <1>3, FS_Surjection DEF CacheInvariant
<1>5. Cardinality(previews') <= PreviewLimit
  <2>1. Cardinality(previews) \in Nat /\ Cardinality(previews') \in Nat
    BY <1>4, FS_CardinalityType DEF CacheInvariant
  <2> QED
    BY <1>4, <2>1, PreviewAssumption DEF CacheInvariant
<1>6. DistinctTokens'
  BY <1>1, <1>2 DEF CacheInvariant, DistinctTokens
<1> QED
  BY <1>1, <1>2, <1>4, <1>5, <1>6 DEF CacheInvariant

LEMMA CacheStep ==
    PreviewInvariant /\ CacheInvariant /\ [CsvNext]_allVars => CacheInvariant'
<1> SUFFICES ASSUME PreviewInvariant, CacheInvariant, [CsvNext]_allVars
             PROVE  CacheInvariant'
  OBVIOUS
<1>1. ASSUME previews' \subseteq previews, lastToken' = lastToken
      PROVE  CacheInvariant'
  <2>1. /\ IsFiniteSet(previews')
        /\ Cardinality(previews') <= Cardinality(previews)
        /\ Cardinality(previews) \in Nat /\ Cardinality(previews') \in Nat
    BY <1>1, FS_Subset, FS_CardinalityType DEF CacheInvariant
  <2>2. Cardinality(previews') <= PreviewLimit
    BY <2>1, PreviewAssumption DEF CacheInvariant
  <2> QED
    BY <1>1, <2>1, <2>2 DEF CacheInvariant, DistinctTokens
<1>2. CASE \E f \in Z004 : Preview(f)
  BY <1>2, PreviewFits
<1>3. CASE \E v \in previews : Expire(v.token)
  BY <1>3, ExpireKeepsCache
<1>4. CASE \/ OtherCommand \/ Restart \/ UNCHANGED allVars
           \/ \E v \in previews : Commit(v) \/ CommitExpired(v)
  BY <1>1, <1>4 DEF OtherCommand, Restart, Commit, CommitExpired, allVars, csvVars
<1> QED
  BY <1>2, <1>3, <1>4 DEF CsvNext

LEMMA CsvInvariance ==
    CsvSpec => [](TypeOK /\ RecordsInvariant /\ PreviewInvariant /\ CacheInvariant)
<1>1. CsvInit => Init /\ TypeOK /\ PreviewInvariant /\ CacheInvariant
  <2>1. CsvInit => CacheInvariant
    BY FS_EmptySet, PreviewAssumption
       DEF CsvInit, CacheInvariant, DistinctTokens
  <2> QED
    BY <2>1, TypeInit DEF CsvInit, PreviewInvariant, Previewed
<1>2. TypeOK /\ PreviewInvariant /\ CacheInvariant /\ [CsvNext]_allVars
        => TypeOK' /\ PreviewInvariant' /\ CacheInvariant'
  BY CsvStepImports, PreviewStep, CacheStep, TypeStep
<1>3. CsvSpec => []RecordsInvariant
  BY TwoCommandsAreOneStep, RecordsInvariance DEF ImportsAsOneStep
<1> QED
  BY <1>1, <1>2, <1>3, PTL DEF CsvSpec

(* CMD-07: whatever is previewed, committed, expired or restarted, the cache *)
(* stays within its limit, and a preview in it is of a file the register    *)
(* has written, with each of its lines matched, unmatched or empty.         *)
THEOREM CacheStaysInBounds == CsvSpec => []PreviewsOK
<1>1. PreviewInvariant /\ CacheInvariant => PreviewsOK
  BY DEF PreviewInvariant, Previewed, CacheInvariant, PreviewsOK
<1> QED
  BY <1>1, CsvInvariance, PTL

-----------------------------------------------------------------------------
(* A preview gives way only to as many as the cache holds: it was the        *)
(* oldest, and the tokens of the others lie between it and the last.        *)
LEMMA EvictedIsOld ==
    ASSUME PreviewInvariant, CacheInvariant, NEW v \in Evicted
    PROVE  v \in previews /\ lastToken + 1 - v.token >= PreviewLimit
<1>1. /\ v \in previews /\ ~(Cardinality(previews) < PreviewLimit)
      /\ \A w \in previews : v.token <= w.token
  BY DEF Evicted
<1>2. /\ \A w \in previews : w.token \in 1..lastToken
      /\ lastToken \in Nat
  BY DEF PreviewInvariant, Previewed, PreviewOK
<1>3. v.token \in Int /\ v.token <= lastToken
      /\ \A w \in previews : w.token \in v.token..lastToken
  BY <1>1, <1>2
<1>4. Cardinality(previews) <= lastToken - v.token + 1
  BY <1>2, <1>3, TokensFit DEF CacheInvariant
<1>5. Cardinality(previews) \in Nat
  BY FS_CardinalityType DEF CacheInvariant
<1> QED
  BY <1>1, <1>2, <1>3, <1>4, <1>5, PreviewAssumption

(* CMD-07: a preview the user may be looking at stays until its commit      *)
(* succeeds, unless it has expired, the program has been restarted, or the  *)
(* limit's number of previews have been made after it.                      *)
THEOREM PreviewsWaitForTheUser == CsvSpec => PreviewsStay
<1> DEFINE Stays(v) ==
              \/ \E w \in previews' : w.token = v.token
              \/ \E i \in imports' \ imports : i.hash = v.file.hash
              \/ v.expired
              \/ previews' = {} /\ lastToken' = lastToken
              \/ lastToken' - v.token >= PreviewLimit
<1>1. ASSUME TypeOK, RecordsInvariant, PreviewInvariant, CacheInvariant,
             [CsvNext]_allVars, NEW v \in previews
      PROVE  Stays(v)
  <2>1. CASE OtherCommand \/ UNCHANGED allVars
    BY <2>1 DEF OtherCommand, allVars, csvVars
  <2>2. ASSUME NEW f \in Z004, Preview(f) PROVE Stays(v)
    <3>1. previews' = (previews \ Evicted) \cup {NewPreview(f)}
          /\ lastToken' = lastToken + 1
      BY <2>2 DEF Preview
    <3>2. CASE v \in Evicted
      <4>1. lastToken + 1 - v.token >= PreviewLimit
        BY <1>1, <3>2, EvictedIsOld
      <4>2. lastToken' - v.token >= PreviewLimit
        <5>1. v.token \in Int /\ lastToken \in Int
          BY <1>1 DEF PreviewInvariant, Previewed, PreviewOK
        <5>2. lastToken' = lastToken + 1
          BY <3>1
        <5> QED
          BY <4>1, <5>1, <5>2
      <4> QED
        BY <4>2
    <3>3. CASE v \notin Evicted
      BY <3>1, <3>3
    <3> QED
      BY <3>2, <3>3
  <2>3. ASSUME NEW w \in previews, Commit(w) PROVE Stays(v)
    <3> DEFINE new == [id |-> last.import + 1, hash |-> w.file.hash,
                       machine |-> w.file.machine, no |-> w.file.no,
                       date |-> w.file.date, rolledBack |-> FALSE]
    <3>1. imports' = imports \cup {new} /\ previews' = previews \ {w}
          /\ new.id = last.import + 1 /\ new.hash = w.file.hash
      BY <2>3 DEF Commit
    <3> HIDE DEF new
    <3>2. new \notin imports
      <4>1. ASSUME NEW i \in imports
            PROVE  i.id # last.import + 1
        BY <1>1 DEF RecordsInvariant, IdsAreGivenOut, TypeOK, ImportRow
      <4> QED
        BY <3>1, <4>1
    <3> QED
      BY <3>1, <3>2
  <2>4. CASE \E w \in previews : CommitExpired(w)
    BY <2>4 DEF CommitExpired
  <2>5. CASE \E w \in previews : Expire(w.token)
    BY <1>1, <2>5, ExpireKeepsCache
  <2>6. CASE Restart
    BY <2>6 DEF Restart
  <2> HIDE DEF Stays
  <2> QED
    BY <1>1, <2>1, <2>2, <2>3, <2>4, <2>5, <2>6 DEF CsvNext
<1>2. TypeOK /\ RecordsInvariant /\ PreviewInvariant /\ CacheInvariant
        /\ [CsvNext]_allVars => [\A v \in previews : Stays(v)]_allVars
  BY <1>1
<1> QED
  BY <1>2, CsvInvariance, PTL DEF CsvSpec, PreviewsStay
=============================================================================
