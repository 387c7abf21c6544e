---------------------------- MODULE RestoreProofs ----------------------------
(***************************************************************************)
(* Theorems about Restore: what is left beside the database once a restore   *)
(* is over, whatever a power loss keeps; and the database and the log while  *)
(* the power stays, however often operations fail and the program is killed. *)
(***************************************************************************)
EXTENDS Restore, SequenceTheorems, WellFoundedInduction, TLAPS

-----------------------------------------------------------------------------
(* Plans are sequences of operations.                                       *)
IsPlan(s) == \E S : s \in Seq(S)

Ops(s) == Range(s)

LEMMA PlanIsSeq ==
    ASSUME NEW s, IsPlan(s)
    PROVE  s \in Seq(Ops(s)) /\ Len(s) \in Nat /\ DOMAIN s = 1..Len(s)
<1>1. PICK S : s \in Seq(S)
  BY DEF IsPlan
<1> QED
  BY <1>1, SeqOfRange, LenProperties DEF Ops

LEMMA NoOps == IsPlan(<<>>) /\ Ops(<<>>) = {}
<1>1. <<>> \in Seq({})
  OBVIOUS
<1>2. Range(<<>>) \in SUBSET {}
  BY <1>1, RangeOfSeq
<1> QED
  BY <1>1, <1>2 DEF IsPlan, Ops

LEMMA OneOp == \A a : IsPlan(<<a>>) /\ Ops(<<a>>) = {a}
<1> SUFFICES ASSUME NEW a PROVE IsPlan(<<a>>) /\ Ops(<<a>>) = {a}
  OBVIOUS
<1>1. <<a>> \in Seq({a}) /\ Len(<<a>>) = 1 /\ <<a>>[1] = a
  OBVIOUS
<1>2. Range(<<a>>) = {<<a>>[i] : i \in 1..1}
  BY <1>1, RangeEquality
<1> QED
  BY <1>1, <1>2 DEF IsPlan, Ops

LEMMA Joined ==
    ASSUME NEW s, NEW t, IsPlan(s), IsPlan(t)
    PROVE  IsPlan(s \o t) /\ Ops(s \o t) = Ops(s) \cup Ops(t)
<1> DEFINE S == Ops(s) \cup Ops(t)
<1>1. s \in Seq(S) /\ t \in Seq(S)
  BY PlanIsSeq, SeqMonotonic
<1>2. s \o t \in Seq(S) /\ Range(s \o t) = Range(s) \cup Range(t)
  BY <1>1, ConcatProperties, RangeConcatenation
<1> QED
  BY <1>2 DEF IsPlan, Ops

(* The head of a plan, and of two plans one after the other.                *)
LEMMA HeadOfPlan ==
    ASSUME NEW s, IsPlan(s), s # <<>>
    PROVE  /\ Head(s) \in Ops(s) /\ IsPlan(Tail(s))
           /\ Ops(s) = {Head(s)} \cup Ops(Tail(s))
           /\ s = <<Head(s)>> \o Tail(s)
<1> DEFINE S == Ops(s)
<1>1. s \in Seq(S)
  BY PlanIsSeq
<1>2. Head(s) \in S /\ Tail(s) \in Seq(S)
  BY <1>1
<1>3. s = <<Head(s)>> \o Tail(s)
  BY <1>1
<1>4. IsPlan(Tail(s)) /\ IsPlan(<<Head(s)>>) /\ Ops(<<Head(s)>>) = {Head(s)}
  BY <1>2, OneOp DEF IsPlan
<1>5. Ops(<<Head(s)>> \o Tail(s)) = {Head(s)} \cup Ops(Tail(s))
  BY <1>4, Joined
<1> QED
  BY <1>2, <1>3, <1>4, <1>5

LEMMA HeadOfJoined ==
    ASSUME NEW s, NEW t, IsPlan(s), IsPlan(t)
    PROVE  /\ s = <<>> => s \o t = t
           /\ s # <<>> => /\ s \o t # <<>>
                          /\ Head(s \o t) = Head(s)
                          /\ Tail(s \o t) = Tail(s) \o t
<1> DEFINE S == Ops(s) \cup Ops(t)
<1>1. s \in Seq(S) /\ t \in Seq(S)
  BY PlanIsSeq, SeqMonotonic
<1> HIDE DEF S
<1> QED
  BY <1>1

LEMMA JoiningIsAssociative ==
    ASSUME NEW s, NEW t, NEW u, IsPlan(s), IsPlan(t), IsPlan(u)
    PROVE  (s \o t) \o u = s \o (t \o u)
<1> DEFINE S == Ops(s) \cup Ops(t) \cup Ops(u)
<1>1. s \in Seq(S) /\ t \in Seq(S) /\ u \in Seq(S)
  BY PlanIsSeq, SeqMonotonic
<1> HIDE DEF S
<1> QED
  BY <1>1

(* Plans given by their operations.                                         *)
LEMMA TwoOps ==
    \A a, b : IsPlan(<<a, b>>) /\ Ops(<<a, b>>) = {a, b}
<1> SUFFICES ASSUME NEW a, NEW b
             PROVE  IsPlan(<<a, b>>) /\ Ops(<<a, b>>) = {a, b}
  OBVIOUS
<1> DEFINE s == <<a, b>>
<1>1. s \in Seq({a, b}) /\ s # <<>> /\ Head(s) = a /\ Tail(s) = <<b>>
  OBVIOUS
<1> HIDE DEF s
<1>2. IsPlan(s) /\ Ops(s) = {Head(s)} \cup Ops(Tail(s))
  BY <1>1, HeadOfPlan DEF IsPlan
<1>3. Ops(<<b>>) = {b}
  BY OneOp, Zenon
<1>4. Ops(s) = {a} \cup {b}
  BY <1>1, <1>2, <1>3, Zenon
<1>5. Ops(s) = {a, b}
  BY <1>4
<1> QED
  BY <1>2, <1>5 DEF s

LEMMA ThreeOps ==
    \A a, b, c : IsPlan(<<a, b, c>>) /\ Ops(<<a, b, c>>) = {a, b, c}
<1> SUFFICES ASSUME NEW a, NEW b, NEW c
             PROVE  IsPlan(<<a, b, c>>) /\ Ops(<<a, b, c>>) = {a, b, c}
  OBVIOUS
<1> DEFINE s == <<a, b, c>>
<1>1. s \in Seq({a, b, c}) /\ s # <<>> /\ Head(s) = a /\ Tail(s) = <<b, c>>
  OBVIOUS
<1> HIDE DEF s
<1>2. IsPlan(s) /\ Ops(s) = {Head(s)} \cup Ops(Tail(s))
  BY <1>1, HeadOfPlan DEF IsPlan
<1>3. Ops(<<b, c>>) = {b, c}
  BY TwoOps, Zenon
<1>4. Ops(s) = {a} \cup {b, c}
  BY <1>1, <1>2, <1>3, Zenon
<1>5. Ops(s) = {a, b, c}
  BY <1>4
<1> QED
  BY <1>2, <1>5 DEF s

LEMMA FourOps ==
    \A a, b, c, d : IsPlan(<<a, b, c, d>>) /\ Ops(<<a, b, c, d>>) = {a, b, c, d}
<1> SUFFICES ASSUME NEW a, NEW b, NEW c, NEW d
             PROVE  IsPlan(<<a, b, c, d>>) /\ Ops(<<a, b, c, d>>) = {a, b, c, d}
  OBVIOUS
<1> DEFINE s == <<a, b, c, d>>
<1>1. s \in Seq({a, b, c, d}) /\ s # <<>> /\ Head(s) = a /\ Tail(s) = <<b, c, d>>
  OBVIOUS
<1> HIDE DEF s
<1>2. IsPlan(s) /\ Ops(s) = {Head(s)} \cup Ops(Tail(s))
  BY <1>1, HeadOfPlan DEF IsPlan
<1>3. Ops(<<b, c, d>>) = {b, c, d}
  BY ThreeOps, Zenon
<1>4. Ops(s) = {a} \cup {b, c, d}
  BY <1>1, <1>2, <1>3, Zenon
<1>5. Ops(s) = {a, b, c, d}
  BY <1>4
<1> QED
  BY <1>2, <1>5 DEF s

LEMMA EachIsPlanned ==
    ASSUME NEW parts \in SUBSET Part, NEW ops,
           \A p \in Part : IsPlan(ops[p])
    PROVE  /\ IsPlan(ForEach(parts, ops))
           /\ Ops(ForEach(parts, ops)) = UNION {Ops(ops[p]) : p \in parts}
<1> DEFINE Of(p) == IF p \in parts THEN ops[p] ELSE <<>>
<1>1. \A p \in Part : IsPlan(Of(p))
                      /\ Ops(Of(p)) = IF p \in parts THEN Ops(ops[p]) ELSE {}
  BY NoOps
<1>2. ForEach(parts, ops) = Of("main") \o Of("wal") \o Of("shm")
  BY DEF ForEach
<1>3. "main" \in Part /\ "wal" \in Part /\ "shm" \in Part
  BY DEF Part
<1> HIDE DEF Of
<1>4. /\ IsPlan(Of("main") \o Of("wal"))
      /\ Ops(Of("main") \o Of("wal")) = Ops(Of("main")) \cup Ops(Of("wal"))
  BY <1>1, <1>3, Joined
<1>5. /\ IsPlan(ForEach(parts, ops))
      /\ Ops(ForEach(parts, ops)) =
            Ops(Of("main")) \cup Ops(Of("wal")) \cup Ops(Of("shm"))
  BY <1>1, <1>2, <1>3, <1>4, Joined
<1>6. UNION {Ops(ops[p]) : p \in parts} =
          Ops(Of("main")) \cup Ops(Of("wal")) \cup Ops(Of("shm"))
  BY <1>1, <1>3 DEF Part
<1> QED
  BY <1>5, <1>6

-----------------------------------------------------------------------------
(* The names of the files, and the operations on a directory.               *)
Name == {Original(p) : p \in Part} \cup {Backup(p) : p \in Part}
            \cup {Manifest, Temp}

LEMMA NamesDiffer ==
    /\ \A p, q \in Part : /\ Original(p) = Original(q) => p = q
                          /\ Backup(p) = Backup(q) => p = q
                          /\ Original(p) # Backup(q)
    /\ \A p \in Part : /\ Original(p) # Manifest /\ Original(p) # Temp
                       /\ Backup(p) # Manifest /\ Backup(p) # Temp
    /\ Manifest # Temp
  BY DEF Original, Backup, Manifest, Temp, Part

LEMMA OperationsDiffer ==
    \A from, to, name, content :
        /\ Rename(from, to).do = "rename" /\ Rename(from, to).from = from
        /\ Rename(from, to).to = to
        /\ Delete(name).do = "delete" /\ Delete(name).name = name
        /\ Create(name, content).do = "create" /\ Create(name, content).name = name
        /\ Create(name, content).content = content
        /\ Flush(name).do = "flush" /\ Flush(name).name = name
        /\ Sync.do = "sync" /\ Open.do = "open" /\ Log.do = "log"
  BY DEF Rename, Delete, Create, Flush, Sync, Open, Log

LEMMA WithoutNames ==
    ASSUME NEW d, NEW names
    PROVE  /\ DOMAIN Without(d, names) = DOMAIN d \ names
           /\ \A n \in DOMAIN d \ names : Without(d, names)[n] = d[n]
  BY DEF Without

LEMMA ChangesOne ==
    ASSUME NEW d, NEW op
    PROVE  /\ op.do = "rename" /\ op.from \in DOMAIN d =>
                 Changed(d, op) = With(Without(d, {op.from}), op.to, d[op.from])
           /\ op.do = "rename" /\ op.from \notin DOMAIN d => Changed(d, op) = d
           /\ op.do = "delete" => Changed(d, op) = Without(d, {op.name})
           /\ op.do = "create" => Changed(d, op) = With(d, op.name, op.content)
           /\ op.do \notin {"rename", "delete", "create"} => Changed(d, op) = d
  BY DEF Changed, Has

(* An operation names only files of the shop.                               *)
Named(op) == /\ op.do = "rename" => op.to \in Name
             /\ op.do \in {"delete", "create", "flush"} => op.name \in Name

LEMMA ChangesNamed ==
    ASSUME NEW d, DOMAIN d \subseteq Name, NEW op, Named(op)
    PROVE  DOMAIN Changed(d, op) \subseteq Name
<1>1. CASE op.do = "rename" /\ op.from \in DOMAIN d
  <2> DEFINE e == Without(d, {op.from})
  <2>1. Changed(d, op) = With(e, op.to, d[op.from]) /\ op.to \in Name
    BY <1>1, ChangesOne DEF Named
  <2>2. DOMAIN e \subseteq Name
    BY DEF Without
  <2> HIDE DEF e
  <2>3. DOMAIN With(e, op.to, d[op.from]) = DOMAIN e \cup {op.to}
    BY DEF With
  <2> QED
    BY <2>1, <2>2, <2>3
<1>2. CASE op.do = "rename" /\ op.from \notin DOMAIN d
  BY <1>2, ChangesOne
<1>3. CASE op.do = "delete"
  <2>1. Changed(d, op) = Without(d, {op.name})
    BY <1>3, ChangesOne
  <2>2. DOMAIN Without(d, {op.name}) = DOMAIN d \ {op.name}
    BY WithoutNames
  <2> QED
    BY <2>1, <2>2
<1>4. CASE op.do = "create"
  <2>1. Changed(d, op) = With(d, op.name, op.content) /\ op.name \in Name
    BY <1>4, ChangesOne DEF Named
  <2>2. DOMAIN With(d, op.name, op.content) = DOMAIN d \cup {op.name}
    BY DEF With
  <2> QED
    BY <2>1, <2>2
<1>5. CASE op.do \notin {"rename", "delete", "create"}
  BY <1>5, ChangesOne
<1> QED
  BY <1>1, <1>2, <1>3, <1>4, <1>5

(* What holds of 0 and is passed on holds up to N.                          *)
LEMMA StepByStep ==
    ASSUME NEW N \in Nat, NEW G, 0 \in G,
           \A n \in 0..N : n < N /\ n \in G => n + 1 \in G
    PROVE  \A n \in 0..N : n \in G
<1> DEFINE Bad == {n \in 0..N : n \notin G}
<1>1. SUFFICES ASSUME Bad # {} PROVE FALSE
  OBVIOUS
<1>2. Bad \in SUBSET Nat
  OBVIOUS
<1>3. PICK n \in Bad : \A m \in Bad : n <= m
  <2> HIDE DEF Bad
  <2>1. PICK n \in Bad : \A m \in Bad : <<m, n>> \notin OpToRel(<, Nat)
    BY <1>1, <1>2, NatLessThanWellFounded, WFMin
  <2>2. \A m \in Bad : ~(m < n)
    BY <1>2, <2>1 DEF OpToRel
  <2> QED
    BY <1>2, <2>2
<1>4. n \in 0..N /\ n # 0 /\ n \notin G
  OBVIOUS
<1>5. n - 1 \in 0..N /\ n - 1 < N /\ n - 1 \notin Bad
  BY <1>3, <1>4
<1> QED
  BY <1>4, <1>5

(* Several changes are made one after the other.                            *)
Replay(d, ops, g) ==
    [n \in 0..Len(ops) |-> IF n = 0 THEN d ELSE Changed(g[n - 1], ops[n])]

LEMMA ReplayExists ==
    ASSUME NEW d, NEW ops, Len(ops) \in Nat
    PROVE  \E g : g = Replay(d, ops, g)
<1> DEFINE N == Len(ops)
           G == {m \in 0..N : \E g : /\ g[0] = d
                                     /\ \A n \in 1..m : g[n] = Changed(g[n - 1], ops[n])}
<1>1. 0 \in G
  <2>1. [n \in {0} |-> d][0] = d /\ 0 \in 0..N /\ 1..0 = {}
    OBVIOUS
  <2> QED
    BY <2>1
<1>2. ASSUME NEW m \in 0..N, m < N, m \in G
      PROVE  m + 1 \in G
  <2>1. PICK g : /\ g[0] = d
                 /\ \A n \in 1..m : g[n] = Changed(g[n - 1], ops[n])
    BY <1>2
  <2> DEFINE h == [n \in 0..(m + 1) |->
                      IF n <= m THEN g[n] ELSE Changed(g[m], ops[m + 1])]
  <2>2. h[0] = d
    BY <2>1
  <2>3. ASSUME NEW n \in 1..(m + 1)
        PROVE  h[n] = Changed(h[n - 1], ops[n])
    <3>1. h[n - 1] = g[n - 1]
      OBVIOUS
    <3>2. CASE n <= m
      <4>1. h[n] = g[n] /\ n \in 1..m
        BY <3>2
      <4> HIDE DEF h
      <4> QED
        BY <2>1, <3>1, <4>1
    <3>3. CASE n = m + 1
      <4>1. h[n] = Changed(g[m], ops[m + 1]) /\ n - 1 = m
        BY <3>3
      <4> HIDE DEF h
      <4> QED
        BY <3>1, <3>3, <4>1
    <3> QED
      BY <3>2, <3>3
  <2>4. m + 1 \in 0..N
    BY <1>2
  <2> HIDE DEF h
  <2> QED
    BY <2>2, <2>3, <2>4
<1>3. N \in G
  <2> HIDE DEF G
  <2> N \in 0..N
    OBVIOUS
  <2> QED
    BY <1>1, <1>2, StepByStep
<1>4. PICK g : /\ g[0] = d
               /\ \A n \in 1..N : g[n] = Changed(g[n - 1], ops[n])
  BY <1>3
<1> DEFINE h == [n \in 0..N |-> g[n]]
<1>5. ASSUME NEW n \in 0..N
      PROVE  h[n] = IF n = 0 THEN d ELSE Changed(h[n - 1], ops[n])
  <2>1. CASE n = 0
    BY <1>4, <2>1
  <2>2. CASE n # 0
    <3>1. n \in 1..N /\ n - 1 \in 0..N
      BY <2>2
    <3> QED
      BY <1>4, <2>2, <3>1
  <2> QED
    BY <2>1, <2>2
<1>6. h = [n \in 0..N |-> IF n = 0 THEN d ELSE Changed(h[n - 1], ops[n])]
  <2>1. h = [n \in 0..N |-> h[n]]
    OBVIOUS
  <2> HIDE DEF h
  <2> QED
    BY <1>5, <2>1
<1>7. h = Replay(d, ops, h)
  <2> HIDE DEF h
  <2> QED
    BY <1>6 DEF Replay
<1> QED
  BY <1>7

LEMMA Replayed ==
    ASSUME NEW d, NEW ops, Len(ops) \in Nat
    PROVE  \E g : /\ AllChanged(d, ops) = g[Len(ops)]
                  /\ g[0] = d
                  /\ \A n \in 1..Len(ops) : g[n] = Changed(g[n - 1], ops[n])
<1> DEFINE g == CHOOSE f : f = Replay(d, ops, f)
<1>1. g = Replay(d, ops, g)
  BY ReplayExists
<1>2. AllChanged(d, ops) = g[Len(ops)]
  BY DEF AllChanged, Replay
<1> HIDE DEF g
<1>3. ASSUME NEW n \in 0..Len(ops)
      PROVE  g[n] = IF n = 0 THEN d ELSE Changed(g[n - 1], ops[n])
  <2>1. g[n] = Replay(d, ops, g)[n]
    BY <1>1
  <2> QED
    BY ONLY <2>1, n \in 0..Len(ops) DEF Replay
<1>4. 0 \in 0..Len(ops) /\ \A n \in 1..Len(ops) : n \in 0..Len(ops) /\ n # 0
  OBVIOUS
<1> QED
  BY <1>2, <1>3, <1>4

LEMMA ReplayNamed ==
    ASSUME NEW d, DOMAIN d \subseteq Name, NEW ops, Len(ops) \in Nat,
           \A n \in 1..Len(ops) : Named(ops[n])
    PROVE  DOMAIN AllChanged(d, ops) \subseteq Name
<1>1. PICK g : /\ AllChanged(d, ops) = g[Len(ops)]
               /\ g[0] = d
               /\ \A n \in 1..Len(ops) : g[n] = Changed(g[n - 1], ops[n])
  BY Replayed
<1> DEFINE N == Len(ops)
           G == {n \in 0..N : DOMAIN g[n] \subseteq Name}
<1>2. 0 \in G
  BY <1>1
<1>3. ASSUME NEW n \in 0..N, n < N, n \in G
      PROVE  n + 1 \in G
  <2>1. n + 1 \in 1..N /\ (n + 1) - 1 = n
    BY <1>3
  <2>2. g[n + 1] = Changed(g[n], ops[n + 1])
    BY <1>1, <2>1
  <2> QED
    BY <1>3, <2>1, <2>2, ChangesNamed
<1>4. N \in G
  <2>1. N \in 0..N
    OBVIOUS
  <2> HIDE DEF G
  <2> QED
    BY <1>2, <1>3, <2>1, StepByStep
<1> QED
  BY <1>1, <1>4

-----------------------------------------------------------------------------
(* The operations of each procedure.                                        *)
LEMMA WriteManifestOps ==
    \A row : /\ IsPlan(WriteManifest(row))
             /\ Ops(WriteManifest(row)) =
                  {Create(Temp, row), Flush(Temp), Rename(Temp, Manifest), Sync}
  BY FourOps DEF WriteManifest

LEMMA DeleteManifestOps ==
    /\ IsPlan(DeleteManifest)
    /\ Ops(DeleteManifest) = {Delete(Manifest), Delete(Temp), Sync}
  BY ThreeOps DEF DeleteManifest

LEMMA InstallationOps ==
    ASSUME NEW n
    PROVE  /\ IsPlan(Installation(n))
           /\ Ops(Installation(n)) =
                 {Create(Original("main"), [gen |-> n, version |-> Chosen]),
                  Flush(Original("main")), Sync, Open}
  BY FourOps DEF Installation

LEMMA EvacuationOps ==
    ASSUME NEW parts \in SUBSET Part
    PROVE  /\ IsPlan(Evacuation(parts))
           /\ \A p \in parts : Rename(Original(p), Backup(p)) \in Ops(Evacuation(parts))
           /\ \A op \in Ops(Evacuation(parts)) :
                 op = Sync \/ \E p \in parts : op = Rename(Original(p), Backup(p))
<1> DEFINE ops == [p \in Part |-> <<Rename(Original(p), Backup(p)), Sync>>]
<1>1. \A p \in Part : IsPlan(ops[p])
                      /\ Ops(ops[p]) = {Rename(Original(p), Backup(p)), Sync}
  BY TwoOps
<1>2. Evacuation(parts) = ForEach(parts, ops)
  BY DEF Evacuation
<1> HIDE DEF ops
<1>3. IsPlan(Evacuation(parts))
      /\ Ops(Evacuation(parts)) = UNION {Ops(ops[p]) : p \in parts}
  BY <1>1, <1>2, EachIsPlanned
<1>4. \A p \in parts : Rename(Original(p), Backup(p)) \in Ops(Evacuation(parts))
  BY <1>1, <1>3
<1>5. ASSUME NEW op \in Ops(Evacuation(parts))
      PROVE  op = Sync \/ \E p \in parts : op = Rename(Original(p), Backup(p))
  BY <1>1, <1>3
<1> QED
  BY <1>3, <1>4, <1>5

LEMMA RemoveOriginalsOps ==
    /\ IsPlan(RemoveOriginals)
    /\ \A p \in Part : Delete(Original(p)) \in Ops(RemoveOriginals)
    /\ \A op \in Ops(RemoveOriginals) : \E p \in Part : op = Delete(Original(p))
<1> DEFINE ops == [p \in Part |-> <<Delete(Original(p))>>]
<1>1. \A p \in Part : IsPlan(ops[p]) /\ Ops(ops[p]) = {Delete(Original(p))}
  BY OneOp
<1>2. RemoveOriginals = ForEach(Part, ops)
  BY DEF RemoveOriginals
<1> HIDE DEF ops
<1> QED
  BY <1>1, <1>2, EachIsPlanned

LEMMA RemoveBackupsOps ==
    ASSUME NEW parts \in SUBSET Part
    PROVE  /\ IsPlan(RemoveBackups(parts))
           /\ \A p \in parts : Delete(Backup(p)) \in Ops(RemoveBackups(parts))
           /\ \A op \in Ops(RemoveBackups(parts)) :
                 op = Sync \/ \E p \in parts : op = Delete(Backup(p))
<1> DEFINE ops == [p \in Part |-> <<Delete(Backup(p)), Sync>>]
<1>1. \A p \in Part : IsPlan(ops[p]) /\ Ops(ops[p]) = {Delete(Backup(p)), Sync}
  BY TwoOps
<1>2. RemoveBackups(parts) = ForEach(parts, ops)
  BY DEF RemoveBackups
<1> HIDE DEF ops
<1> QED
  BY <1>1, <1>2, EachIsPlanned

(* Putting the evacuated files back.                                        *)
PutBack(p) == Rename(Backup(p), Original(p))

LEMMA RestoreMissingOps ==
    ASSUME NEW parts \in SUBSET Part
    PROVE  /\ IsPlan(RestoreMissing(parts))
           /\ \A p \in parts : PutBack(p) \in Ops(RestoreMissing(parts))
           /\ \A op \in Ops(RestoreMissing(parts)) :
                 op = Sync \/ \E p \in parts : op \in {Delete(Original(p)), PutBack(p)}
<1> DEFINE ops == [p \in Part |-> <<Delete(Original(p)),
                                    Rename(Backup(p), Original(p)), Sync>>]
           last == IF parts = {} THEN <<Sync>> ELSE <<>>
<1>1. \A p \in Part : IsPlan(ops[p])
                      /\ Ops(ops[p]) = {Delete(Original(p)), PutBack(p), Sync}
  BY ThreeOps DEF PutBack
<1>2. RestoreMissing(parts) = ForEach(parts, ops) \o last
  BY DEF RestoreMissing
<1>3. IsPlan(last) /\ Ops(last) \subseteq {Sync}
  BY OneOp, NoOps
<1> HIDE DEF ops, last
<1>4. IsPlan(ForEach(parts, ops))
      /\ Ops(ForEach(parts, ops)) = UNION {Ops(ops[p]) : p \in parts}
  BY <1>1, EachIsPlanned
<1>5. IsPlan(RestoreMissing(parts))
      /\ Ops(RestoreMissing(parts)) = Ops(ForEach(parts, ops)) \cup Ops(last)
  BY <1>2, <1>3, <1>4, Joined
<1>6. \A p \in parts : PutBack(p) \in Ops(RestoreMissing(parts))
  BY <1>1, <1>4, <1>5
<1>7. ASSUME NEW op \in Ops(RestoreMissing(parts))
      PROVE  op = Sync \/ \E p \in parts : op \in {Delete(Original(p)), PutBack(p)}
  BY <1>1, <1>3, <1>4, <1>5
<1> QED
  BY <1>5, <1>6, <1>7

(* Over a new generation: its files go first.                               *)
PutAllBack(parts) ==
    ForEach(parts, [p \in Part |-> <<Rename(Backup(p), Original(p)), Sync>>]) \o
    (IF "main" \in parts THEN <<>> ELSE <<Sync>>)

LEMMA PutAllBackOps ==
    ASSUME NEW parts \in SUBSET Part
    PROVE  /\ IsPlan(PutAllBack(parts))
           /\ \A p \in parts : PutBack(p) \in Ops(PutAllBack(parts))
           /\ \A op \in Ops(PutAllBack(parts)) :
                 op = Sync \/ \E p \in parts : op = PutBack(p)
<1> DEFINE ops == [p \in Part |-> <<Rename(Backup(p), Original(p)), Sync>>]
           last == IF "main" \in parts THEN <<>> ELSE <<Sync>>
<1>1. \A p \in Part : IsPlan(ops[p]) /\ Ops(ops[p]) = {PutBack(p), Sync}
  BY TwoOps DEF PutBack
<1>2. PutAllBack(parts) = ForEach(parts, ops) \o last
  BY DEF PutAllBack
<1>3. IsPlan(last) /\ Ops(last) \subseteq {Sync}
  BY OneOp, NoOps
<1> HIDE DEF ops, last
<1>4. IsPlan(ForEach(parts, ops))
      /\ Ops(ForEach(parts, ops)) = UNION {Ops(ops[p]) : p \in parts}
  BY <1>1, EachIsPlanned
<1>5. IsPlan(PutAllBack(parts))
      /\ Ops(PutAllBack(parts)) = Ops(ForEach(parts, ops)) \cup Ops(last)
  BY <1>2, <1>3, <1>4, Joined
<1> QED
  BY <1>1, <1>3, <1>4, <1>5

LEMMA RestoreOverNewOps ==
    ASSUME NEW parts \in SUBSET Part
    PROVE  /\ IsPlan(RemoveOriginals \o <<Sync>>)
           /\ Ops(RemoveOriginals \o <<Sync>>) = Ops(RemoveOriginals) \cup {Sync}
           /\ RestoreOverNew(parts) = (RemoveOriginals \o <<Sync>>) \o PutAllBack(parts)
           /\ IsPlan(RestoreOverNew(parts))
           /\ Ops(RestoreOverNew(parts)) =
                 Ops(RemoveOriginals) \cup {Sync} \cup Ops(PutAllBack(parts))
<1> DEFINE r == RemoveOriginals \o <<Sync>>
           each == ForEach(parts, [p \in Part |-> <<Rename(Backup(p), Original(p)), Sync>>])
           last == IF "main" \in parts THEN <<>> ELSE <<Sync>>
<1>1. IsPlan(r) /\ Ops(r) = Ops(RemoveOriginals) \cup {Sync}
  BY RemoveOriginalsOps, OneOp, Joined
<1>2. IsPlan(last) /\ IsPlan(each)
  <2> DEFINE ops == [p \in Part |-> <<Rename(Backup(p), Original(p)), Sync>>]
  <2>1. \A p \in Part : IsPlan(ops[p])
    BY TwoOps
  <2> HIDE DEF ops
  <2>2. IsPlan(ForEach(parts, ops))
    BY <2>1, EachIsPlanned
  <2> QED
    BY <2>2, OneOp, NoOps DEF ops
<1>3. RestoreOverNew(parts) = (r \o each) \o last /\ PutAllBack(parts) = each \o last
  BY DEF RestoreOverNew, PutAllBack
<1>4. IsPlan(PutAllBack(parts))
  BY PutAllBackOps
<1> HIDE DEF r, each, last
<1>5. RestoreOverNew(parts) = r \o PutAllBack(parts)
  BY <1>1, <1>2, <1>3, JoiningIsAssociative
<1>6. IsPlan(RestoreOverNew(parts))
      /\ Ops(RestoreOverNew(parts)) = Ops(r) \cup Ops(PutAllBack(parts))
  BY <1>1, <1>4, <1>5, Joined
<1> QED
  BY <1>1, <1>5, <1>6 DEF r

LEMMA CleanupOps ==
    ASSUME NEW d
    PROVE  /\ IsPlan(RemoveBackups(BackupSet(d)) \o <<Log>>)
           /\ Ops(RemoveBackups(BackupSet(d)) \o <<Log>>) =
                 Ops(RemoveBackups(BackupSet(d))) \cup {Log}
           /\ CleanupCommitted(d) =
                 (RemoveBackups(BackupSet(d)) \o <<Log>>) \o DeleteManifest
           /\ IsPlan(CleanupCommitted(d))
           /\ Ops(CleanupCommitted(d)) =
                 Ops(RemoveBackups(BackupSet(d))) \cup {Log} \cup Ops(DeleteManifest)
<1> DEFINE q == RemoveBackups(BackupSet(d)) \o <<Log>>
<1>1. IsPlan(RemoveBackups(BackupSet(d)))
  BY RemoveBackupsOps DEF BackupSet
<1>2. IsPlan(q) /\ Ops(q) = Ops(RemoveBackups(BackupSet(d))) \cup {Log}
  BY <1>1, OneOp, Joined
<1>3. CleanupCommitted(d) = q \o DeleteManifest
  BY DEF CleanupCommitted
<1> HIDE DEF q
<1>4. IsPlan(CleanupCommitted(d))
      /\ Ops(CleanupCommitted(d)) = Ops(q) \cup Ops(DeleteManifest)
  BY <1>2, <1>3, DeleteManifestOps, Joined
<1> QED
  BY <1>2, <1>3, <1>4 DEF q

LEMMA RollbackOps ==
    ASSUME NEW parts \in SUBSET Part, NEW removed \in BOOLEAN
    PROVE  LET first == IF removed THEN RemoveOriginals ELSE <<>>
           IN  /\ IsPlan(first)
               /\ Ops(first) \subseteq Ops(RemoveOriginals)
               /\ removed => Ops(first) = Ops(RemoveOriginals)
               /\ Rollback(parts, removed) =
                     (first \o RestoreMissing(parts)) \o DeleteManifest
               /\ IsPlan(Rollback(parts, removed))
               /\ Ops(Rollback(parts, removed)) =
                     Ops(first) \cup Ops(RestoreMissing(parts)) \cup Ops(DeleteManifest)
<1> DEFINE first == IF removed THEN RemoveOriginals ELSE <<>>
<1>1. IsPlan(first) /\ Ops(first) \subseteq Ops(RemoveOriginals)
      /\ (removed => Ops(first) = Ops(RemoveOriginals))
  BY RemoveOriginalsOps, NoOps
<1>2. Rollback(parts, removed) = (first \o RestoreMissing(parts)) \o DeleteManifest
  BY DEF Rollback
<1>3. IsPlan(RestoreMissing(parts))
  BY RestoreMissingOps
<1> HIDE DEF first
<1>4. /\ IsPlan(first \o RestoreMissing(parts))
      /\ Ops(first \o RestoreMissing(parts)) = Ops(first) \cup Ops(RestoreMissing(parts))
  BY <1>1, <1>3, Joined
<1>5. /\ IsPlan(Rollback(parts, removed))
      /\ Ops(Rollback(parts, removed)) =
            Ops(first \o RestoreMissing(parts)) \cup Ops(DeleteManifest)
  BY <1>2, <1>4, DeleteManifestOps, Joined
<1>6. Ops(Rollback(parts, removed)) =
          Ops(first) \cup Ops(RestoreMissing(parts)) \cup Ops(DeleteManifest)
  BY <1>4, <1>5
<1> QED
  BY <1>1, <1>2, <1>5, <1>6 DEF first

-----------------------------------------------------------------------------
(* Every file has one of the names of the shop, before and after a loss.    *)
AllNamed(ops) == IsPlan(ops) /\ \A op \in Ops(ops) : Named(op)

NamesKnown ==
    /\ DOMAIN files \subseteq Name /\ DOMAIN disk \subseteq Name
    /\ AllNamed(unsynced) /\ AllNamed(plan)

LEMMA NamedOps ==
    /\ \A p \in Part : /\ Original(p) \in Name /\ Backup(p) \in Name
                       /\ Named(Delete(Original(p))) /\ Named(Delete(Backup(p)))
                       /\ Named(Rename(Original(p), Backup(p))) /\ Named(PutBack(p))
    /\ Manifest \in Name /\ Temp \in Name
    /\ Named(Delete(Manifest)) /\ Named(Delete(Temp)) /\ Named(Rename(Temp, Manifest))
    /\ \A content : Named(Create(Temp, content))
                    /\ Named(Create(Original("main"), content))
    /\ Named(Flush(Temp)) /\ Named(Flush(Original("main")))
    /\ Named(Sync) /\ Named(Open) /\ Named(Log)
<1>1. "main" \in Part
  BY DEF Part
<1>2. /\ \A p \in Part : Original(p) \in Name /\ Backup(p) \in Name
      /\ Manifest \in Name /\ Temp \in Name
  BY DEF Name
<1>3. \A name \in Name : /\ Named(Delete(name)) /\ Named(Flush(name))
                         /\ \A content : Named(Create(name, content))
                         /\ \A from : Named(Rename(from, name))
  BY OperationsDiffer DEF Named
<1>4. Named(Sync) /\ Named(Open) /\ Named(Log)
  BY OperationsDiffer DEF Named
<1> QED
  BY <1>1, <1>2, <1>3, <1>4 DEF PutBack

LEMMA PlansAreNamed ==
    /\ AllNamed(<<>>)
    /\ \A row : AllNamed(WriteManifest(row))
    /\ \A parts \in SUBSET Part : /\ AllNamed(Evacuation(parts))
                                  /\ AllNamed(RemoveBackups(parts))
                                  /\ AllNamed(RestoreMissing(parts))
                                  /\ AllNamed(RestoreOverNew(parts))
    /\ AllNamed(DeleteManifest)
    /\ \A n : AllNamed(Installation(n))
<1>1. AllNamed(<<>>)
  BY NoOps DEF AllNamed
<1>2. \A row : AllNamed(WriteManifest(row))
  BY WriteManifestOps, NamedOps DEF AllNamed
<1>3. ASSUME NEW parts \in SUBSET Part
      PROVE  /\ AllNamed(Evacuation(parts)) /\ AllNamed(RemoveBackups(parts))
             /\ AllNamed(RestoreMissing(parts)) /\ AllNamed(RestoreOverNew(parts))
  <2>1. AllNamed(Evacuation(parts))
    BY EvacuationOps, NamedOps DEF AllNamed
  <2>2. AllNamed(RemoveBackups(parts))
    BY RemoveBackupsOps, NamedOps DEF AllNamed
  <2>3. AllNamed(RestoreMissing(parts))
    BY RestoreMissingOps, NamedOps DEF AllNamed
  <2>4. AllNamed(PutAllBack(parts))
    BY PutAllBackOps, NamedOps DEF AllNamed
  <2>5. AllNamed(RemoveOriginals)
    BY RemoveOriginalsOps, NamedOps DEF AllNamed
  <2>6. AllNamed(RestoreOverNew(parts))
    BY <2>4, <2>5, RestoreOverNewOps, NamedOps DEF AllNamed
  <2> QED
    BY <2>1, <2>2, <2>3, <2>6
<1>4. AllNamed(DeleteManifest)
  BY DeleteManifestOps, NamedOps DEF AllNamed
<1>5. ASSUME NEW n
      PROVE  AllNamed(Installation(n))
  <2>1. IsPlan(Installation(n))
    BY InstallationOps
  <2>2. \A op \in Ops(Installation(n)) :
            \/ op = Create(Original("main"), [gen |-> n, version |-> Chosen])
            \/ op = Flush(Original("main")) \/ op = Sync \/ op = Open
    BY InstallationOps
  <2>3. Named(Create(Original("main"), [gen |-> n, version |-> Chosen]))
    BY NamedOps
  <2> QED
    BY <2>1, <2>2, <2>3, NamedOps DEF AllNamed
<1> QED
  BY <1>1, <1>2, <1>3, <1>4, <1>5

LEMMA MorePlansAreNamed ==
    ASSUME NEW d
    PROVE  /\ AllNamed(CleanupCommitted(d))
           /\ \A removed \in BOOLEAN : AllNamed(Rollback(BackupSet(d), removed))
           /\ ~Refused(d) => AllNamed(Reconciliation(d))
<1>1. BackupSet(d) \in SUBSET Part
  BY DEF BackupSet
<1>2. AllNamed(CleanupCommitted(d))
  BY <1>1, CleanupOps, PlansAreNamed, NamedOps DEF AllNamed
<1>3. AllNamed(RemoveOriginals)
  BY RemoveOriginalsOps, NamedOps DEF AllNamed
<1>4. ASSUME NEW removed \in BOOLEAN
      PROVE  AllNamed(Rollback(BackupSet(d), removed))
  <2>1. AllNamed(RestoreMissing(BackupSet(d))) /\ AllNamed(DeleteManifest)
    BY <1>1, PlansAreNamed
  <2> QED
    BY <1>1, <1>3, <2>1, RollbackOps DEF AllNamed
<1>5. ASSUME ~Refused(d)
      PROVE  AllNamed(Reconciliation(d))
  <2>1. /\ AllNamed(RemoveBackups(BackupSet(d)))
        /\ AllNamed(RestoreOverNew(BackupSet(d)))
        /\ AllNamed(RestoreMissing(BackupSet(d)))
        /\ AllNamed(DeleteManifest) /\ AllNamed(<<>>)
    BY <1>1, PlansAreNamed
  <2>2. \A s, t : AllNamed(s) /\ AllNamed(t) => AllNamed(s \o t)
    BY Joined DEF AllNamed
  <2>3. /\ AllNamed(RestoreOverNew(BackupSet(d)) \o DeleteManifest)
        /\ AllNamed(RestoreMissing(BackupSet(d)) \o DeleteManifest)
    BY <2>1, <2>2
  <2> QED
    BY <1>5, <2>1, <2>3 DEF Reconciliation, Refused
<1> QED
  BY <1>2, <1>4, <1>5

LEMMA OneMoreNamed ==
    ASSUME NEW ops, AllNamed(ops), NEW op, Named(op)
    PROVE  AllNamed(Append(ops, op))
<1> DEFINE S == Ops(ops) \cup {op}
<1>1. ops \in Seq(S) /\ op \in S
  BY PlanIsSeq, SeqMonotonic DEF AllNamed
<1> HIDE DEF S
<1>2. Append(ops, op) \in Seq(S)
  BY <1>1
<1>3. Append(ops, op) = ops \o <<op>>
  BY <1>1
<1>4. Ops(Append(ops, op)) = Ops(ops) \cup {op}
  BY <1>3, OneOp, Joined DEF AllNamed
<1> QED
  BY <1>2, <1>4 DEF AllNamed, IsPlan

LEMMA RestIsNamed ==
    ASSUME NEW ops, AllNamed(ops), ops # <<>>
    PROVE  Named(Head(ops)) /\ AllNamed(Tail(ops))
  BY HeadOfPlan DEF AllNamed

(* What a power loss keeps of the changes not synced.                       *)
LEMMA ReachedAreNamed ==
    ASSUME AllNamed(unsynced),
           NEW changes \in IF Reordering THEN InAnyOrder ELSE InOrder
    PROVE  /\ Len(changes) \in Nat
           /\ \A n \in 1..Len(changes) : Named(changes[n])
<1> DEFINE S == Ops(unsynced)
           U == S \cup {Sync}
<1>1. unsynced \in Seq(S) /\ Len(unsynced) \in Nat /\ DOMAIN unsynced = 1..Len(unsynced)
  BY PlanIsSeq DEF AllNamed
<1>2. \A op \in U : Named(op)
  BY NamedOps DEF AllNamed
<1>3. \A i \in DOMAIN unsynced : unsynced[i] \in U
  BY <1>1
<1>4. changes \in Seq(U)
  <2> HIDE DEF S
  <2>1. CASE Reordering
    <3>1. PICK kept \in SUBSET DOMAIN unsynced :
            changes = [i \in DOMAIN unsynced |-> IF i \in kept THEN unsynced[i] ELSE Sync]
      BY <2>1 DEF InAnyOrder
    <3>2. changes \in [1..Len(unsynced) -> U]
      BY <1>1, <1>3, <3>1
    <3> QED
      BY <1>1, <3>2
  <2>2. CASE ~Reordering
    <3>1. PICK n \in 0..Len(unsynced) : changes = SubSeq(unsynced, 1, n)
      BY <2>2 DEF InOrder
    <3>2. changes \in Seq(S)
      BY <1>1, <3>1
    <3> QED
      BY <3>2, SeqMonotonic
  <2> QED
    BY <2>1, <2>2
<1> HIDE DEF S
<1> QED
  BY <1>2, <1>4, LenProperties, ElementOfSeq

LEMMA DatabaseNamed ==
    ASSUME NEW d, DOMAIN d \subseteq Name
    PROVE  /\ \A version : DOMAIN Written(d, version) \subseteq Name
           /\ DOMAIN Closed(d) \subseteq Name
           /\ DOMAIN Beside(d) \subseteq Name
<1>1. "main" \in Part /\ "wal" \in Part /\ "shm" \in Part
  BY DEF Part
<1>2. {Original("main"), Original("wal"), Original("shm")} \subseteq Name
  BY <1>1, NamedOps
<1>3. \A version : DOMAIN Written(d, version) \subseteq Name
  BY <1>2 DEF Written, With
<1>4. DOMAIN Closed(d) \subseteq Name
  BY <1>2 DEF Closed, With, Without
<1>5. DOMAIN Beside(d) \subseteq Name
  BY <1>2 DEF Beside, With
<1> QED
  BY <1>3, <1>4, <1>5

LEMMA StepKeepsNames ==
    ASSUME NamesKnown, Step
    PROVE  NamesKnown'
<1> DEFINE op == Head(plan)
<1>1. plan # <<>> /\ plan' = Tail(plan)
  BY DEF Step, ChangeDirectory, FlushFile, SyncParent, OpenDatabase, LogRestore, Performed
<1>2. Named(op) /\ AllNamed(plan')
  BY <1>1, RestIsNamed DEF NamesKnown
<1>3. CASE ChangeDirectory
  <2>1. /\ files' = Changed(files, op) /\ disk' = disk
        /\ unsynced' = IF files' = files THEN unsynced ELSE Append(unsynced, op)
    BY <1>3 DEF ChangeDirectory
  <2> HIDE DEF op
  <2>2. DOMAIN files' \subseteq Name
    BY <1>2, <2>1, ChangesNamed DEF NamesKnown
  <2>3. AllNamed(unsynced')
    BY <1>2, <2>1, OneMoreNamed DEF NamesKnown
  <2> QED
    BY <1>2, <2>1, <2>2, <2>3 DEF NamesKnown
<1>4. CASE FlushFile \/ LogRestore
  BY <1>2, <1>4 DEF FlushFile, LogRestore, NamesKnown, fileVars
<1>5. CASE SyncParent
  BY <1>2, <1>5, PlansAreNamed DEF SyncParent, NamesKnown
<1>6. CASE OpenDatabase
  BY <1>2, <1>6, DatabaseNamed
     DEF OpenDatabase, MayLeaveFiles, DatabaseBecomes, NamesKnown, fileVars
<1> QED
  BY <1>3, <1>4, <1>5, <1>6 DEF Step

LEMMA FailureLeavesNames ==
    ASSUME NamesKnown, plan # <<>>, LeavesPart
    PROVE  DOMAIN files' \subseteq Name /\ DOMAIN disk' \subseteq Name /\ AllNamed(unsynced')
<1>1. CASE UNCHANGED fileVars
  BY <1>1 DEF fileVars, NamesKnown
<1>2. CASE MayLeaveFiles
  BY <1>2, DatabaseNamed DEF MayLeaveFiles, DatabaseBecomes, NamesKnown, fileVars
<1>3. CASE /\ Head(plan).do = "create"
           /\ files' = With(files, Head(plan).name, Torn)
           /\ unsynced' = Append(unsynced, Create(Head(plan).name, Torn))
           /\ UNCHANGED disk
  <2> DEFINE name == Head(plan).name
  <2>1. name \in Name
    BY <1>3, RestIsNamed DEF NamesKnown, Named
  <2> HIDE DEF name
  <2>2. DOMAIN With(files, name, Torn) \subseteq Name
    BY <2>1 DEF NamesKnown, With
  <2>3. Named(Create(name, Torn))
    BY <2>1, OperationsDiffer DEF Named
  <2>4. AllNamed(Append(unsynced, Create(name, Torn)))
    BY <2>3, OneMoreNamed DEF NamesKnown
  <2> QED
    BY <1>3, <2>2, <2>4 DEF name, NamesKnown
<1> QED
  BY <1>1, <1>2, <1>3 DEF LeavesPart

LEMMA CommandKeepsNames ==
    ASSUME NamesKnown, RestoreCommand \/ StartUp \/ WriteSnapshot \/ Start \/ Quit \/ Kill
    PROVE  NamesKnown'
<1> USE DEF EnterPhase, Done, restoreVars, fileVars
<1>1. CASE WriteSnapshot
  <2>1. /\ files' = Written(files, written + 1) /\ disk' = Written(disk, written + 1)
        /\ unsynced' = unsynced /\ plan' = plan
    BY <1>1 DEF WriteSnapshot, DatabaseBecomes
  <2> QED
    BY <2>1, DatabaseNamed DEF NamesKnown
<1>2. CASE RefuseRestore \/ AnswerRestored \/ AnswerKept \/ OpenShop \/ Quit \/ Kill
  <2>1. plan' = <<>> /\ UNCHANGED fileVars
    BY <1>2 DEF RefuseRestore, AnswerRestored, AnswerKept, OpenShop, Quit, Kill, Answer
  <2> QED
    BY <2>1, PlansAreNamed DEF NamesKnown
<1>3. CASE BeginRestore \/ CleanUp \/ CompleteReconciled
  <2>1. (plan' = <<>> \/ plan' = CleanupCommitted(files)) /\ UNCHANGED fileVars
    BY <1>3 DEF BeginRestore, CleanUp, CompleteReconciled
  <2> QED
    BY <2>1, PlansAreNamed, MorePlansAreNamed DEF NamesKnown
<1>4. CASE Close
  <2>1. DOMAIN files' \subseteq Name /\ DOMAIN disk' \subseteq Name /\ unsynced' = unsynced
    BY <1>4, DatabaseNamed DEF Close, DatabaseBecomes, NamesKnown
  <2>2. \E row : plan' = WriteManifest(row)
    BY <1>4 DEF Close
  <2> QED
    BY <2>1, <2>2, PlansAreNamed DEF NamesKnown
<1>5. CASE Evacuate
  <2>1. plan' = Evacuation(OriginalSet(files)) /\ UNCHANGED fileVars
    BY <1>5 DEF Evacuate
  <2>2. OriginalSet(files) \in SUBSET Part
    BY DEF OriginalSet
  <2> QED
    BY <2>1, <2>2, PlansAreNamed DEF NamesKnown
<1>6. CASE Install
  <2>1. plan' = Installation(attempt) /\ UNCHANGED fileVars
    BY <1>6 DEF Install
  <2> QED
    BY <2>1, PlansAreNamed DEF NamesKnown
<1>7. CASE CommitRestore
  <2>1. plan' = WriteManifest(Commit(files[Manifest])) /\ UNCHANGED fileVars
    BY <1>7 DEF CommitRestore
  <2> QED
    BY <2>1, PlansAreNamed DEF NamesKnown
<1>8. CASE Start
  <2>1. plan' = (IF Has(files, Temp) THEN <<Delete(Temp), Sync>> ELSE <<>>)
        /\ UNCHANGED fileVars
    BY <1>8 DEF Start
  <2>2. AllNamed(<<Delete(Temp), Sync>>)
    BY TwoOps, NamedOps DEF AllNamed
  <2> QED
    BY <2>1, <2>2, PlansAreNamed DEF NamesKnown
<1>9. CASE Reconcile
  <2>1. UNCHANGED fileVars
        /\ plan' = (IF Refused(files) THEN <<>> ELSE Reconciliation(files))
    BY <1>9 DEF Reconcile
  <2> QED
    BY <2>1, PlansAreNamed, MorePlansAreNamed DEF NamesKnown
<1> QED
  BY <1>1, <1>2, <1>3, <1>4, <1>5, <1>6, <1>7, <1>8, <1>9 DEF RestoreCommand, StartUp

LEMMA FailureKeepsNames ==
    ASSUME NamesKnown, Failure
    PROVE  NamesKnown'
<1> USE DEF EnterPhase, fileVars
<1>1. BackupSet(files') \in SUBSET Part /\ BackupSet(files) \in SUBSET Part
  BY DEF BackupSet
<1>2. CASE FailToAnnounce
  <2>1. plan # <<>> /\ plan' = <<>>
    BY <1>2 DEF FailToAnnounce, Fault
  <2>2. CASE LeavesPart
    BY <2>1, <2>2, FailureLeavesNames, PlansAreNamed DEF NamesKnown
  <2>3. CASE /\ files' = Without(files, {Temp})
             /\ unsynced' = Append(unsynced, Delete(Temp)) /\ UNCHANGED disk
    <3>1. DOMAIN Without(files, {Temp}) \subseteq Name
      BY DEF NamesKnown, Without
    <3>2. AllNamed(Append(unsynced, Delete(Temp)))
      BY NamedOps, OneMoreNamed DEF NamesKnown
    <3> QED
      BY <2>1, <2>3, <3>1, <3>2, PlansAreNamed DEF NamesKnown
  <2> QED
    BY <1>2, <2>2, <2>3 DEF FailToAnnounce
<1>3. CASE FailToEvacuate
  <2>1. plan' = Rollback(BackupSet(files), FALSE) /\ UNCHANGED fileVars
    BY <1>3 DEF FailToEvacuate
  <2> QED
    BY <2>1, MorePlansAreNamed DEF NamesKnown
<1>4. CASE FailToInstall
  <2>1. plan # <<>> /\ LeavesPart /\ plan' = Rollback(BackupSet(files), TRUE)
    BY <1>4 DEF FailToInstall, Fault
  <2> QED
    BY <2>1, FailureLeavesNames, MorePlansAreNamed DEF NamesKnown
<1>5. CASE FailForGood
  <2>1. plan # <<>> /\ LeavesPart /\ plan' = <<>>
    BY <1>5 DEF FailForGood, Fault
  <2> QED
    BY <2>1, FailureLeavesNames, PlansAreNamed DEF NamesKnown
<1>6. CASE FailToReleaseLog
  <2>1. plan # <<>> /\ plan' = Tail(plan) /\ UNCHANGED fileVars
    BY <1>6 DEF FailToReleaseLog, Fault
  <2> QED
    BY <2>1, RestIsNamed DEF NamesKnown
<1>7. CASE FailToReconnect \/ FailToCleanUp \/ FailToComplete \/ FailToReconcile
  <2>1. plan' = <<>> /\ UNCHANGED fileVars
    BY <1>7 DEF FailToReconnect, FailToCleanUp, FailToComplete, FailToReconcile, Answer
  <2> QED
    BY <2>1, PlansAreNamed DEF NamesKnown
<1> QED
  BY <1>2, <1>3, <1>4, <1>5, <1>6, <1>7 DEF Failure

LEMMA LossKeepsNames ==
    ASSUME NamesKnown, PowerLoss(IF Reordering THEN InAnyOrder ELSE InOrder)
    PROVE  NamesKnown'
<1>1. PICK changes \in IF Reordering THEN InAnyOrder ELSE InOrder :
          \E torn \in SUBSET unflushed :
              disk' = LET d == AllChanged(disk, changes)
                      IN  [n \in DOMAIN d |-> IF n \in torn THEN Torn ELSE d[n]]
  BY DEF PowerLoss
<1>2. /\ Len(changes) \in Nat
      /\ \A n \in 1..Len(changes) : Named(changes[n])
  BY ReachedAreNamed DEF NamesKnown
<1>3. DOMAIN AllChanged(disk, changes) \subseteq Name
  BY <1>2, ReplayNamed DEF NamesKnown
<1>4. DOMAIN disk' = DOMAIN AllChanged(disk, changes)
  BY <1>1
<1>5. files' = disk' /\ unsynced' = <<>> /\ plan' = <<>>
  BY DEF PowerLoss, EnterPhase
<1> QED
  BY <1>3, <1>4, <1>5, PlansAreNamed DEF NamesKnown

LEMMA NamesStayKnown ==
    ASSUME NamesKnown, [Next]_vars
    PROVE  NamesKnown'
<1>1. CASE UNCHANGED vars
  BY <1>1 DEF vars, fileVars, NamesKnown
<1> QED
  BY <1>1, StepKeepsNames, CommandKeepsNames, FailureKeepsNames, LossKeepsNames
     DEF Next, Program

-----------------------------------------------------------------------------
(* What lies beside the database while it is cleared up.                    *)
Extra(d) == DOMAIN d \ {Original(p) : p \in Part}

(* The rest of the plan takes every such file away, or puts it in its place. *)
TakenBy(name, ops) ==
    \/ Delete(name) \in Ops(ops)
    \/ \E p \in Part : name = Backup(p) /\ PutBack(p) \in Ops(ops)

AddsNothing(op) ==
    op.do \in {"delete", "sync", "log"} \/ \E p \in Part : op = PutBack(p)

ClearsUp(d, ops) ==
    /\ \A name \in Extra(d) : TakenBy(name, ops)
    /\ \A op \in Ops(ops) : AddsNothing(op)

(* The reconciliation of a committed restore only deletes the evacuated files. *)
KeepsCommitted(d, ops) ==
    /\ Committed(d)
    /\ \A op \in Ops(ops) : op = Sync \/ \E p \in Part : op = Delete(Backup(p))

(* The inductive invariant of NoRemains.                                    *)
RemainsInv ==
    /\ NamesKnown
    /\ faults \in Nat
    /\ phase \in {"ready", "broken", "stopped"} => plan = <<>>
    /\ phase = "rollback" => faults # 0
    /\ phase = "ready" /\ faults = 0 => Extra(files) = {}
    /\ phase = "sweep" =>
          /\ Has(files, Temp) => Delete(Temp) \in Ops(plan)
          /\ \A op \in Ops(plan) : op = Delete(Temp) \/ op = Sync
    /\ phase = "reconcile" => ClearsUp(files, plan) \/ KeepsCommitted(files, plan)
    /\ phase \in {"cleanup", "complete"} => ClearsUp(files, plan)

LEMMA DeletesOne ==
    ASSUME NEW d, NEW name
    PROVE  Changed(d, Delete(name)) = Without(d, {name})
<1> DEFINE op == Delete(name)
<1>1. op.do = "delete" /\ op.name = name
  BY OperationsDiffer
<1> HIDE DEF op
<1>2. Changed(d, op) = Without(d, {name})
  BY <1>1, ChangesOne
<1> QED
  BY <1>2 DEF op

LEMMA RenamesOne ==
    ASSUME NEW d, NEW from, NEW to
    PROVE  /\ from \in DOMAIN d =>
                 Changed(d, Rename(from, to)) = With(Without(d, {from}), to, d[from])
           /\ from \notin DOMAIN d => Changed(d, Rename(from, to)) = d
<1> DEFINE op == Rename(from, to)
<1>1. op.do = "rename" /\ op.from = from /\ op.to = to
  BY OperationsDiffer
<1> HIDE DEF op
<1>2. /\ from \in DOMAIN d => Changed(d, op) = With(Without(d, {from}), to, d[from])
      /\ from \notin DOMAIN d => Changed(d, op) = d
  BY <1>1, ChangesOne
<1> QED
  BY <1>2 DEF op

LEMMA CreatesOne ==
    ASSUME NEW d, NEW name, NEW content
    PROVE  Changed(d, Create(name, content)) = With(d, name, content)
<1> DEFINE op == Create(name, content)
<1>1. op.do = "create" /\ op.name = name /\ op.content = content
  BY OperationsDiffer
<1> HIDE DEF op
<1>2. Changed(d, op) = With(d, name, content)
  BY <1>1, ChangesOne
<1> QED
  BY <1>2 DEF op

(* One operation of such a plan.                                            *)
LEMMA ClearingGoesOn ==
    ASSUME NEW d, NEW ops, IsPlan(ops), ops # <<>>, ClearsUp(d, ops)
    PROVE  ClearsUp(Changed(d, Head(ops)), Tail(ops))
<1> DEFINE op == Head(ops)
           e == Changed(d, op)
<1>1. Ops(ops) = {op} \cup Ops(Tail(ops))
  BY HeadOfPlan
<1>2. AddsNothing(op) /\ \A o \in Ops(Tail(ops)) : AddsNothing(o)
  BY <1>1 DEF ClearsUp
<1>3. Extra(e) \subseteq Extra(d)
  <2>1. CASE \E p \in Part : op = PutBack(p)
    <3>1. PICK p \in Part : op = Rename(Backup(p), Original(p))
      BY <2>1 DEF PutBack
    <3>2. CASE Backup(p) \in DOMAIN d
      <4>1. e = With(Without(d, {Backup(p)}), Original(p), d[Backup(p)])
        BY <3>1, <3>2, RenamesOne
      <4>2. DOMAIN e = (DOMAIN d \ {Backup(p)}) \cup {Original(p)}
        BY <4>1 DEF With, Without
      <4> QED
        BY <4>2 DEF Extra
    <3>3. CASE Backup(p) \notin DOMAIN d
      <4>1. Changed(d, Rename(Backup(p), Original(p))) = d
        BY <3>3, RenamesOne, Zenon
      <4>2. e = d
        BY <3>1, <4>1
      <4> QED
        BY <4>2
    <3> QED
      BY <3>2, <3>3
  <2>2. CASE op.do = "delete"
    <3> HIDE DEF op
    <3>1. e = Without(d, {op.name})
      BY <2>2, ChangesOne
    <3> QED
      BY <3>1 DEF Extra, Without
  <2>3. CASE op.do \in {"sync", "log"}
    <3> HIDE DEF op
    <3> QED
      BY <2>3, ChangesOne
  <2>4. \/ \E p \in Part : op = PutBack(p)
        \/ op.do = "delete" \/ op.do \in {"sync", "log"}
    BY <1>2 DEF AddsNothing
  <2> HIDE DEF op, e
  <2> QED
    BY <2>1, <2>2, <2>3, <2>4
<1>4. ASSUME NEW name \in Extra(e)
      PROVE  TakenBy(name, Tail(ops))
  <2>1. TakenBy(name, ops) /\ name \in DOMAIN e /\ name \in DOMAIN d
    BY <1>3 DEF ClearsUp, Extra
  <2>2. op # Delete(name)
    <3>1. ASSUME op = Delete(name) PROVE FALSE
      <4>1. e = Without(d, {name})
        BY <3>1, DeletesOne
      <4> QED
        BY <2>1, <4>1 DEF Without
    <3> QED
      BY <3>1
  <2>3. ASSUME NEW p \in Part, name = Backup(p)
        PROVE  op # PutBack(p)
    <3>1. ASSUME op = PutBack(p) PROVE FALSE
      <4>1. e = With(Without(d, {name}), Original(p), d[name])
        BY <2>1, <2>3, <3>1, RenamesOne DEF PutBack
      <4>2. DOMAIN e = (DOMAIN d \ {name}) \cup {Original(p)}
        BY <4>1 DEF With, Without
      <4> QED
        BY <2>1, <2>3, <4>2, NamesDiffer
    <3> QED
      BY <3>1
  <2> HIDE DEF op, e
  <2>4. CASE Delete(name) \in Ops(ops)
    BY <1>1, <2>2, <2>4 DEF TakenBy
  <2>5. CASE \E p \in Part : name = Backup(p) /\ PutBack(p) \in Ops(ops)
    BY <1>1, <2>3, <2>5 DEF TakenBy
  <2> QED
    BY <2>1, <2>4, <2>5 DEF TakenBy
<1> HIDE DEF op, e
<1> QED
  BY <1>2, <1>4 DEF ClearsUp, op, e

LEMMA CommitIsKept ==
    ASSUME NEW d, NEW ops, IsPlan(ops), ops # <<>>, KeepsCommitted(d, ops)
    PROVE  KeepsCommitted(Changed(d, Head(ops)), Tail(ops))
<1> DEFINE op == Head(ops)
           e == Changed(d, op)
<1>1. Ops(ops) = {op} \cup Ops(Tail(ops))
  BY HeadOfPlan
<1>2. e = d \/ \E p \in Part : e = Without(d, {Backup(p)})
  <2>1. CASE op = Sync
    <3>1. op.do = "sync"
      BY <2>1, OperationsDiffer
    <3> HIDE DEF op
    <3> QED
      BY <3>1, ChangesOne
  <2>2. CASE \E p \in Part : op = Delete(Backup(p))
    BY <2>2, DeletesOne
  <2> QED
    BY <1>1, <2>1, <2>2 DEF KeepsCommitted
<1> HIDE DEF op, e
<1>3. Committed(d) /\ Manifest \in DOMAIN d
  BY DEF KeepsCommitted, Committed, Readable, Has
<1>4. Manifest \in DOMAIN e /\ e[Manifest] = d[Manifest]
  BY <1>2, <1>3, NamesDiffer DEF Without
<1>5. Committed(e)
  BY <1>3, <1>4 DEF Committed, Readable, Has
<1> QED
  BY <1>1, <1>5 DEF KeepsCommitted, op, e

(* The plans that clear up.                                                 *)
LEMMA DeletionAddsNothing ==
    /\ \A name : AddsNothing(Delete(name))
    /\ \A p \in Part : AddsNothing(PutBack(p))
    /\ AddsNothing(Sync) /\ AddsNothing(Log)
<1>1. \A name : AddsNothing(Delete(name))
  BY OperationsDiffer DEF AddsNothing
<1>2. \A p \in Part : AddsNothing(PutBack(p))
  BY DEF AddsNothing
<1>3. AddsNothing(Sync) /\ AddsNothing(Log)
  BY OperationsDiffer DEF AddsNothing
<1> QED
  BY <1>1, <1>2, <1>3

LEMMA CleanupClearsUp ==
    ASSUME NEW d, DOMAIN d \subseteq Name
    PROVE  ClearsUp(d, CleanupCommitted(d))
<1> DEFINE ops == CleanupCommitted(d)
           r == RemoveBackups(BackupSet(d))
<1>1. BackupSet(d) \in SUBSET Part
  BY DEF BackupSet
<1>2. Ops(ops) = Ops(r) \cup {Log} \cup {Delete(Manifest), Delete(Temp), Sync}
  BY CleanupOps, DeleteManifestOps
<1>3. /\ \A p \in BackupSet(d) : Delete(Backup(p)) \in Ops(r)
      /\ \A op \in Ops(r) : op = Sync \/ \E p \in BackupSet(d) : op = Delete(Backup(p))
  BY <1>1, RemoveBackupsOps
<1> HIDE DEF ops, r
<1>4. ASSUME NEW name \in Extra(d)
      PROVE  TakenBy(name, ops)
  <2>1. \/ name = Manifest \/ name = Temp
        \/ \E p \in BackupSet(d) : name = Backup(p)
    BY DEF Extra, Name, BackupSet, Has
  <2> QED
    BY <1>2, <1>3, <2>1 DEF TakenBy
<1>5. ASSUME NEW op \in Ops(ops)
      PROVE  AddsNothing(op)
  BY <1>1, <1>2, <1>3, DeletionAddsNothing
<1> QED
  BY <1>4, <1>5 DEF ClearsUp, ops

LEMMA UndoingClearsUp ==
    ASSUME NEW d, DOMAIN d \subseteq Name,
           NEW undo, IsPlan(undo),
           \A p \in BackupSet(d) : PutBack(p) \in Ops(undo),
           \A op \in Ops(undo) : AddsNothing(op)
    PROVE  ClearsUp(d, undo \o DeleteManifest)
<1> DEFINE ops == undo \o DeleteManifest
<1>1. Ops(ops) = Ops(undo) \cup {Delete(Manifest), Delete(Temp), Sync}
  BY Joined, DeleteManifestOps
<1> HIDE DEF ops
<1>2. ASSUME NEW name \in Extra(d)
      PROVE  TakenBy(name, ops)
  <2>1. \/ name = Manifest \/ name = Temp
        \/ \E p \in BackupSet(d) : name = Backup(p)
    BY DEF Extra, Name, BackupSet, Has
  <2> QED
    BY <1>1, <2>1 DEF TakenBy, BackupSet
<1>3. ASSUME NEW op \in Ops(ops)
      PROVE  AddsNothing(op)
  BY <1>1, DeletionAddsNothing
<1> QED
  BY <1>2, <1>3 DEF ClearsUp, ops

LEMMA ReconciliationClearsUp ==
    ASSUME NEW d, DOMAIN d \subseteq Name, Temp \notin DOMAIN d, ~Refused(d)
    PROVE  \/ ClearsUp(d, Reconciliation(d))
           \/ KeepsCommitted(d, Reconciliation(d))
<1>1. BackupSet(d) \in SUBSET Part
  BY DEF BackupSet
<1>2. CASE Committed(d)
  <2>1. Reconciliation(d) = RemoveBackups(BackupSet(d))
    <3>1. ~EvacuationComplete(d) /\ ~EvacuationPartial(d) /\ ~NothingToDo(d)
      BY <1>2 DEF Committed, EvacuationComplete, EvacuationPartial, Active, NothingToDo
    <3> QED
      BY <1>2, <3>1 DEF Reconciliation
  <2>2. \A op \in Ops(Reconciliation(d)) :
            op = Sync \/ \E p \in Part : op = Delete(Backup(p))
    BY <1>1, <2>1, RemoveBackupsOps
  <2> QED
    BY <1>2, <2>2 DEF KeepsCommitted
<1>3. CASE ~Committed(d) /\ EvacuationComplete(d)
  <2>1. Reconciliation(d) = RestoreOverNew(BackupSet(d)) \o DeleteManifest
    <3>1. ~EvacuationPartial(d) /\ ~NothingToDo(d)
      BY <1>3 DEF EvacuationComplete, EvacuationPartial, Active, NothingToDo
    <3> QED
      BY <1>3, <3>1 DEF Reconciliation
  <2>2. /\ IsPlan(RestoreOverNew(BackupSet(d)))
        /\ \A p \in BackupSet(d) : PutBack(p) \in Ops(RestoreOverNew(BackupSet(d)))
    BY <1>1, RestoreOverNewOps, PutAllBackOps
  <2>3. ASSUME NEW op \in Ops(RestoreOverNew(BackupSet(d)))
        PROVE  AddsNothing(op)
    <3>1. op \in Ops(RemoveOriginals) \/ op = Sync \/ op \in Ops(PutAllBack(BackupSet(d)))
      BY <1>1, RestoreOverNewOps
    <3> QED
      BY <1>1, <3>1, RemoveOriginalsOps, PutAllBackOps, DeletionAddsNothing
  <2>4. ClearsUp(d, RestoreOverNew(BackupSet(d)) \o DeleteManifest)
    BY <2>2, <2>3, UndoingClearsUp
  <2> QED
    BY <2>1, <2>4
<1>4. CASE ~Committed(d) /\ EvacuationPartial(d)
  <2>1. Reconciliation(d) = RestoreMissing(BackupSet(d)) \o DeleteManifest
    <3>1. ~EvacuationComplete(d) /\ ~NothingToDo(d)
      BY <1>4 DEF EvacuationComplete, EvacuationPartial, Active, NothingToDo
    <3> QED
      BY <1>4, <3>1 DEF Reconciliation
  <2>2. /\ IsPlan(RestoreMissing(BackupSet(d)))
        /\ \A p \in BackupSet(d) : PutBack(p) \in Ops(RestoreMissing(BackupSet(d)))
        /\ \A op \in Ops(RestoreMissing(BackupSet(d))) : AddsNothing(op)
    BY <1>1, RestoreMissingOps, DeletionAddsNothing
  <2>3. ClearsUp(d, RestoreMissing(BackupSet(d)) \o DeleteManifest)
    BY <2>2, UndoingClearsUp
  <2> QED
    BY <2>1, <2>3
<1>5. CASE ~Committed(d) /\ NothingToDo(d)
  <2>1. Reconciliation(d) = IF Has(d, Manifest) THEN DeleteManifest ELSE <<>>
    <3>1. ~EvacuationComplete(d) /\ ~EvacuationPartial(d)
      BY <1>5 DEF EvacuationComplete, EvacuationPartial, Active, NothingToDo
    <3> QED
      BY <1>5, <3>1 DEF Reconciliation
  <2>2. Extra(d) \subseteq {Manifest}
    BY <1>5 DEF NothingToDo, Extra, Name, BackupSet, Has
  <2>3. CASE Has(d, Manifest)
    <3>1. \A name \in Extra(d) : TakenBy(name, DeleteManifest)
      BY <2>2, DeleteManifestOps DEF TakenBy
    <3>2. \A op \in Ops(DeleteManifest) : AddsNothing(op)
      BY DeleteManifestOps, DeletionAddsNothing
    <3> QED
      BY <2>1, <2>3, <3>1, <3>2 DEF ClearsUp
  <2>4. CASE ~Has(d, Manifest)
    <3>1. Extra(d) = {}
      BY <2>2, <2>4 DEF Has, Extra
    <3> QED
      BY <2>1, <2>4, <3>1, NoOps DEF ClearsUp
  <2> QED
    BY <2>3, <2>4
<1> QED
  BY <1>2, <1>3, <1>4, <1>5 DEF Refused

(* An empty plan has nothing left to take.                                  *)
LEMMA ClearedUp ==
    ASSUME NEW d, ClearsUp(d, <<>>)
    PROVE  Extra(d) = {}
  BY NoOps DEF ClearsUp, TakenBy

LEMMA RemainsInit ==
    Init => RemainsInv
<1> SUFFICES ASSUME Init PROVE RemainsInv
  OBVIOUS
<1>1. DOMAIN files = {Original("main")} /\ disk = files
  BY DEF Init
<1>2. "main" \in Part
  BY DEF Part
<1>3. NamesKnown
  BY <1>1, <1>2, NamedOps, PlansAreNamed DEF Init, NamesKnown
<1>4. Extra(files) = {}
  BY <1>1, <1>2 DEF Extra
<1> QED
  BY <1>3, <1>4 DEF Init, RemainsInv

LEMMA StepRemains ==
    ASSUME RemainsInv, Step
    PROVE  RemainsInv'
<1> DEFINE op == Head(plan)
<1>1. NamesKnown'
  BY StepKeepsNames DEF RemainsInv
<1>2. /\ IsPlan(plan) /\ plan # <<>> /\ plan' = Tail(plan)
      /\ phase' = phase /\ faults' = faults
      /\ op.do \in {"rename", "delete", "create", "flush", "sync", "open", "log"}
  BY DEF Step, ChangeDirectory, FlushFile, SyncParent, OpenDatabase, LogRestore,
         Performed, restoreVars, RemainsInv, NamesKnown, AllNamed
<1>3. Ops(plan) = {op} \cup Ops(plan')
  BY <1>2, HeadOfPlan
<1>4. \/ op.do \in {"rename", "delete", "create"} /\ files' = Changed(files, op)
      \/ op.do \in {"flush", "sync", "log"} /\ files' = files
      \/ op.do = "open"
  BY DEF Step, ChangeDirectory, FlushFile, SyncParent, OpenDatabase, LogRestore,
         Performed, fileVars
<1> HIDE DEF op
<1>5. op.do # "open" => files' = Changed(files, op)
  BY <1>4, ChangesOne
<1>6. phase \notin {"ready", "broken", "stopped"}
  BY <1>2 DEF RemainsInv
<1>7. ASSUME ClearsUp(files, plan)
      PROVE  ClearsUp(files', plan')
  <2>1. op.do # "open"
    <3>1. AddsNothing(op)
      BY <1>3, <1>7 DEF ClearsUp
    <3> QED
      BY <3>1, OperationsDiffer DEF AddsNothing, PutBack
  <2> QED
    BY <1>2, <1>5, <1>7, <2>1, ClearingGoesOn DEF op
<1>8. ASSUME KeepsCommitted(files, plan)
      PROVE  KeepsCommitted(files', plan')
  <2>1. op.do # "open"
    <3>1. op = Sync \/ \E p \in Part : op = Delete(Backup(p))
      BY <1>3, <1>8 DEF KeepsCommitted
    <3> QED
      BY <3>1, OperationsDiffer
  <2> QED
    BY <1>2, <1>5, <1>8, <2>1, CommitIsKept DEF op
<1>9. ASSUME phase = "sweep"
      PROVE  /\ Has(files', Temp) => Delete(Temp) \in Ops(plan')
             /\ \A o \in Ops(plan') : o = Delete(Temp) \/ o = Sync
  <2>1. op = Delete(Temp) \/ op = Sync
    BY <1>3, <1>9 DEF RemainsInv
  <2>2. files' = Changed(files, op)
    BY <1>5, <2>1, OperationsDiffer
  <2>3. CASE op = Delete(Temp)
    <3>1. files' = Without(files, {Temp})
      BY <2>2, <2>3, DeletesOne
    <3> QED
      BY <1>3, <1>9, <3>1 DEF Without, Has, RemainsInv
  <2>4. CASE op = Sync
    <3>1. op.do = "sync"
      BY <2>4, OperationsDiffer
    <3>2. files' = files
      BY <1>4, <3>1
    <3>3. Delete(Temp) # Sync
      BY OperationsDiffer
    <3> QED
      BY <1>3, <1>9, <2>4, <3>2, <3>3 DEF RemainsInv
  <2> QED
    BY <2>1, <2>3, <2>4
<1> QED
  BY <1>1, <1>2, <1>6, <1>7, <1>8, <1>9 DEF RemainsInv

LEMMA CommandRemains ==
    ASSUME RemainsInv, RestoreCommand \/ StartUp \/ WriteSnapshot \/ Start \/ Quit \/ Kill
    PROVE  RemainsInv'
<1> USE DEF EnterPhase, Done, restoreVars, fileVars
<1>1. NamesKnown' /\ NamesKnown
  BY CommandKeepsNames DEF RemainsInv
<1>2. faults' = faults
  BY DEF RestoreCommand, StartUp, WriteSnapshot, Start, Quit, Kill, RefuseRestore,
         BeginRestore, Close, Evacuate, Install, CommitRestore, CleanUp,
         AnswerRestored, AnswerKept, Reconcile, CompleteReconciled, OpenShop
<1>3. CASE WriteSnapshot
  <2>1. /\ files' = Written(files, written + 1) /\ phase' = "ready" /\ plan' = plan
        /\ phase = "ready"
    BY <1>3 DEF WriteSnapshot, DatabaseBecomes
  <2>2. "wal" \in Part /\ "shm" \in Part
    BY DEF Part
  <2>3. Extra(files') \subseteq Extra(files)
    BY <2>1, <2>2 DEF Extra, Written, With
  <2> QED
    BY <1>1, <1>2, <2>1, <2>3 DEF RemainsInv
<1>4. CASE RefuseRestore \/ Quit \/ Kill
  <2>1. plan' = <<>> /\ phase' \in {"broken", "stopped"}
    BY <1>4 DEF RefuseRestore, Quit, Kill
  <2> QED
    BY <1>1, <1>2, <2>1 DEF RemainsInv
<1>5. CASE BeginRestore \/ Close \/ Evacuate \/ Install \/ CommitRestore
  <2>1. phase' \in {"release", "announce", "evacuate", "install", "commit"}
    BY <1>5 DEF BeginRestore, Close, Evacuate, Install, CommitRestore
  <2> QED
    BY <1>1, <1>2, <2>1 DEF RemainsInv
<1>6. CASE CleanUp
  <2>1. phase' = "cleanup" /\ plan' = CleanupCommitted(files) /\ files' = files
    BY <1>6 DEF CleanUp
  <2>2. ClearsUp(files, CleanupCommitted(files))
    BY <1>1, CleanupClearsUp DEF NamesKnown
  <2> QED
    BY <1>1, <1>2, <2>1, <2>2 DEF RemainsInv
<1>7. CASE AnswerRestored \/ OpenShop
  <2>1. /\ phase \in {"cleanup", "complete"} /\ plan = <<>>
        /\ phase' = "ready" /\ plan' = <<>> /\ files' = files
    BY <1>7 DEF AnswerRestored, OpenShop, Answer
  <2>2. Extra(files) = {}
    BY <2>1, ClearedUp DEF RemainsInv
  <2> QED
    BY <1>1, <1>2, <2>1, <2>2 DEF RemainsInv
<1>8. CASE AnswerKept
  <2>1. phase = "rollback" /\ phase' = "ready" /\ plan' = <<>>
    BY <1>8 DEF AnswerKept, Answer
  <2> QED
    BY <1>1, <1>2, <2>1 DEF RemainsInv
<1>9. CASE Reconcile
  <2>1. CASE Refused(files)
    <3>1. phase' = "stopped" /\ plan' = <<>>
      BY <1>9, <2>1 DEF Reconcile
    <3> QED
      BY <1>1, <1>2, <3>1 DEF RemainsInv
  <2>2. CASE ~Refused(files)
    <3>1. /\ phase' = "reconcile" /\ plan' = Reconciliation(files) /\ files' = files
          /\ phase = "sweep" /\ plan = <<>>
      BY <1>9, <2>2 DEF Reconcile
    <3>2. Temp \notin DOMAIN files
      BY <3>1, NoOps DEF RemainsInv, Has
    <3>3. \/ ClearsUp(files, Reconciliation(files))
          \/ KeepsCommitted(files, Reconciliation(files))
      BY <1>1, <2>2, <3>2, ReconciliationClearsUp DEF NamesKnown
    <3> QED
      BY <1>1, <1>2, <3>1, <3>3 DEF RemainsInv
  <2> QED
    BY <2>1, <2>2
<1>10. CASE CompleteReconciled
  <2>1. /\ phase = "reconcile" /\ plan = <<>> /\ phase' = "complete" /\ files' = files
        /\ plan' = (IF Committed(files) THEN CleanupCommitted(files) ELSE <<>>)
    BY <1>10 DEF CompleteReconciled
  <2>2. CASE Committed(files)
    <3>1. ClearsUp(files, CleanupCommitted(files))
      BY <1>1, CleanupClearsUp DEF NamesKnown
    <3> QED
      BY <1>1, <1>2, <2>1, <2>2, <3>1 DEF RemainsInv
  <2>3. CASE ~Committed(files)
    <3>1. ClearsUp(files, plan')
      BY <2>1, <2>3 DEF RemainsInv, KeepsCommitted
    <3> QED
      BY <1>1, <1>2, <2>1, <3>1 DEF RemainsInv
  <2> QED
    BY <2>2, <2>3
<1>11. CASE Start
  <2>1. /\ phase' = "sweep" /\ files' = files
        /\ plan' = (IF Has(files, Temp) THEN <<Delete(Temp), Sync>> ELSE <<>>)
    BY <1>11 DEF Start
  <2>2. /\ Has(files', Temp) => Delete(Temp) \in Ops(plan')
        /\ \A op \in Ops(plan') : op = Delete(Temp) \/ op = Sync
    BY <2>1, TwoOps, NoOps
  <2> QED
    BY <1>1, <1>2, <2>1, <2>2 DEF RemainsInv
<1> QED
  BY <1>3, <1>4, <1>5, <1>6, <1>7, <1>8, <1>9, <1>10, <1>11 DEF RestoreCommand, StartUp

LEMMA FailureRemains ==
    ASSUME RemainsInv, Failure
    PROVE  RemainsInv'
<1> USE DEF EnterPhase
<1>1. NamesKnown'
  BY FailureKeepsNames DEF RemainsInv
<1>2. CASE FailToReleaseLog
  <2>1. phase = "release" /\ phase' = "release" /\ faults' = faults + 1
    BY <1>2 DEF FailToReleaseLog, Fault
  <2> QED
    BY <1>1, <2>1 DEF RemainsInv
<1>3. CASE ~FailToReleaseLog
  <2>1. /\ faults' = faults + 1
        /\ \/ phase' = "rollback"
           \/ phase' \in {"broken", "stopped", "ready"} /\ plan' = <<>>
    BY <1>3 DEF Failure, FailToAnnounce, FailToEvacuate, FailToInstall, FailForGood,
         FailToReconnect, FailToCleanUp, FailToComplete, FailToReconcile, Fault, Answer
  <2>2. faults' \in Nat /\ faults' # 0
    BY <2>1 DEF RemainsInv
  <2> QED
    BY <1>1, <2>1, <2>2 DEF RemainsInv
<1> QED
  BY <1>2, <1>3

LEMMA RemainsNext ==
    ASSUME RemainsInv, [Next]_vars
    PROVE  RemainsInv'
<1>1. CASE UNCHANGED vars
  BY <1>1 DEF vars, fileVars, RemainsInv, NamesKnown
<1>2. CASE PowerLoss(IF Reordering THEN InAnyOrder ELSE InOrder)
  <2>1. NamesKnown'
    BY NamesStayKnown DEF RemainsInv
  <2>2. phase' = "stopped" /\ plan' = <<>> /\ faults' = faults
    BY <1>2 DEF PowerLoss, EnterPhase
  <2> QED
    BY <2>1, <2>2 DEF RemainsInv
<1> QED
  BY <1>1, <1>2, StepRemains, CommandRemains, FailureRemains DEF Next, Program

(* MNT-01-D5: however often a restore that met no failure was killed or cut  *)
(* off, and whatever order the disk kept its changes in, nothing is left    *)
(* beside the database once the shop is open.                               *)
THEOREM NothingRemains == Spec => []NoRemains
<1>1. RemainsInv /\ [Next]_vars => RemainsInv'
  BY RemainsNext
<1>2. RemainsInv => NoRemains
  BY DEF RemainsInv, NoRemains, Extra
<1> QED
  BY <1>1, <1>2, RemainsInit, PTL DEF Spec

-----------------------------------------------------------------------------
(* The database a start would find: of each part, the evacuated file unless *)
(* the restore is committed.                                                *)
Content == [gen : Nat, version : Nat]

IsRow(row) ==
    /\ row \in [attempt : Nat, originals : SUBSET Part, phase : {"active", "committed"}]
    /\ "main" \in row.originals

From(d) == IF Committed(d) THEN {} ELSE BackupSet(d)

Found(d) ==
    IF Committed(d) THEN OriginalSet(d)
    ELSE IF EvacuationComplete(d) THEN BackupSet(d)
    ELSE OriginalSet(d) \cup BackupSet(d)

Kept(d, p) == IF p \in From(d) THEN d[Backup(p)] ELSE d[Original(p)]

Db(d) == [p \in Found(d) |-> Kept(d, p)]

Worth(db) ==
    IF "main" \notin DOMAIN db THEN Missing
    ELSE IF \E p \in DOMAIN db : db[p] = Torn THEN Mixed
    ELSE IF \E p \in DOMAIN db : db[p].gen # db["main"].gen THEN Mixed
    ELSE IF "wal" \in DOMAIN db THEN db["wal"].version
    ELSE db["main"].version

(* A directory the program leaves behind at any moment, the power staying.  *)
Whole(d) ==
    /\ Has(d, Manifest) => IsRow(d[Manifest])
    /\ BackupSet(d) # {} => Has(d, Manifest)
    /\ Active(d) => BackupSet(d) \subseteq d[Manifest].originals
    /\ "main" \in Found(d) /\ Kept(d, "main") \in Content

LEMMA RowsAreNotTorn == \A row : IsRow(row) => row # Torn
<1> SUFFICES ASSUME NEW row, IsRow(row), row = Torn PROVE FALSE
  OBVIOUS
<1>1. DOMAIN row = {"attempt", "originals", "phase"}
  BY DEF IsRow
<1>2. DOMAIN row = {"torn"}
  BY DEF Torn
<1> QED
  BY <1>1, <1>2

LEMMA ContentIsNotTorn == \A content \in Content : content # Torn
<1> SUFFICES ASSUME NEW content \in Content, content = Torn PROVE FALSE
  OBVIOUS
<1>1. DOMAIN content = {"gen", "version"}
  BY DEF Content
<1>2. DOMAIN content = {"torn"}
  BY DEF Torn
<1> QED
  BY <1>1, <1>2

LEMMA WholeManifest ==
    ASSUME NEW d, Whole(d)
    PROVE  /\ Readable(d) <=> Has(d, Manifest)
           /\ Has(d, Manifest) => (Active(d) <=> ~Committed(d))
           /\ Active(d) \/ Committed(d) => Has(d, Manifest)
<1>1. Readable(d) <=> Has(d, Manifest)
  BY RowsAreNotTorn DEF Whole, Readable
<1>2. Has(d, Manifest) => d[Manifest].phase \in {"active", "committed"}
  BY DEF Whole, IsRow
<1> QED
  BY <1>1, <1>2 DEF Active, Committed

LEMMA WholeIsNotRefused ==
    ASSUME NEW d, Whole(d)
    PROVE  ~Refused(d)
<1>1. CASE Has(d, Manifest)
  BY <1>1, WholeManifest DEF Refused, EvacuationPartial, Whole
<1>2. CASE ~Has(d, Manifest)
  BY <1>2, WholeManifest DEF Refused, NothingToDo, Whole
<1> QED
  BY <1>1, <1>2

(* A snapshot depends on the files of the database only.                    *)
LEMMA SnapshotIsWorth ==
    ASSUME NEW d
    PROVE  Snapshot(d) = Worth([p \in OriginalSet(d) |-> d[Original(p)]])
<1> DEFINE db == [p \in OriginalSet(d) |-> d[Original(p)]]
<1>1. DOMAIN db = OriginalSet(d) /\ \A p \in OriginalSet(d) : db[p] = d[Original(p)]
  OBVIOUS
<1>2. /\ Has(d, Original("main")) <=> "main" \in OriginalSet(d)
      /\ Has(d, Original("wal")) <=> "wal" \in OriginalSet(d)
  BY DEF OriginalSet, Part
<1> HIDE DEF db
<1>3. Torn \in {d[Original(p)] : p \in OriginalSet(d)}
        <=> \E p \in DOMAIN db : db[p] = Torn
  BY <1>1
<1>4. CASE "main" \notin OriginalSet(d)
  BY <1>1, <1>2, <1>4 DEF Snapshot, Worth
<1>5. CASE "main" \in OriginalSet(d)
  <2>1. (\E c \in {d[Original(p)] : p \in OriginalSet(d)} : c.gen # d[Original("main")].gen)
          <=> \E p \in DOMAIN db : db[p].gen # db["main"].gen
    BY <1>1, <1>5
  <2>2. CASE \E p \in DOMAIN db : db[p] = Torn
    BY <1>1, <1>2, <1>3, <1>5, <2>2 DEF Snapshot, Worth
  <2>3. CASE (~ \E p \in DOMAIN db : db[p] = Torn)
             /\ \E p \in DOMAIN db : db[p].gen # db["main"].gen
    BY <1>1, <1>2, <1>3, <1>5, <2>1, <2>3 DEF Snapshot, Worth
  <2>4. CASE (~ \E p \in DOMAIN db : db[p] = Torn)
             /\ ~ \E p \in DOMAIN db : db[p].gen # db["main"].gen
    BY <1>1, <1>2, <1>3, <1>5, <2>1, <2>4 DEF Snapshot, Worth
  <2> QED
    BY <2>2, <2>3, <2>4
<1> QED
  BY <1>4, <1>5 DEF db

LEMMA NextStartFinds ==
    ASSUME NEW d, Whole(d)
    PROVE  AtNextStart(d) = Worth(Db(d))
<1> DEFINE back == BackupSet(d)
           putBack == [n \in (DOMAIN d \ {Backup(p) : p \in Part})
                                \cup {Original(p) : p \in back} |->
                         IF \E p \in back : n = Original(p)
                         THEN d[Backup(n[1])] ELSE d[n]]
           newer == {Original(p) : p \in Part \ back}
<1>1. back \in SUBSET Part /\ OriginalSet(d) \in SUBSET Part
  BY DEF BackupSet, OriginalSet
<1>2. CASE Committed(d)
  <2>1. AtNextStart(d) = Snapshot(d)
    BY <1>2, WholeIsNotRefused DEF AtNextStart
  <2>2. Db(d) = [p \in OriginalSet(d) |-> d[Original(p)]]
    BY <1>2 DEF Db, Found, Kept, From
  <2> QED
    BY <2>1, <2>2, SnapshotIsWorth
<1>3. \A p \in back : Original(p)[1] = p
  BY DEF Original
<1>4. /\ OriginalSet(putBack) = OriginalSet(d) \cup back
      /\ \A p \in OriginalSet(d) \cup back :
            putBack[Original(p)] = IF p \in back THEN d[Backup(p)] ELSE d[Original(p)]
  <2>1. ASSUME NEW p \in Part
        PROVE  Original(p) \in DOMAIN putBack <=> p \in OriginalSet(d) \cup back
    BY <1>1, NamesDiffer DEF OriginalSet, Has
  <2>2. ASSUME NEW p \in OriginalSet(d) \cup back
        PROVE  putBack[Original(p)] = IF p \in back THEN d[Backup(p)] ELSE d[Original(p)]
    <3>1. p \in Part /\ Original(p) \in DOMAIN putBack
      BY <1>1, <2>1
    <3>2. (\E q \in back : Original(p) = Original(q)) <=> p \in back
      BY <1>1, <3>1, NamesDiffer
    <3>3. putBack[Original(p)] = IF \E q \in back : Original(p) = Original(q)
                                 THEN d[Backup(Original(p)[1])] ELSE d[Original(p)]
      BY <3>1
    <3> QED
      BY <1>3, <3>2, <3>3
  <2> HIDE DEF putBack
  <2>3. OriginalSet(putBack) = OriginalSet(d) \cup back
    BY <1>1, <2>1 DEF OriginalSet, Has
  <2> HIDE DEF back
  <2> QED
    BY <2>2, <2>3
<1>5. CASE ~Committed(d) /\ EvacuationComplete(d)
  <2> DEFINE e == Without(putBack, newer)
  <2>1. AtNextStart(d) = Snapshot(e)
    BY <1>5, WholeIsNotRefused DEF AtNextStart
  <2> HIDE DEF putBack
  <2>2. /\ DOMAIN e = DOMAIN putBack \ newer
        /\ \A n \in DOMAIN e : e[n] = putBack[n]
    BY DEF Without
  <2>3. OriginalSet(e) = back
    <3>1. \A p \in Part : Original(p) \in newer <=> p \notin back
      BY NamesDiffer
    <3> HIDE DEF newer, e, back
    <3> QED
      BY <1>1, <1>4, <2>2, <3>1 DEF OriginalSet, Has
  <2>4. \A p \in back : e[Original(p)] = d[Backup(p)]
    <3> HIDE DEF newer, e, back
    <3>1. \A p \in back : Original(p) \in DOMAIN e
      BY <2>3 DEF OriginalSet, Has
    <3> QED
      BY <1>4, <2>2, <3>1
  <2>5. Db(d) = [p \in back |-> d[Backup(p)]]
    BY <1>5 DEF Db, Found, Kept, From
  <2> HIDE DEF e, back
  <2>6. Db(d) = [p \in OriginalSet(e) |-> e[Original(p)]]
    BY <2>3, <2>4, <2>5
  <2> QED
    BY <2>1, <2>6, SnapshotIsWorth
<1>6. CASE ~Committed(d) /\ ~EvacuationComplete(d)
  <2>1. AtNextStart(d) = Snapshot(putBack)
    BY <1>6, WholeIsNotRefused DEF AtNextStart
  <2>2. Db(d) = [p \in OriginalSet(d) \cup back |->
                    IF p \in back THEN d[Backup(p)] ELSE d[Original(p)]]
    BY <1>6 DEF Db, Found, Kept, From
  <2> HIDE DEF putBack, back
  <2>3. Db(d) = [p \in OriginalSet(putBack) |-> putBack[Original(p)]]
    BY <1>4, <2>2
  <2> QED
    BY <2>1, <2>3, SnapshotIsWorth
<1> QED
  BY <1>2, <1>5, <1>6

-----------------------------------------------------------------------------
(* What an operation leaves alone.                                          *)
SameManifest(d, e) ==
    /\ Has(e, Manifest) <=> Has(d, Manifest)
    /\ Has(d, Manifest) => e[Manifest] = d[Manifest]

SameBackups(d, e) ==
    /\ BackupSet(e) = BackupSet(d)
    /\ \A p \in BackupSet(d) : e[Backup(p)] = d[Backup(p)]

SameOriginals(d, e) ==
    /\ OriginalSet(e) = OriginalSet(d)
    /\ \A p \in OriginalSet(d) : e[Original(p)] = d[Original(p)]

LEMMA ManifestDecides ==
    ASSUME NEW d, NEW e, SameManifest(d, e)
    PROVE  /\ Readable(e) <=> Readable(d)
           /\ Active(e) <=> Active(d)
           /\ Committed(e) <=> Committed(d)
  BY DEF SameManifest, Readable, Active, Committed

LEMMA SameDb ==
    ASSUME NEW d, NEW e, Found(e) = Found(d),
           \A p \in Found(d) : Kept(e, p) = Kept(d, p)
    PROVE  Db(e) = Db(d)
  BY DEF Db

LEMMA WithoutOne ==
    ASSUME NEW d, NEW name
    PROVE  LET e == Without(d, {name})
           IN  /\ name # Manifest => SameManifest(d, e)
               /\ name \notin {Backup(p) : p \in Part} => SameBackups(d, e)
               /\ name \notin {Original(p) : p \in Part} => SameOriginals(d, e)
               /\ \A p \in Part : name = Backup(p) =>
                     /\ BackupSet(e) = BackupSet(d) \ {p}
                     /\ \A q \in BackupSet(e) : e[Backup(q)] = d[Backup(q)]
               /\ \A p \in Part : name = Original(p) =>
                     /\ OriginalSet(e) = OriginalSet(d) \ {p}
                     /\ \A q \in OriginalSet(e) : e[Original(q)] = d[Original(q)]
<1> DEFINE e == Without(d, {name})
<1>1. /\ DOMAIN e = DOMAIN d \ {name}
      /\ \A n \in DOMAIN d \ {name} : e[n] = d[n]
  BY WithoutNames
<1> HIDE DEF e
<1>2. name # Manifest => SameManifest(d, e)
  BY <1>1 DEF SameManifest, Has
<1>3. name \notin {Backup(p) : p \in Part} => SameBackups(d, e)
  BY <1>1 DEF SameBackups, BackupSet, Has
<1>4. name \notin {Original(p) : p \in Part} => SameOriginals(d, e)
  BY <1>1 DEF SameOriginals, OriginalSet, Has
<1>5. ASSUME NEW p \in Part, name = Backup(p)
      PROVE  /\ BackupSet(e) = BackupSet(d) \ {p}
             /\ \A q \in BackupSet(e) : e[Backup(q)] = d[Backup(q)]
  BY <1>1, <1>5, NamesDiffer DEF BackupSet, Has
<1>6. ASSUME NEW p \in Part, name = Original(p)
      PROVE  /\ OriginalSet(e) = OriginalSet(d) \ {p}
             /\ \A q \in OriginalSet(e) : e[Original(q)] = d[Original(q)]
  BY <1>1, <1>6, NamesDiffer DEF OriginalSet, Has
<1> QED
  BY <1>2, <1>3, <1>4, <1>5, <1>6 DEF e

LEMMA WithOne ==
    ASSUME NEW d, NEW name, NEW content
    PROVE  LET e == With(d, name, content)
           IN  /\ name # Manifest => SameManifest(d, e)
               /\ name = Manifest => Has(e, Manifest) /\ e[Manifest] = content
               /\ name \notin {Backup(p) : p \in Part} => SameBackups(d, e)
               /\ name \notin {Original(p) : p \in Part} => SameOriginals(d, e)
               /\ \A p \in Part : name = Backup(p) =>
                     /\ BackupSet(e) = BackupSet(d) \cup {p}
                     /\ \A q \in BackupSet(e) :
                           e[Backup(q)] = IF q = p THEN content ELSE d[Backup(q)]
               /\ \A p \in Part : name = Original(p) =>
                     /\ OriginalSet(e) = OriginalSet(d) \cup {p}
                     /\ \A q \in OriginalSet(e) :
                           e[Original(q)] = IF q = p THEN content ELSE d[Original(q)]
<1> DEFINE e == With(d, name, content)
<1>1. /\ DOMAIN e = DOMAIN d \cup {name} /\ e[name] = content
      /\ \A n \in DOMAIN d \ {name} : e[n] = d[n]
  BY DEF With
<1> HIDE DEF e
<1>2. name # Manifest => SameManifest(d, e)
  BY <1>1 DEF SameManifest, Has
<1>3. name \notin {Backup(p) : p \in Part} => SameBackups(d, e)
  BY <1>1 DEF SameBackups, BackupSet, Has
<1>4. name \notin {Original(p) : p \in Part} => SameOriginals(d, e)
  BY <1>1 DEF SameOriginals, OriginalSet, Has
<1>5. ASSUME NEW p \in Part, name = Backup(p)
      PROVE  /\ BackupSet(e) = BackupSet(d) \cup {p}
             /\ \A q \in BackupSet(e) :
                   e[Backup(q)] = IF q = p THEN content ELSE d[Backup(q)]
  BY <1>1, <1>5, NamesDiffer DEF BackupSet, Has
<1>6. ASSUME NEW p \in Part, name = Original(p)
      PROVE  /\ OriginalSet(e) = OriginalSet(d) \cup {p}
             /\ \A q \in OriginalSet(e) :
                   e[Original(q)] = IF q = p THEN content ELSE d[Original(q)]
  BY <1>1, <1>6, NamesDiffer DEF OriginalSet, Has
<1>7. name = Manifest => Has(e, Manifest) /\ e[Manifest] = content
  BY <1>1 DEF Has
<1> QED
  BY <1>2, <1>3, <1>4, <1>5, <1>6, <1>7 DEF e

(* Nothing changes but the manifest being written.                          *)
LEMMA SameDirectory ==
    ASSUME NEW d, NEW e, SameManifest(d, e), SameBackups(d, e), SameOriginals(d, e)
    PROVE  /\ Found(e) = Found(d) /\ Db(e) = Db(d)
           /\ EvacuationComplete(e) <=> EvacuationComplete(d)
           /\ Whole(d) => Whole(e)
<1>1. EvacuationComplete(e) <=> EvacuationComplete(d)
  BY ManifestDecides DEF EvacuationComplete, SameManifest, SameBackups, Active, Readable
<1>2. From(e) = From(d)
  BY ManifestDecides DEF From, SameBackups
<1>3. Found(e) = Found(d)
  BY <1>1, ManifestDecides DEF Found, SameBackups, SameOriginals
<1>4. \A p \in Found(d) : Kept(e, p) = Kept(d, p)
  BY <1>2 DEF Found, From, Kept, SameBackups, SameOriginals
<1>5. Db(e) = Db(d)
  BY <1>3, <1>4, SameDb
<1>6. ASSUME Whole(d) PROVE Whole(e)
  <2>1. Has(e, Manifest) => IsRow(e[Manifest])
    BY <1>6 DEF Whole, SameManifest
  <2>2. BackupSet(e) # {} => Has(e, Manifest)
    BY <1>6 DEF Whole, SameManifest, SameBackups
  <2>3. Active(e) => BackupSet(e) \subseteq e[Manifest].originals
    BY <1>6, ManifestDecides DEF Whole, SameManifest, SameBackups, Active, Readable
  <2>4. "main" \in Found(e) /\ Kept(e, "main") \in Content
    BY <1>3, <1>4, <1>6 DEF Whole
  <2> QED
    BY <2>1, <2>2, <2>3, <2>4 DEF Whole
<1> QED
  BY <1>1, <1>3, <1>5, <1>6

LEMMA TempIsIgnored ==
    ASSUME NEW d, NEW e, e = Without(d, {Temp}) \/ \E content : e = With(d, Temp, content)
    PROVE  SameManifest(d, e) /\ SameBackups(d, e) /\ SameOriginals(d, e)
<1>1. Temp # Manifest /\ Temp \notin {Backup(p) : p \in Part}
      /\ Temp \notin {Original(p) : p \in Part}
  BY NamesDiffer
<1>2. CASE e = Without(d, {Temp})
  BY <1>1, <1>2, WithoutOne
<1>3. ASSUME NEW content, e = With(d, Temp, content)
      PROVE  SameManifest(d, e) /\ SameBackups(d, e) /\ SameOriginals(d, e)
  BY <1>1, <1>3, WithOne
<1> QED
  BY <1>2, <1>3

(* The files beside the database are of no use, or the manifest is committed. *)
AtRest(d) == Committed(d) \/ BackupSet(d) = {}

LEMMA AtRestFinds ==
    ASSUME NEW d, Whole(d), AtRest(d)
    PROVE  /\ From(d) = {} /\ Found(d) = OriginalSet(d)
           /\ Db(d) = [p \in OriginalSet(d) |-> d[Original(p)]]
           /\ ~EvacuationComplete(d)
<1>1. From(d) = {}
  BY DEF From, AtRest
<1>2. ~EvacuationComplete(d)
  <2>1. CASE Committed(d)
    BY <2>1 DEF Committed, EvacuationComplete, Active
  <2>2. CASE BackupSet(d) = {}
    BY <2>2 DEF EvacuationComplete, Active, Readable, Whole, IsRow
  <2> QED
    BY <2>1, <2>2 DEF AtRest
<1>3. Found(d) = OriginalSet(d)
  BY <1>2 DEF Found, AtRest
<1> QED
  BY <1>1, <1>2, <1>3 DEF Db, Kept

-----------------------------------------------------------------------------
(* The operations that leave the database as it would be found.             *)
LEMMA ManifestDropped ==
    ASSUME NEW d, Whole(d), BackupSet(d) = {}
    PROVE  LET e == Without(d, {Manifest})
           IN  /\ Whole(e) /\ Db(e) = Db(d)
               /\ BackupSet(e) = {} /\ ~Has(e, Manifest)
<1> DEFINE e == Without(d, {Manifest})
<1>1. ~Has(e, Manifest)
  BY DEF Without, Has
<1>2. SameBackups(d, e) /\ SameOriginals(d, e)
  <2>1. /\ Manifest \notin {Backup(p) : p \in Part}
        /\ Manifest \notin {Original(p) : p \in Part}
    BY NamesDiffer
  <2> QED
    BY <2>1, WithoutOne
<1> HIDE DEF e
<1>3. /\ From(d) = {} /\ Found(d) = OriginalSet(d)
      /\ Db(d) = [p \in OriginalSet(d) |-> d[Original(p)]]
  BY AtRestFinds DEF AtRest
<1>4. From(e) = {} /\ Found(e) = OriginalSet(e) /\ BackupSet(e) = {}
  BY <1>1, <1>2
     DEF From, Found, SameBackups, EvacuationComplete, Active, Committed, Readable
<1>5. Db(e) = Db(d)
  BY <1>2, <1>3, <1>4 DEF Db, Kept, SameOriginals
<1>6. Whole(e)
  BY <1>1, <1>2, <1>3, <1>4 DEF Whole, Active, Readable, Kept, SameOriginals
<1> QED
  BY <1>1, <1>4, <1>5, <1>6 DEF e

LEMMA BackupDropped ==
    ASSUME NEW d, Whole(d), Committed(d), NEW p \in Part
    PROVE  LET e == Without(d, {Backup(p)})
           IN  /\ Whole(e) /\ Db(e) = Db(d) /\ SameManifest(d, e)
               /\ SameOriginals(d, e) /\ BackupSet(e) = BackupSet(d) \ {p}
<1> DEFINE e == Without(d, {Backup(p)})
<1>1. Backup(p) # Manifest /\ Backup(p) \notin {Original(q) : q \in Part}
  BY NamesDiffer
<1>2. SameManifest(d, e) /\ SameOriginals(d, e) /\ BackupSet(e) = BackupSet(d) \ {p}
  BY <1>1, WithoutOne
<1> HIDE DEF e
<1>3. Committed(e) /\ ~Active(e)
  BY <1>2, ManifestDecides DEF Committed, Active
<1>4. /\ From(d) = {} /\ Found(d) = OriginalSet(d)
      /\ From(e) = {} /\ Found(e) = OriginalSet(e)
  BY <1>3 DEF From, Found
<1>5. Found(e) = Found(d) /\ \A q \in Found(d) : Kept(e, q) = Kept(d, q)
  BY <1>2, <1>4 DEF SameOriginals, Kept
<1>6. Whole(e)
  BY <1>2, <1>3, <1>5 DEF Whole, SameManifest
<1> QED
  BY <1>2, <1>5, <1>6, SameDb DEF e

LEMMA ActiveFinds ==
    ASSUME NEW d, Active(d)
    PROVE  /\ From(d) = BackupSet(d) /\ ~Committed(d)
           /\ Found(d) = IF BackupSet(d) = d[Manifest].originals
                         THEN BackupSet(d) ELSE OriginalSet(d) \cup BackupSet(d)
           /\ EvacuationComplete(d) <=> BackupSet(d) = d[Manifest].originals
  BY DEF Active, From, Found, Committed, EvacuationComplete

LEMMA OriginalDropped ==
    ASSUME NEW d, Whole(d), Active(d), NEW p \in Part,
           p \in BackupSet(d) \/ EvacuationComplete(d)
    PROVE  LET e == Without(d, {Original(p)})
           IN  /\ Whole(e) /\ Db(e) = Db(d) /\ SameManifest(d, e)
               /\ SameBackups(d, e) /\ OriginalSet(e) = OriginalSet(d) \ {p}
<1> DEFINE e == Without(d, {Original(p)})
<1>1. Original(p) # Manifest /\ Original(p) \notin {Backup(q) : q \in Part}
  BY NamesDiffer
<1>2. /\ SameManifest(d, e) /\ SameBackups(d, e) /\ OriginalSet(e) = OriginalSet(d) \ {p}
      /\ \A q \in OriginalSet(e) : e[Original(q)] = d[Original(q)]
  BY <1>1, WithoutOne
<1> HIDE DEF e
<1>3. Active(e) /\ e[Manifest] = d[Manifest]
  BY <1>2, ManifestDecides DEF SameManifest, Active, Readable
<1>4. Found(e) = Found(d) /\ From(e) = From(d)
  BY <1>2, <1>3, ActiveFinds DEF SameBackups
<1>5. \A q \in Found(d) : Kept(e, q) = Kept(d, q)
  BY <1>2, <1>3, <1>4, ActiveFinds DEF SameBackups, Kept
<1>6. Whole(e)
  BY <1>2, <1>3, <1>4, <1>5 DEF Whole, SameManifest, SameBackups
<1> QED
  BY <1>2, <1>4, <1>5, <1>6, SameDb DEF e

(* An evacuated file goes back to its place.                                *)
LEMMA FileTakenBack ==
    ASSUME NEW d, Whole(d), Active(d), NEW p \in BackupSet(d),
           EvacuationComplete(d) => OriginalSet(d) \subseteq BackupSet(d)
    PROVE  LET e == Changed(d, PutBack(p))
           IN  /\ Whole(e) /\ Db(e) = Db(d) /\ SameManifest(d, e)
               /\ BackupSet(e) = BackupSet(d) \ {p} /\ ~EvacuationComplete(e)
<1> DEFINE e == Changed(d, PutBack(p))
           m == Without(d, {Backup(p)})
           c == d[Backup(p)]
<1>1. p \in Part /\ Backup(p) \in DOMAIN d
  BY DEF BackupSet, Has
<1>2. e = With(m, Original(p), c)
  BY <1>1, RenamesOne DEF PutBack
<1>3. /\ Backup(p) # Manifest /\ Original(p) # Manifest
      /\ Backup(p) \notin {Original(q) : q \in Part}
      /\ Original(p) \notin {Backup(q) : q \in Part}
  BY <1>1, NamesDiffer
<1>4. /\ SameManifest(d, m) /\ SameOriginals(d, m)
      /\ BackupSet(m) = BackupSet(d) \ {p}
      /\ \A q \in BackupSet(m) : m[Backup(q)] = d[Backup(q)]
  BY <1>1, <1>3, WithoutOne
<1> HIDE DEF m, c
<1>5. LET f == With(m, Original(p), c)
      IN  /\ SameManifest(m, f) /\ SameBackups(m, f)
          /\ OriginalSet(f) = OriginalSet(m) \cup {p}
          /\ \A q \in OriginalSet(f) :
                f[Original(q)] = IF q = p THEN c ELSE m[Original(q)]
  BY <1>1, <1>3, WithOne
<1> HIDE DEF e
<1>6. /\ SameManifest(d, e)
      /\ BackupSet(e) = BackupSet(d) \ {p}
      /\ \A q \in BackupSet(e) : e[Backup(q)] = d[Backup(q)]
      /\ OriginalSet(e) = OriginalSet(d) \cup {p}
      /\ \A q \in OriginalSet(e) :
            e[Original(q)] = IF q = p THEN c ELSE d[Original(q)]
  BY <1>2, <1>4, <1>5 DEF SameManifest, SameBackups, SameOriginals
<1>7. Active(e) /\ e[Manifest] = d[Manifest]
  BY <1>6, ManifestDecides DEF SameManifest, Active, Readable
<1>8. /\ BackupSet(d) \subseteq d[Manifest].originals
      /\ BackupSet(e) # e[Manifest].originals
  BY <1>6, <1>7 DEF Whole
<1>9. Found(e) = OriginalSet(e) \cup BackupSet(e) /\ From(e) = BackupSet(e)
      /\ ~EvacuationComplete(e)
  BY <1>7, <1>8, ActiveFinds
<1>10. Found(e) = Found(d)
  BY <1>6, <1>9, ActiveFinds
<1>11. \A q \in Found(d) : Kept(e, q) = Kept(d, q)
  <2>1. From(d) = BackupSet(d)
    BY ActiveFinds
  <2> QED
    BY <1>6, <1>9, <1>10, <2>1 DEF Kept, c
<1>12. Whole(e)
  BY <1>6, <1>7, <1>8, <1>10, <1>11 DEF Whole, SameManifest
<1> QED
  BY <1>6, <1>9, <1>10, <1>11, <1>12, SameDb DEF e

(* A file of the database is moved aside.                                   *)
LEMMA FileMovedAside ==
    ASSUME NEW d, Whole(d), Active(d), NEW p \in OriginalSet(d),
           d[Manifest].originals = BackupSet(d) \cup OriginalSet(d),
           BackupSet(d) \cap OriginalSet(d) = {}
    PROVE  LET e == Changed(d, Rename(Original(p), Backup(p)))
           IN  /\ Whole(e) /\ Db(e) = Db(d) /\ SameManifest(d, e)
               /\ BackupSet(e) = BackupSet(d) \cup {p}
               /\ OriginalSet(e) = OriginalSet(d) \ {p}
<1> DEFINE e == Changed(d, Rename(Original(p), Backup(p)))
           m == Without(d, {Original(p)})
           c == d[Original(p)]
<1>1. p \in Part /\ Original(p) \in DOMAIN d
  BY DEF OriginalSet, Has
<1>2. e = With(m, Backup(p), c)
  BY <1>1, RenamesOne
<1>3. /\ Backup(p) # Manifest /\ Original(p) # Manifest
      /\ Backup(p) \notin {Original(q) : q \in Part}
      /\ Original(p) \notin {Backup(q) : q \in Part}
  BY <1>1, NamesDiffer
<1>4. /\ SameManifest(d, m) /\ SameBackups(d, m)
      /\ OriginalSet(m) = OriginalSet(d) \ {p}
      /\ \A q \in OriginalSet(m) : m[Original(q)] = d[Original(q)]
  BY <1>1, <1>3, WithoutOne
<1> HIDE DEF m, c
<1>5. LET f == With(m, Backup(p), c)
      IN  /\ SameManifest(m, f) /\ SameOriginals(m, f)
          /\ BackupSet(f) = BackupSet(m) \cup {p}
          /\ \A q \in BackupSet(f) :
                f[Backup(q)] = IF q = p THEN c ELSE m[Backup(q)]
  BY <1>1, <1>3, WithOne
<1> HIDE DEF e
<1>6. /\ SameManifest(d, e)
      /\ BackupSet(e) = BackupSet(d) \cup {p}
      /\ \A q \in BackupSet(e) : e[Backup(q)] = IF q = p THEN c ELSE d[Backup(q)]
      /\ OriginalSet(e) = OriginalSet(d) \ {p}
      /\ \A q \in OriginalSet(e) : e[Original(q)] = d[Original(q)]
  BY <1>2, <1>4, <1>5 DEF SameManifest, SameBackups, SameOriginals
<1>7. Active(e) /\ e[Manifest] = d[Manifest]
  BY <1>6, ManifestDecides DEF SameManifest, Active, Readable
<1>8. p \notin BackupSet(d) /\ BackupSet(d) # d[Manifest].originals
  OBVIOUS
<1>9. Found(d) = d[Manifest].originals /\ From(d) = BackupSet(d)
  BY <1>8, ActiveFinds
<1>10. Found(e) = d[Manifest].originals /\ From(e) = BackupSet(e)
  BY <1>6, <1>7, ActiveFinds
<1>11. \A q \in Found(d) : Kept(e, q) = Kept(d, q)
  BY <1>6, <1>8, <1>9, <1>10 DEF Kept, c
<1>12. Whole(e)
  <2>1. Has(e, Manifest) /\ IsRow(e[Manifest])
    BY <1>7 DEF Whole, Active, Readable
  <2>2. BackupSet(e) \subseteq e[Manifest].originals
    BY <1>6, <1>7
  <2> QED
    BY <1>9, <1>10, <1>11, <2>1, <2>2 DEF Whole
<1> QED
  BY <1>6, <1>9, <1>10, <1>11, <1>12, SameDb DEF e

(* After the evacuation, new files come and go beside the evacuated ones.   *)
LEMMA CompleteIsKept ==
    ASSUME NEW d, NEW e, EvacuationComplete(d), SameManifest(d, e), SameBackups(d, e)
    PROVE  /\ EvacuationComplete(e) /\ Db(e) = Db(d)
           /\ Whole(d) => Whole(e)
<1>1. Active(d)
  BY DEF EvacuationComplete
<1>2. Active(e) /\ e[Manifest] = d[Manifest]
  BY <1>1, ManifestDecides DEF SameManifest, Active, Readable
<1>3. EvacuationComplete(e)
  BY <1>2 DEF EvacuationComplete, SameBackups
<1>4. /\ Found(d) = BackupSet(d) /\ From(d) = BackupSet(d)
      /\ Found(e) = BackupSet(d) /\ From(e) = BackupSet(d)
  BY <1>1, <1>2, <1>3, ActiveFinds DEF SameBackups
<1>5. \A q \in Found(d) : Kept(e, q) = Kept(d, q)
  BY <1>4 DEF Kept, SameBackups
<1>6. ASSUME Whole(d) PROVE Whole(e)
  <2>1. Has(e, Manifest) /\ IsRow(e[Manifest])
    BY <1>1, <1>2, <1>6 DEF Whole, Active, Readable
  <2>2. BackupSet(e) \subseteq e[Manifest].originals
    BY <1>3 DEF EvacuationComplete
  <2>3. "main" \in Found(e) /\ Kept(e, "main") \in Content
    BY <1>4, <1>5, <1>6 DEF Whole
  <2> QED
    BY <2>1, <2>2, <2>3 DEF Whole
<1> QED
  BY <1>3, <1>4, <1>5, <1>6, SameDb

-----------------------------------------------------------------------------
(* A new manifest takes its name.                                           *)
LEMMA TempRenamed ==
    ASSUME NEW d, Has(d, Temp)
    PROVE  LET e == Changed(d, Rename(Temp, Manifest))
           IN  /\ SameBackups(d, e) /\ SameOriginals(d, e)
               /\ Has(e, Manifest) /\ e[Manifest] = d[Temp]
<1> DEFINE e == Changed(d, Rename(Temp, Manifest))
           m == Without(d, {Temp})
<1>1. e = With(m, Manifest, d[Temp])
  BY RenamesOne DEF Has
<1>2. /\ Manifest \notin {Backup(p) : p \in Part}
      /\ Manifest \notin {Original(p) : p \in Part}
  BY NamesDiffer
<1>3. SameBackups(d, m) /\ SameOriginals(d, m)
  BY TempIsIgnored
<1> HIDE DEF m
<1>4. LET f == With(m, Manifest, d[Temp])
      IN  /\ SameBackups(m, f) /\ SameOriginals(m, f)
          /\ Has(f, Manifest) /\ f[Manifest] = d[Temp]
  BY <1>2, WithOne
<1> HIDE DEF e
<1>5. SameBackups(d, e) /\ SameOriginals(d, e)
  BY <1>1, <1>3, <1>4 DEF SameBackups, SameOriginals
<1> QED
  BY <1>1, <1>4, <1>5 DEF e

LEMMA RestoreAnnounced ==
    ASSUME NEW d, Whole(d), BackupSet(d) = {}, ~Has(d, Manifest),
           Has(d, Temp), IsRow(d[Temp]), d[Temp].phase = "active"
    PROVE  LET e == Changed(d, Rename(Temp, Manifest))
           IN  /\ Whole(e) /\ Db(e) = Db(d) /\ BackupSet(e) = {}
               /\ SameOriginals(d, e) /\ Has(e, Manifest) /\ e[Manifest] = d[Temp]
<1> DEFINE e == Changed(d, Rename(Temp, Manifest))
<1>1. /\ SameBackups(d, e) /\ SameOriginals(d, e)
      /\ Has(e, Manifest) /\ e[Manifest] = d[Temp]
  BY TempRenamed
<1> HIDE DEF e
<1>2. /\ Found(d) = OriginalSet(d)
      /\ Db(d) = [p \in OriginalSet(d) |-> d[Original(p)]]
      /\ From(d) = {}
  BY AtRestFinds DEF AtRest
<1>3. Active(e) /\ BackupSet(e) = {}
  BY <1>1, RowsAreNotTorn DEF Active, Readable, SameBackups
<1>4. BackupSet(e) # e[Manifest].originals
  BY <1>1, <1>3 DEF IsRow
<1>5. Found(e) = OriginalSet(e) /\ From(e) = {}
  BY <1>3, <1>4, ActiveFinds
<1>6. Found(e) = Found(d) /\ \A q \in Found(d) : Kept(e, q) = Kept(d, q)
  BY <1>1, <1>2, <1>5 DEF Kept, SameOriginals
<1>7. Whole(e)
  <2>1. "main" \in Found(e) /\ Kept(e, "main") \in Content
    BY <1>6 DEF Whole
  <2>2. IsRow(e[Manifest])
    BY <1>1
  <2> QED
    BY <1>1, <1>3, <2>1, <2>2 DEF Whole
<1> QED
  BY <1>1, <1>3, <1>6, <1>7, SameDb DEF e

(* The files of the restored database.                                      *)
NewGeneration(d, n) ==
    /\ Has(d, Original("main"))
    /\ \A p \in OriginalSet(d) : d[Original(p)] = [gen |-> n, version |-> Chosen]

LEMMA NewGenerationIsChosen ==
    ASSUME NEW d, NEW n, NewGeneration(d, n), Db(d) = [p \in OriginalSet(d) |-> d[Original(p)]]
    PROVE  Worth(Db(d)) = Chosen
<1> DEFINE c == [gen |-> n, version |-> Chosen]
           db == [p \in OriginalSet(d) |-> d[Original(p)]]
<1>1. "main" \in OriginalSet(d)
  BY DEF NewGeneration, OriginalSet, Part
<1>2. DOMAIN db = OriginalSet(d) /\ \A p \in OriginalSet(d) : db[p] = c
  BY DEF NewGeneration
<1>3. c # Torn
  <2>1. DOMAIN c = {"gen", "version"} /\ DOMAIN Torn = {"torn"}
    BY DEF Torn
  <2> QED
    BY <2>1
<1>4. c.version = Chosen
  OBVIOUS
<1> HIDE DEF db, c
<1>5. Worth(db) = Chosen
  BY <1>1, <1>2, <1>3, <1>4 DEF Worth
<1> QED
  BY <1>5 DEF db

LEMMA RestoreCommitted ==
    ASSUME NEW d, Whole(d), EvacuationComplete(d), NEW n \in Nat, NewGeneration(d, n),
           Has(d, Temp), d[Temp] = Commit(d[Manifest])
    PROVE  LET e == Changed(d, Rename(Temp, Manifest))
           IN  /\ Whole(e) /\ Committed(e) /\ Worth(Db(e)) = Chosen
               /\ NewGeneration(e, n) /\ e[Manifest] = Commit(d[Manifest])
<1> DEFINE e == Changed(d, Rename(Temp, Manifest))
<1>1. /\ SameBackups(d, e) /\ SameOriginals(d, e)
      /\ Has(e, Manifest) /\ e[Manifest] = Commit(d[Manifest])
  BY TempRenamed
<1> HIDE DEF e
<1>2. IsRow(d[Manifest])
  BY DEF Whole, EvacuationComplete, Active, Readable
<1>3. IsRow(e[Manifest]) /\ e[Manifest].phase = "committed"
  BY <1>1, <1>2 DEF IsRow, Commit
<1>4. Committed(e) /\ ~Active(e)
  BY <1>1, <1>3, RowsAreNotTorn DEF Committed, Active, Readable
<1>5. From(e) = {} /\ Found(e) = OriginalSet(e)
  BY <1>4 DEF From, Found
<1>6. Db(e) = [p \in OriginalSet(e) |-> e[Original(p)]]
  BY <1>5 DEF Db, Kept
<1>7. NewGeneration(e, n)
  <2>1. "main" \in OriginalSet(d)
    BY DEF NewGeneration, OriginalSet, Part
  <2>2. Has(e, Original("main"))
    BY <1>1, <2>1 DEF SameOriginals, OriginalSet
  <2> QED
    BY <1>1, <2>2 DEF NewGeneration, SameOriginals
<1>8. Worth(Db(e)) = Chosen
  BY <1>6, <1>7, NewGenerationIsChosen
<1>9. Whole(e)
  <2>1. "main" \in OriginalSet(e)
    BY <1>7 DEF NewGeneration, OriginalSet, Part
  <2>2. [gen |-> n, version |-> Chosen] \in Content
    BY DEF Content, Chosen
  <2> QED
    BY <1>1, <1>3, <1>4, <1>5, <1>7, <2>1, <2>2 DEF Whole, Kept, NewGeneration
<1> QED
  BY <1>1, <1>4, <1>7, <1>8, <1>9 DEF e

-----------------------------------------------------------------------------
(* The changes SQLite makes to its own files.                               *)
LEMMA MoreOriginals ==
    ASSUME NEW d, NEW p \in Part, NEW content
    PROVE  LET e == With(d, Original(p), content)
           IN  /\ SameManifest(d, e) /\ SameBackups(d, e)
               /\ OriginalSet(e) = OriginalSet(d) \cup {p}
               /\ \A q \in OriginalSet(e) :
                     e[Original(q)] = IF q = p THEN content ELSE d[Original(q)]
<1>1. Original(p) # Manifest /\ Original(p) \notin {Backup(q) : q \in Part}
  BY NamesDiffer
<1> QED
  BY <1>1, WithOne

(* The two files beside the main one are written.                           *)
LEMMA Sidecars ==
    ASSUME NEW d, NEW content
    PROVE  LET e == With(With(d, Original("wal"), content), Original("shm"), content)
           IN  /\ SameManifest(d, e) /\ SameBackups(d, e)
               /\ OriginalSet(e) = OriginalSet(d) \cup {"wal", "shm"}
               /\ \A q \in OriginalSet(e) :
                     e[Original(q)] = IF q = "main" THEN d[Original(q)] ELSE content
<1> DEFINE m == With(d, Original("wal"), content)
           e == With(m, Original("shm"), content)
<1>1. /\ SameManifest(d, m) /\ SameBackups(d, m)
      /\ OriginalSet(m) = OriginalSet(d) \cup {"wal"}
      /\ \A q \in OriginalSet(m) :
            m[Original(q)] = IF q = "wal" THEN content ELSE d[Original(q)]
  <2>1. "wal" \in Part
    BY DEF Part
  <2> QED
    BY <2>1, MoreOriginals
<1> HIDE DEF m
<1>2. /\ SameManifest(m, e) /\ SameBackups(m, e)
      /\ OriginalSet(e) = OriginalSet(m) \cup {"shm"}
      /\ \A q \in OriginalSet(e) :
            e[Original(q)] = IF q = "shm" THEN content ELSE m[Original(q)]
  <2>1. "shm" \in Part
    BY DEF Part
  <2> QED
    BY <2>1, MoreOriginals
<1> HIDE DEF e
<1>3. SameManifest(d, e) /\ SameBackups(d, e)
  BY <1>1, <1>2 DEF SameManifest, SameBackups
<1>4. OriginalSet(e) = OriginalSet(d) \cup {"wal", "shm"}
  BY <1>1, <1>2
<1>5. ASSUME NEW q \in OriginalSet(e)
      PROVE  e[Original(q)] = IF q = "main" THEN d[Original(q)] ELSE content
  <2>1. q \in Part
    BY DEF OriginalSet
  <2>2. q = "main" \/ q = "wal" \/ q = "shm"
    BY <2>1 DEF Part
  <2>3. q \in OriginalSet(m) \cup {"shm"}
    BY <1>2
  <2> QED
    BY <1>1, <1>2, <2>2, <2>3
<1> QED
  BY <1>3, <1>4, <1>5 DEF e, m

LEMMA DatabaseWritten ==
    ASSUME NEW d, Whole(d), AtRest(d), NEW version \in Nat
    PROVE  LET e == Written(d, version)
           IN  /\ Whole(e) /\ AtRest(e) /\ SameManifest(d, e)
               /\ Worth(Db(e)) = version
               /\ "main" \in Found(e) /\ Kept(e, "main") = Kept(d, "main")
<1> DEFINE e == Written(d, version)
           wal == [gen |-> d[Original("main")].gen, version |-> version]
<1>1. /\ SameManifest(d, e) /\ SameBackups(d, e)
      /\ OriginalSet(e) = OriginalSet(d) \cup {"wal", "shm"}
      /\ \A q \in OriginalSet(e) :
            e[Original(q)] = IF q = "main" THEN d[Original(q)] ELSE wal
  BY Sidecars DEF Written
<1>2. /\ From(d) = {} /\ Found(d) = OriginalSet(d)
  BY AtRestFinds
<1>3. "main" \in OriginalSet(d) /\ d[Original("main")] \in Content
  BY <1>2 DEF Whole, Kept
<1>4. wal \in Content
  BY <1>3 DEF Content
<1>5. wal.version = version /\ wal.gen = d[Original("main")].gen
  OBVIOUS
<1> HIDE DEF e, wal
<1>6. AtRest(e)
  BY <1>1, ManifestDecides DEF AtRest, SameBackups
<1>7. From(e) = {} /\ Found(e) = OriginalSet(e)
  <2>1. From(e) = {}
    BY <1>6 DEF From, AtRest
  <2>2. Committed(e) \/ ~EvacuationComplete(e)
    <3>1. ~EvacuationComplete(d)
      BY AtRestFinds
    <3> QED
      BY <1>1, <3>1, ManifestDecides
         DEF EvacuationComplete, SameManifest, SameBackups, Active, Readable
  <2> QED
    BY <1>6, <2>1, <2>2 DEF Found, AtRest
<1>8. Db(e) = [q \in OriginalSet(e) |-> e[Original(q)]]
  BY <1>7 DEF Db, Kept
<1>9. Kept(e, "main") = Kept(d, "main") /\ Kept(e, "main") \in Content
      /\ "main" \in Found(e)
  BY <1>1, <1>2, <1>3, <1>7 DEF Kept
<1>10. Whole(e)
  <2>1. Has(e, Manifest) => IsRow(e[Manifest])
    BY <1>1 DEF Whole, SameManifest
  <2>2. BackupSet(e) # {} => Has(e, Manifest)
    BY <1>1 DEF Whole, SameManifest, SameBackups
  <2>3. Active(e) => BackupSet(e) \subseteq e[Manifest].originals
    BY <1>1, ManifestDecides DEF Whole, SameManifest, SameBackups, Active, Readable
  <2> QED
    BY <1>9, <2>1, <2>2, <2>3 DEF Whole
<1>11. Worth(Db(e)) = version
  <2> DEFINE db == Db(e)
  <2>1. DOMAIN db = OriginalSet(e) /\ \A q \in OriginalSet(e) : db[q] = e[Original(q)]
    BY <1>8
  <2> HIDE DEF db
  <2>2. db["main"] = d[Original("main")] /\ db["wal"] = wal
    BY <1>1, <1>3, <2>1
  <2>3. \A q \in DOMAIN db : db[q] = d[Original("main")] \/ db[q] = wal
    BY <1>1, <2>1
  <2>4. \A q \in DOMAIN db : db[q] # Torn /\ db[q].gen = db["main"].gen
    BY <1>3, <1>4, <1>5, <2>2, <2>3, ContentIsNotTorn
  <2>5. "main" \in DOMAIN db /\ "wal" \in DOMAIN db
    BY <1>1, <1>3, <2>1
  <2> QED
    BY <1>5, <2>2, <2>4, <2>5 DEF Worth, db
<1> QED
  BY <1>1, <1>6, <1>9, <1>10, <1>11 DEF e

LEMMA DatabaseClosed ==
    ASSUME NEW d, Whole(d), Extra(d) = {}, Worth(Db(d)) \in Nat
    PROVE  LET e == Closed(d)
           IN  /\ Whole(e) /\ Extra(e) = {} /\ Worth(Db(e)) = Worth(Db(d))
               /\ Kept(e, "main").gen = Kept(d, "main").gen
<1> DEFINE e == Closed(d)
           new == [d[Original("main")] EXCEPT !.version = Snapshot(d)]
           db == [p \in OriginalSet(e) |-> e[Original(p)]]
<1>1. BackupSet(d) = {} /\ ~Has(d, Manifest)
  <2>1. \A p \in Part : Backup(p) \notin DOMAIN d
    BY NamesDiffer DEF Extra
  <2>2. Manifest \notin DOMAIN d
    BY NamesDiffer DEF Extra
  <2> QED
    BY <2>1, <2>2 DEF BackupSet, Has
<1>2. /\ From(d) = {} /\ Found(d) = OriginalSet(d)
      /\ Db(d) = [p \in OriginalSet(d) |-> d[Original(p)]]
  BY <1>1, AtRestFinds DEF AtRest
<1>3. Snapshot(d) = Worth(Db(d))
  BY <1>2, SnapshotIsWorth
<1>4. "main" \in OriginalSet(d) /\ d[Original("main")] \in Content
      /\ Kept(d, "main") = d[Original("main")]
  BY <1>2 DEF Whole, Kept
<1>5. new \in Content /\ new.version = Snapshot(d)
      /\ new.gen = d[Original("main")].gen
  BY <1>3, <1>4 DEF Content
<1>6. DOMAIN e = (DOMAIN d \ {Original("wal"), Original("shm")}) \cup {Original("main")}
      /\ e[Original("main")] = new
  BY DEF Closed, With, Without
<1> HIDE DEF e, new
<1>7. "main" \in Part /\ Part = {"main", "wal", "shm"}
  BY DEF Part
<1>8. DOMAIN e = {Original("main")}
  BY <1>6, <1>7 DEF Extra
<1>9. Extra(e) = {}
  BY <1>7, <1>8 DEF Extra
<1>10. BackupSet(e) = {} /\ ~Has(e, Manifest) /\ OriginalSet(e) = {"main"}
  BY <1>7, <1>8, NamesDiffer DEF BackupSet, Has, OriginalSet
<1>11. From(e) = {} /\ Found(e) = {"main"} /\ ~Active(e)
  BY <1>10 DEF From, Found, EvacuationComplete, Active, Committed, Readable
<1>12. Kept(e, "main") = new
  BY <1>6, <1>11 DEF Kept
<1>13. Whole(e)
  BY <1>5, <1>10, <1>11, <1>12 DEF Whole
<1>14. Db(e) = [p \in {"main"} |-> new]
  BY <1>6, <1>11 DEF Db, Kept
<1>15. Worth(Db(e)) = new.version
  <2> DEFINE w == Db(e)
  <2>1. DOMAIN w = {"main"} /\ w["main"] = new
    BY <1>14
  <2> HIDE DEF w
  <2>2. new # Torn
    BY <1>5, ContentIsNotTorn
  <2> QED
    BY <2>1, <2>2 DEF Worth, w
<1> QED
  BY <1>3, <1>4, <1>5, <1>9, <1>12, <1>13, <1>15 DEF e

-----------------------------------------------------------------------------
(* No file is deleted once it has been put back.                            *)
Ordered(s) ==
    \A p \in Part : \A i, j \in 1..Len(s) :
        s[i] = PutBack(p) /\ s[j] = Delete(Original(p)) => j < i

LEMMA DeletionIsNoReturn ==
    \A p, q \in Part : /\ PutBack(p) # Delete(Original(q))
                       /\ PutBack(p) = PutBack(q) => p = q
                       /\ Delete(Original(p)) = Delete(Original(q)) => p = q
<1> SUFFICES ASSUME NEW p \in Part, NEW q \in Part
             PROVE  /\ PutBack(p) # Delete(Original(q))
                    /\ PutBack(p) = PutBack(q) => p = q
                    /\ Delete(Original(p)) = Delete(Original(q)) => p = q
  OBVIOUS
<1>1. /\ PutBack(p).do = "rename" /\ PutBack(p).to = Original(p)
      /\ PutBack(q).to = Original(q)
      /\ Delete(Original(q)).do = "delete" /\ Delete(Original(q)).name = Original(q)
      /\ Delete(Original(p)).name = Original(p)
  BY OperationsDiffer DEF PutBack
<1> QED
  BY <1>1, NamesDiffer

LEMMA OrderedEmpty == Ordered(<<>>)
<1>1. 1..Len(<<>>) = {}
  OBVIOUS
<1> QED
  BY <1>1 DEF Ordered

LEMMA OrderedTogether ==
    ASSUME NEW s, NEW t, IsPlan(s), IsPlan(t), Ordered(s), Ordered(t),
           \A p \in Part : PutBack(p) \in Ops(s) => Delete(Original(p)) \notin Ops(t)
    PROVE  Ordered(s \o t)
<1> DEFINE S == Ops(s) \cup Ops(t)
           u == s \o t
<1>1. s \in Seq(S) /\ t \in Seq(S)
  BY PlanIsSeq, SeqMonotonic
<1>2. /\ Len(s) \in Nat /\ Len(t) \in Nat /\ Len(u) = Len(s) + Len(t)
      /\ \A i \in 1..Len(u) :
            u[i] = IF i <= Len(s) THEN s[i] ELSE t[i - Len(s)]
  <2> HIDE DEF S
  <2> QED
    BY <1>1
<1>3. /\ \A i \in 1..Len(s) : s[i] \in Ops(s)
      /\ \A i \in 1..Len(t) : t[i] \in Ops(t)
  BY <1>1, <1>2, PlanIsSeq
<1> HIDE DEF u
<1>4. ASSUME NEW p \in Part, NEW i \in 1..Len(u), NEW j \in 1..Len(u),
             u[i] = PutBack(p), u[j] = Delete(Original(p))
      PROVE  j < i
  <2>1. CASE i <= Len(s) /\ j <= Len(s)
    <3>1. i \in 1..Len(s) /\ j \in 1..Len(s) /\ s[i] = PutBack(p)
          /\ s[j] = Delete(Original(p))
      BY <1>2, <1>4, <2>1
    <3> QED
      BY <3>1 DEF Ordered
  <2>2. CASE i <= Len(s) /\ j > Len(s)
    <3>1. s[i] = PutBack(p) /\ t[j - Len(s)] = Delete(Original(p))
          /\ i \in 1..Len(s) /\ j - Len(s) \in 1..Len(t)
      BY <1>2, <1>4, <2>2
    <3>2. PutBack(p) \in Ops(s) /\ Delete(Original(p)) \in Ops(t)
      BY <1>3, <3>1
    <3> QED
      BY <3>2
  <2>3. CASE i > Len(s) /\ j <= Len(s)
    BY <1>2, <2>3
  <2>4. CASE i > Len(s) /\ j > Len(s)
    <3>1. t[i - Len(s)] = PutBack(p) /\ t[j - Len(s)] = Delete(Original(p))
          /\ i - Len(s) \in 1..Len(t) /\ j - Len(s) \in 1..Len(t)
      BY <1>2, <1>4, <2>4
    <3>2. j - Len(s) < i - Len(s)
      BY <3>1 DEF Ordered
    <3> QED
      BY <1>2, <3>2
  <2> QED
    BY <1>2, <2>1, <2>2, <2>3, <2>4
<1> QED
  BY <1>4 DEF Ordered, u

LEMMA OrderedTail ==
    ASSUME NEW s, IsPlan(s), s # <<>>, Ordered(s)
    PROVE  /\ Ordered(Tail(s))
           /\ \A p \in Part : Head(s) = PutBack(p)
                                => Delete(Original(p)) \notin Ops(Tail(s))
<1> DEFINE S == Ops(s)
           t == Tail(s)
<1>1. s \in Seq(S)
  BY PlanIsSeq
<1>2. /\ Len(s) \in Nat /\ Len(t) \in Nat /\ Len(t) = Len(s) - 1 /\ t \in Seq(S)
      /\ Head(s) = s[1] /\ 1 \in 1..Len(s)
      /\ \A i \in 1..Len(t) : t[i] = s[i + 1] /\ i + 1 \in 1..Len(s)
  <2> HIDE DEF S
  <2> QED
    BY <1>1
<1> HIDE DEF t
<1>3. Ordered(t)
  <2> SUFFICES ASSUME NEW p \in Part, NEW i \in 1..Len(t), NEW j \in 1..Len(t),
                      t[i] = PutBack(p), t[j] = Delete(Original(p))
               PROVE  j < i
    BY DEF Ordered
  <2>1. s[i + 1] = PutBack(p) /\ s[j + 1] = Delete(Original(p))
        /\ i + 1 \in 1..Len(s) /\ j + 1 \in 1..Len(s)
    BY <1>2
  <2>2. j + 1 < i + 1
    BY <2>1 DEF Ordered
  <2> QED
    BY <2>2
<1>4. ASSUME NEW p \in Part, Head(s) = PutBack(p), Delete(Original(p)) \in Ops(t)
      PROVE  FALSE
  <2>1. PICK j \in 1..Len(t) : t[j] = Delete(Original(p))
    BY <1>2, <1>4, RangeEquality DEF Ops
  <2>2. s[1] = PutBack(p) /\ s[j + 1] = Delete(Original(p)) /\ j + 1 \in 1..Len(s)
    BY <1>2, <1>4, <2>1
  <2>3. j + 1 < 1
    BY <1>2, <2>2 DEF Ordered
  <2> QED
    BY <2>3
<1> QED
  BY <1>3, <1>4 DEF t

(* Plans without deletions, and the plan of one part.                       *)
LEMMA OrderedWithoutDeletion ==
    ASSUME NEW s, IsPlan(s), \A p \in Part : Delete(Original(p)) \notin Ops(s)
    PROVE  Ordered(s)
<1>1. \A j \in 1..Len(s) : s[j] \in Ops(s)
  BY PlanIsSeq
<1> QED
  BY <1>1 DEF Ordered

LEMMA OrderedPart ==
    ASSUME NEW p \in Part
    PROVE  Ordered(<<Delete(Original(p)), PutBack(p), Sync>>)
<1> DEFINE a == <<Delete(Original(p))>>
           b == <<PutBack(p), Sync>>
<1>1. IsPlan(a) /\ Ops(a) = {Delete(Original(p))}
  BY OneOp
<1>2. IsPlan(b) /\ Ops(b) = {PutBack(p), Sync}
  BY TwoOps
<1>3. \A q \in Part : Sync # Delete(Original(q)) /\ Sync # PutBack(q)
  BY OperationsDiffer DEF PutBack
<1>4. Ordered(b)
  BY <1>2, <1>3, DeletionIsNoReturn, OrderedWithoutDeletion
<1>5. Ordered(a)
  <2>1. Len(a) = 1 /\ a[1] = Delete(Original(p))
    OBVIOUS
  <2> HIDE DEF a
  <2> QED
    BY <2>1, DeletionIsNoReturn DEF Ordered
<1>6. <<Delete(Original(p)), PutBack(p), Sync>> = a \o b
  OBVIOUS
<1>7. \A q \in Part : PutBack(q) \in Ops(a) => Delete(Original(q)) \notin Ops(b)
  BY <1>1, DeletionIsNoReturn
<1> HIDE DEF a, b
<1> QED
  BY <1>1, <1>2, <1>4, <1>5, <1>6, <1>7, OrderedTogether

LEMMA OrderedRestoring ==
    ASSUME NEW parts \in SUBSET Part
    PROVE  Ordered(RestoreMissing(parts)) /\ Ordered(PutAllBack(parts))
<1> DEFINE ops == [p \in Part |-> <<Delete(Original(p)),
                                    Rename(Backup(p), Original(p)), Sync>>]
           Of(p) == IF p \in parts THEN ops[p] ELSE <<>>
           last == IF parts = {} THEN <<Sync>> ELSE <<>>
<1>1. \A p \in Part : /\ IsPlan(Of(p)) /\ Ordered(Of(p))
                      /\ Ops(Of(p)) \subseteq {Delete(Original(p)), PutBack(p), Sync}
  <2>1. ASSUME NEW p \in Part
        PROVE  /\ IsPlan(ops[p]) /\ Ordered(ops[p])
               /\ Ops(ops[p]) = {Delete(Original(p)), PutBack(p), Sync}
    <3>1. ops[p] = <<Delete(Original(p)), PutBack(p), Sync>>
      BY DEF PutBack
    <3> HIDE DEF ops
    <3> QED
      BY <3>1, ThreeOps, OrderedPart
  <2> HIDE DEF ops
  <2> QED
    BY <2>1, NoOps, OrderedEmpty
<1>2. RestoreMissing(parts) = (Of("main") \o Of("wal") \o Of("shm")) \o last
  BY DEF RestoreMissing, ForEach
<1>3. IsPlan(last) /\ Ops(last) \subseteq {Sync} /\ Ordered(last)
  <2>1. IsPlan(last) /\ Ops(last) \subseteq {Sync}
    BY OneOp, NoOps
  <2>2. \A p \in Part : Delete(Original(p)) # Sync
    BY OperationsDiffer
  <2> HIDE DEF last
  <2> QED
    BY <2>1, <2>2, OrderedWithoutDeletion
<1>4. "main" \in Part /\ "wal" \in Part /\ "shm" \in Part
  BY DEF Part
<1>5. \A p, q \in Part : /\ PutBack(p) # Delete(Original(q)) /\ PutBack(p) # Sync
                         /\ PutBack(p) = PutBack(q) => p = q
                         /\ Delete(Original(p)) = Delete(Original(q)) => p = q
                         /\ Delete(Original(p)) # Sync
  BY DeletionIsNoReturn, OperationsDiffer DEF PutBack
<1> HIDE DEF Of, last
<1>6. /\ IsPlan(Of("main") \o Of("wal")) /\ Ordered(Of("main") \o Of("wal"))
      /\ Ops(Of("main") \o Of("wal")) = Ops(Of("main")) \cup Ops(Of("wal"))
  <2>1. \A p \in Part : PutBack(p) \in Ops(Of("main"))
                          => Delete(Original(p)) \notin Ops(Of("wal"))
    <3> SUFFICES ASSUME NEW p \in Part, PutBack(p) \in Ops(Of("main")),
                        Delete(Original(p)) \in Ops(Of("wal"))
                 PROVE  FALSE
      OBVIOUS
    <3>1. p = "main"
      BY <1>1, <1>4, <1>5
    <3>2. p = "wal"
      BY <1>1, <1>4, <1>5
    <3> QED
      BY <3>1, <3>2
  <2> QED
    BY <1>1, <1>4, <2>1, Joined, OrderedTogether
<1> DEFINE two == Of("main") \o Of("wal")
<1>7. /\ IsPlan(two \o Of("shm")) /\ Ordered(two \o Of("shm"))
      /\ Ops(two \o Of("shm")) = Ops(two) \cup Ops(Of("shm"))
  <2>1. \A p \in Part : PutBack(p) \in Ops(two)
                          => Delete(Original(p)) \notin Ops(Of("shm"))
    <3> SUFFICES ASSUME NEW p \in Part, PutBack(p) \in Ops(two),
                        Delete(Original(p)) \in Ops(Of("shm"))
                 PROVE  FALSE
      OBVIOUS
    <3>1. p = "main" \/ p = "wal"
      BY <1>1, <1>4, <1>5, <1>6
    <3>2. p = "shm"
      BY <1>1, <1>4, <1>5
    <3> QED
      BY <3>1, <3>2
  <2> HIDE DEF two
  <2> QED
    BY <1>1, <1>4, <1>6, <2>1, Joined, OrderedTogether DEF two
<1> DEFINE three == two \o Of("shm")
<1>8. Ordered(three \o last)
  <2>1. \A p \in Part : Delete(Original(p)) \notin Ops(last)
    BY <1>3, <1>5
  <2> HIDE DEF two, three
  <2> QED
    BY <1>3, <1>7, <2>1, OrderedTogether DEF three
<1>9. Ordered(PutAllBack(parts))
  BY <1>5, PutAllBackOps, OrderedWithoutDeletion
<1> QED
  BY <1>2, <1>8, <1>9

-----------------------------------------------------------------------------
(* What is left of each procedure, in the state it has brought about.       *)

(* Only the manifest is left to delete, or nothing.                         *)
Resting(d, ops) ==
    /\ BackupSet(d) = {}
    /\ \A op \in Ops(ops) : op \in {Delete(Manifest), Delete(Temp), Sync}

(* cleanup_committed: the evacuated files go before the manifest.           *)
Clearing(d, q) ==
    /\ IsPlan(q)
    /\ \A p \in BackupSet(d) : Delete(Backup(p)) \in Ops(q)
    /\ \A op \in Ops(q) : op \in {Sync, Log} \/ \E p \in Part : op = Delete(Backup(p))

Cleaning(d, ops) ==
    \/ Resting(d, ops)
    \/ /\ Committed(d)
       /\ \E q : Clearing(d, q) /\ ops = q \o DeleteManifest

(* The evacuated files go back, each over what is left of the new one.      *)
PutsBack(d, s) ==
    /\ IsPlan(s) /\ Ordered(s)
    /\ \A p \in BackupSet(d) : PutBack(p) \in Ops(s)
    /\ \A op \in Ops(s) : \/ op = Sync
                          \/ \E p \in Part : op = PutBack(p)
                          \/ \E p \in BackupSet(d) : op = Delete(Original(p))

(* Before that, all the files of the new database are removed.              *)
Removes(d, r) ==
    /\ IsPlan(r)
    /\ \A p \in OriginalSet(d) : Delete(Original(p)) \in Ops(r)
    /\ \A op \in Ops(r) : op = Sync \/ \E p \in Part : op = Delete(Original(p))

Restoring(d, ops) ==
    /\ Active(d)
    /\ EvacuationComplete(d) => OriginalSet(d) \subseteq BackupSet(d)
    /\ \E s : PutsBack(d, s) /\ ops = s \o DeleteManifest

Removing(d, ops) ==
    /\ EvacuationComplete(d)
    /\ \E r : \E s : Removes(d, r) /\ PutsBack(d, s) /\ ops = r \o (s \o DeleteManifest)

Undoing(d, ops) ==
    \/ ~Committed(d) /\ Resting(d, ops)
    \/ Restoring(d, ops)
    \/ Removing(d, ops)

(* write_manifest, up to the new name.                                      *)
Writing(d, ops, row) ==
    \/ ops = WriteManifest(row)
    \/ /\ ops \in {<<Flush(Temp), Rename(Temp, Manifest), Sync>>,
                   <<Rename(Temp, Manifest), Sync>>}
       /\ Has(d, Temp) /\ d[Temp] = row

OnlySyncs(ops) == \A op \in Ops(ops) : op = Sync

Announcing(d, ops, n) ==
    LET row == ActiveManifest(n, d)
    IN  /\ BackupSet(d) = {}
        /\ \/ ~Has(d, Manifest) /\ Writing(d, ops, row)
           \/ Has(d, Manifest) /\ d[Manifest] = row /\ OnlySyncs(ops)

Evacuating(d, ops, n) ==
    /\ Active(d) /\ d[Manifest].attempt = n
    /\ d[Manifest].originals = BackupSet(d) \cup OriginalSet(d)
    /\ BackupSet(d) \cap OriginalSet(d) = {}
    /\ \A p \in OriginalSet(d) : Rename(Original(p), Backup(p)) \in Ops(ops)
    /\ \A op \in Ops(ops) : \/ op = Sync
                            \/ \E p \in Part : op = Rename(Original(p), Backup(p))

Installing(d, ops, n) ==
    /\ EvacuationComplete(d) /\ d[Manifest].attempt = n
    /\ \/ OriginalSet(d) = {} /\ ops = Installation(n)
       \/ /\ NewGeneration(d, n)
          /\ \A op \in Ops(ops) : op \in {Flush(Original("main")), Sync, Open}

Committing(d, ops, n) ==
    /\ NewGeneration(d, n) /\ d[Manifest].attempt = n
    /\ \/ EvacuationComplete(d) /\ Writing(d, ops, Commit(d[Manifest]))
       \/ Committed(d) /\ OnlySyncs(ops)

-----------------------------------------------------------------------------
(* One operation of each.                                                   *)
LEMMA SyncChangesNothing ==
    ASSUME NEW d, NEW op, op \in {Sync, Log, Flush(Temp), Flush(Original("main"))}
    PROVE  Changed(d, op) = d
<1>1. op.do \notin {"rename", "delete", "create"}
  BY OperationsDiffer
<1> QED
  BY <1>1, ChangesOne

LEMMA RestingStep ==
    ASSUME NEW d, Whole(d), NEW ops, IsPlan(ops), ops # <<>>, Resting(d, ops)
    PROVE  LET e == Changed(d, Head(ops))
           IN  /\ Whole(e) /\ Db(e) = Db(d) /\ Resting(e, Tail(ops))
               /\ ~Committed(d) => ~Committed(e)
<1> DEFINE op == Head(ops)
           e == Changed(d, op)
<1>1. op \in {Delete(Manifest), Delete(Temp), Sync}
      /\ \A o \in Ops(Tail(ops)) : o \in {Delete(Manifest), Delete(Temp), Sync}
  BY HeadOfPlan DEF Resting
<1>2. BackupSet(d) = {}
  BY DEF Resting
<1> SUFFICES Whole(e) /\ Db(e) = Db(d) /\ BackupSet(e) = {}
             /\ (~Committed(d) => ~Committed(e))
  BY <1>1 DEF Resting
<1>3. CASE op = Delete(Manifest)
  <2>1. e = Without(d, {Manifest})
    BY <1>3, DeletesOne
  <2> HIDE DEF e
  <2>2. Whole(e) /\ Db(e) = Db(d) /\ BackupSet(e) = {} /\ ~Has(e, Manifest)
    BY <1>2, <2>1, ManifestDropped
  <2> QED
    BY <2>2 DEF Committed, Readable
<1>4. CASE op = Delete(Temp)
  <2>1. e = Without(d, {Temp})
    BY <1>4, DeletesOne
  <2> HIDE DEF e
  <2>2. SameManifest(d, e) /\ SameBackups(d, e) /\ SameOriginals(d, e)
    BY <2>1, TempIsIgnored
  <2> QED
    BY <1>2, <2>2, SameDirectory, ManifestDecides DEF SameBackups
<1>5. CASE op = Sync
  <2>1. e = d
    BY <1>5, SyncChangesNothing
  <2> HIDE DEF e
  <2> QED
    BY <1>2, <2>1
<1> HIDE DEF op, e
<1> QED
  BY <1>1, <1>3, <1>4, <1>5

LEMMA EmptyFirst == \A t : IsPlan(t) => <<>> \o t = t
  BY HeadOfJoined, NoOps

LEMMA CleaningStep ==
    ASSUME NEW d, Whole(d), NEW ops, IsPlan(ops), ops # <<>>, Cleaning(d, ops)
    PROVE  LET e == Changed(d, Head(ops))
           IN  Whole(e) /\ Db(e) = Db(d) /\ Cleaning(e, Tail(ops))
<1>1. CASE Resting(d, ops)
  BY <1>1, RestingStep DEF Cleaning
<1>2. CASE ~Resting(d, ops)
  <2>1. Committed(d)
    BY <1>2 DEF Cleaning
  <2>2. PICK q : Clearing(d, q) /\ ops = q \o DeleteManifest
    BY <1>2 DEF Cleaning
  <2>3. q # <<>>
    <3>1. ASSUME q = <<>> PROVE FALSE
      <4>1. ops = DeleteManifest
        BY <2>2, <3>1, EmptyFirst, DeleteManifestOps
      <4>2. BackupSet(d) = {}
        BY <2>2, <3>1, NoOps DEF Clearing
      <4> QED
        BY <1>2, <4>1, <4>2, DeleteManifestOps DEF Resting
    <3> QED
      BY <3>1
  <2>4. /\ Head(ops) = Head(q) /\ Tail(ops) = Tail(q) \o DeleteManifest
        /\ IsPlan(q) /\ IsPlan(Tail(q)) /\ Ops(q) = {Head(q)} \cup Ops(Tail(q))
    BY <2>2, <2>3, HeadOfJoined, HeadOfPlan, DeleteManifestOps DEF Clearing
  <2> DEFINE op == Head(ops)
             e == Changed(d, op)
  <2>5. op \in {Sync, Log} \/ \E p \in Part : op = Delete(Backup(p))
    BY <2>2, <2>4 DEF Clearing
  <2>6. CASE op \in {Sync, Log}
    <3>1. e = d
      BY <2>6, SyncChangesNothing
    <3>2. \A p \in Part : op # Delete(Backup(p))
      BY <2>6, OperationsDiffer
    <3> HIDE DEF op, e
    <3>3. Clearing(d, Tail(q))
      BY <2>2, <2>4, <3>2 DEF Clearing, BackupSet, op
    <3> QED
      BY <2>1, <2>4, <3>1, <3>3 DEF Cleaning, e, op
  <2>7. CASE \E p \in Part : op = Delete(Backup(p))
    <3>1. PICK p \in Part : op = Delete(Backup(p))
      BY <2>7
    <3>2. e = Without(d, {Backup(p)})
      BY <3>1, DeletesOne
    <3> HIDE DEF op, e
    <3>3. /\ Whole(e) /\ Db(e) = Db(d) /\ SameManifest(d, e)
          /\ BackupSet(e) = BackupSet(d) \ {p}
      BY <2>1, <3>2, BackupDropped
    <3>4. Committed(e)
      BY <2>1, <3>3, ManifestDecides
    <3>5. \A r \in Part : Delete(Backup(r)) = op => r = p
      <4>1. \A r \in Part : Delete(Backup(r)).name = Backup(r)
        BY OperationsDiffer
      <4> QED
        BY <3>1, <4>1, NamesDiffer
    <3>6. Clearing(e, Tail(q))
      BY <2>2, <2>4, <3>3, <3>5 DEF Clearing, BackupSet, op
    <3> QED
      BY <2>4, <3>3, <3>4, <3>6 DEF Cleaning, e, op
  <2> HIDE DEF op, e
  <2> QED
    BY <2>5, <2>6, <2>7 DEF op, e
<1> QED
  BY <1>1, <1>2

LEMMA RestoringStep ==
    ASSUME NEW d, Whole(d), NEW ops, IsPlan(ops), ops # <<>>, Restoring(d, ops)
    PROVE  LET e == Changed(d, Head(ops))
           IN  Whole(e) /\ Db(e) = Db(d) /\ Undoing(e, Tail(ops))
<1>1. PICK s : PutsBack(d, s) /\ ops = s \o DeleteManifest
  BY DEF Restoring
<1>2. Active(d) /\ ~Committed(d)
  BY ActiveFinds DEF Restoring
<1>3. CASE s = <<>>
  <2>1. ops = DeleteManifest
    BY <1>1, <1>3, EmptyFirst, DeleteManifestOps
  <2>2. BackupSet(d) = {}
    BY <1>1, <1>3, NoOps DEF PutsBack
  <2>3. Resting(d, ops)
    BY <2>1, <2>2, DeleteManifestOps DEF Resting
  <2> QED
    BY <1>2, <2>3, RestingStep DEF Undoing
<1>4. CASE s # <<>>
  <2>1. /\ Head(ops) = Head(s) /\ Tail(ops) = Tail(s) \o DeleteManifest
        /\ IsPlan(s) /\ IsPlan(Tail(s)) /\ Ops(s) = {Head(s)} \cup Ops(Tail(s))
    BY <1>1, <1>4, HeadOfJoined, HeadOfPlan, DeleteManifestOps DEF PutsBack
  <2>2. /\ Ordered(Tail(s))
        /\ \A p \in Part : Head(s) = PutBack(p) => Delete(Original(p)) \notin Ops(Tail(s))
    BY <1>1, <1>4, OrderedTail DEF PutsBack
  <2> DEFINE op == Head(ops)
             e == Changed(d, op)
             t == Tail(s)
  <2>3. \/ op = Sync
        \/ \E p \in Part : op = PutBack(p)
        \/ \E p \in BackupSet(d) : op = Delete(Original(p))
    BY <1>1, <2>1 DEF PutsBack
  <2>4. \A p \in Part : PutBack(p) # Sync
    BY OperationsDiffer DEF PutBack
  <2>5. BackupSet(d) \subseteq Part
    BY DEF BackupSet
  <2>6. ASSUME \A p \in Part : op # PutBack(p)
        PROVE  PutsBack(d, t)
    <3> HIDE DEF op
    <3> QED
      BY <1>1, <2>1, <2>2, <2>5, <2>6 DEF PutsBack, op
  <2>7. CASE op = Sync
    <3>1. e = d
      BY <2>7, SyncChangesNothing
    <3>2. PutsBack(d, t)
      BY <2>4, <2>6, <2>7
    <3> HIDE DEF op, e
    <3> QED
      BY <1>2, <2>1, <3>1, <3>2 DEF Restoring, Undoing, e, op
  <2>8. CASE \E p \in BackupSet(d) : op = Delete(Original(p))
    <3>1. PICK p \in BackupSet(d) : op = Delete(Original(p))
      BY <2>8
    <3>2. e = Without(d, {Original(p)})
      BY <3>1, DeletesOne
    <3>3. PutsBack(d, t)
      BY <2>5, <2>6, <3>1, DeletionIsNoReturn
    <3> HIDE DEF op, e
    <3>4. /\ Whole(e) /\ Db(e) = Db(d) /\ SameManifest(d, e)
          /\ SameBackups(d, e) /\ OriginalSet(e) = OriginalSet(d) \ {p}
      BY <1>2, <2>5, <3>2, OriginalDropped
    <3>5. Active(e) /\ e[Manifest] = d[Manifest]
      BY <1>2, <3>4, ManifestDecides DEF SameManifest, Active, Readable
    <3>6. EvacuationComplete(e) => OriginalSet(e) \subseteq BackupSet(e)
      BY <3>4, <3>5 DEF Restoring, EvacuationComplete, SameBackups
    <3>7. PutsBack(e, t)
      BY <3>3, <3>4 DEF PutsBack, SameBackups
    <3> QED
      BY <2>1, <3>4, <3>5, <3>6, <3>7 DEF Restoring, Undoing, e, op
  <2>9. ASSUME NEW p \in Part, op = PutBack(p), p \in BackupSet(d)
        PROVE  Whole(e) /\ Db(e) = Db(d) /\ Undoing(e, Tail(ops))
    <3>1. /\ Whole(e) /\ Db(e) = Db(d) /\ SameManifest(d, e)
          /\ BackupSet(e) = BackupSet(d) \ {p} /\ ~EvacuationComplete(e)
      BY <1>2, <2>9, FileTakenBack DEF Restoring
    <3>2. Delete(Original(p)) \notin Ops(t)
      BY <2>1, <2>2, <2>9
    <3>3. \A q \in Part : PutBack(q) = op => q = p
      BY <2>9, DeletionIsNoReturn
    <3> HIDE DEF op, e
    <3>4. Active(e)
      BY <1>2, <3>1, ManifestDecides
    <3>5. \A q \in BackupSet(e) : PutBack(q) \in Ops(t)
      BY <1>1, <2>1, <2>5, <3>1, <3>3 DEF PutsBack, op
    <3>6. ASSUME NEW o \in Ops(t)
          PROVE  \/ o = Sync
                 \/ \E q \in Part : o = PutBack(q)
                 \/ \E q \in BackupSet(e) : o = Delete(Original(q))
      BY <1>1, <2>1, <3>1, <3>2 DEF PutsBack
    <3>7. PutsBack(e, t)
      BY <2>1, <2>2, <3>5, <3>6 DEF PutsBack
    <3> QED
      BY <2>1, <3>1, <3>4, <3>7 DEF Restoring, Undoing, e, op
  <2>10. ASSUME NEW p \in Part, op = PutBack(p), p \notin BackupSet(d)
         PROVE  Whole(e) /\ Db(e) = Db(d) /\ Undoing(e, Tail(ops))
    <3>1. Backup(p) \notin DOMAIN d
      BY <2>10 DEF BackupSet, Has
    <3>2. Changed(d, PutBack(p)) = d
      BY <3>1, RenamesOne DEF PutBack
    <3>3. e = d
      BY <2>10, <3>2
    <3>4. \A q \in Part : PutBack(q) = op => q = p
      BY <2>10, DeletionIsNoReturn
    <3> HIDE DEF op, e
    <3>5. PutsBack(d, t)
      BY <1>1, <2>1, <2>2, <2>5, <2>10, <3>4 DEF PutsBack, op
    <3> QED
      BY <1>2, <2>1, <3>3, <3>5 DEF Restoring, Undoing, e, op
  <2> HIDE DEF op, e
  <2> QED
    BY <2>3, <2>7, <2>8, <2>9, <2>10 DEF op, e
<1> QED
  BY <1>3, <1>4

LEMMA RemovingStep ==
    ASSUME NEW d, Whole(d), NEW ops, IsPlan(ops), ops # <<>>, Removing(d, ops)
    PROVE  LET e == Changed(d, Head(ops))
           IN  Whole(e) /\ Db(e) = Db(d) /\ Undoing(e, Tail(ops))
<1>1. PICK r : \E s : Removes(d, r) /\ PutsBack(d, s) /\ ops = r \o (s \o DeleteManifest)
  BY DEF Removing
<1>2. PICK s : Removes(d, r) /\ PutsBack(d, s) /\ ops = r \o (s \o DeleteManifest)
  BY <1>1
<1>3. IsPlan(r) /\ IsPlan(s) /\ IsPlan(s \o DeleteManifest)
  BY <1>2, Joined, DeleteManifestOps DEF Removes, PutsBack
<1>4. EvacuationComplete(d) /\ Active(d)
  BY DEF Removing, EvacuationComplete
<1>5. CASE r = <<>>
  <2>1. ops = s \o DeleteManifest
    BY <1>2, <1>3, <1>5, EmptyFirst
  <2>2. OriginalSet(d) = {}
    BY <1>2, <1>5, NoOps DEF Removes
  <2>3. Restoring(d, ops)
    BY <1>2, <1>4, <2>1, <2>2 DEF Restoring
  <2> QED
    BY <2>3, RestoringStep
<1>6. CASE r # <<>>
  <2>1. /\ Head(ops) = Head(r) /\ Tail(ops) = Tail(r) \o (s \o DeleteManifest)
        /\ IsPlan(Tail(r)) /\ Ops(r) = {Head(r)} \cup Ops(Tail(r))
    BY <1>2, <1>3, <1>6, HeadOfJoined, HeadOfPlan
  <2> DEFINE op == Head(ops)
             e == Changed(d, op)
  <2>2. op = Sync \/ \E p \in Part : op = Delete(Original(p))
    BY <1>2, <2>1 DEF Removes
  <2>3. CASE op = Sync
    <3>1. e = d
      BY <2>3, SyncChangesNothing
    <3>2. \A p \in Part : op # Delete(Original(p))
      BY <2>3, OperationsDiffer
    <3> HIDE DEF op, e
    <3>3. Removes(d, Tail(r))
      BY <1>2, <2>1, <3>2 DEF Removes, OriginalSet, op
    <3>4. Removing(d, Tail(ops))
      BY <1>2, <1>4, <2>1, <3>3 DEF Removing
    <3> QED
      BY <3>1, <3>4 DEF Undoing, e, op
  <2>4. CASE \E p \in Part : op = Delete(Original(p))
    <3>1. PICK p \in Part : op = Delete(Original(p))
      BY <2>4
    <3>2. e = Without(d, {Original(p)})
      BY <3>1, DeletesOne
    <3>3. \A q \in Part : Delete(Original(q)) = op => q = p
      BY <3>1, DeletionIsNoReturn
    <3> HIDE DEF op, e
    <3>4. /\ Whole(e) /\ Db(e) = Db(d) /\ SameManifest(d, e)
          /\ SameBackups(d, e) /\ OriginalSet(e) = OriginalSet(d) \ {p}
      BY <1>4, <3>2, OriginalDropped
    <3>5. EvacuationComplete(e)
      BY <1>4, <3>4, CompleteIsKept
    <3>6. PutsBack(e, s)
      BY <1>2, <3>4 DEF PutsBack, SameBackups
    <3>7. Removes(e, Tail(r))
      BY <1>2, <2>1, <3>3, <3>4 DEF Removes, OriginalSet, op
    <3>8. Removing(e, Tail(ops))
      BY <2>1, <3>5, <3>6, <3>7 DEF Removing
    <3> QED
      BY <3>4, <3>8 DEF Undoing, e, op
  <2> HIDE DEF op, e
  <2> QED
    BY <2>2, <2>3, <2>4 DEF op, e
<1> QED
  BY <1>5, <1>6

LEMMA UndoingStep ==
    ASSUME NEW d, Whole(d), NEW ops, IsPlan(ops), ops # <<>>, Undoing(d, ops)
    PROVE  LET e == Changed(d, Head(ops))
           IN  Whole(e) /\ Db(e) = Db(d) /\ Undoing(e, Tail(ops))
<1>1. CASE ~Committed(d) /\ Resting(d, ops)
  BY <1>1, RestingStep DEF Undoing
<1>2. CASE Restoring(d, ops)
  BY <1>2, RestoringStep
<1>3. CASE Removing(d, ops)
  BY <1>3, RemovingStep
<1> QED
  BY <1>1, <1>2, <1>3 DEF Undoing

LEMMA WritingStep ==
    ASSUME NEW d, NEW ops, NEW row, Writing(d, ops, row)
    PROVE  LET e == Changed(d, Head(ops))
           IN  \/ /\ SameManifest(d, e) /\ SameBackups(d, e) /\ SameOriginals(d, e)
                  /\ Writing(e, Tail(ops), row)
               \/ /\ Head(ops) = Rename(Temp, Manifest) /\ OnlySyncs(Tail(ops))
                  /\ Has(d, Temp) /\ d[Temp] = row
<1> DEFINE e == Changed(d, Head(ops))
           flush == <<Flush(Temp), Rename(Temp, Manifest), Sync>>
           rename == <<Rename(Temp, Manifest), Sync>>
<1>1. SameManifest(d, d) /\ SameBackups(d, d) /\ SameOriginals(d, d)
  BY DEF SameManifest, SameBackups, SameOriginals
<1>2. CASE ops = WriteManifest(row)
  <2>1. Head(ops) = Create(Temp, row) /\ Tail(ops) = flush
    BY <1>2 DEF WriteManifest
  <2>2. e = With(d, Temp, row)
    BY <2>1, CreatesOne
  <2> HIDE DEF e
  <2>3. SameManifest(d, e) /\ SameBackups(d, e) /\ SameOriginals(d, e)
    BY <2>2, TempIsIgnored
  <2>4. Has(e, Temp) /\ e[Temp] = row
    BY <2>2 DEF With, Has
  <2>5. Writing(e, Tail(ops), row)
    BY <2>1, <2>4 DEF Writing
  <2> QED
    BY <2>3, <2>5 DEF e
<1>3. CASE ops = flush /\ Has(d, Temp) /\ d[Temp] = row
  <2>1. Head(ops) = Flush(Temp) /\ Tail(ops) = rename
    BY <1>3
  <2>2. e = d
    BY <2>1, SyncChangesNothing
  <2> HIDE DEF e
  <2>3. Writing(d, Tail(ops), row)
    BY <1>3, <2>1 DEF Writing
  <2> QED
    BY <1>1, <2>2, <2>3 DEF e
<1>4. CASE ops = rename /\ Has(d, Temp) /\ d[Temp] = row
  <2>1. Head(ops) = Rename(Temp, Manifest) /\ Tail(ops) = <<Sync>>
    BY <1>4
  <2>2. OnlySyncs(Tail(ops))
    BY <2>1, OneOp DEF OnlySyncs
  <2> QED
    BY <1>4, <2>1, <2>2
<1> QED
  BY <1>2, <1>3, <1>4 DEF Writing

LEMMA AnnouncingStep ==
    ASSUME NEW d, Whole(d), NEW n \in Nat, NEW ops, IsPlan(ops), ops # <<>>,
           Announcing(d, ops, n)
    PROVE  LET e == Changed(d, Head(ops))
           IN  Whole(e) /\ Db(e) = Db(d) /\ Announcing(e, Tail(ops), n)
<1> DEFINE row == ActiveManifest(n, d)
           e == Changed(d, Head(ops))
<1>1. BackupSet(d) = {}
  BY DEF Announcing
<1>2. "main" \in OriginalSet(d) /\ OriginalSet(d) \in SUBSET Part
  BY <1>1, AtRestFinds DEF AtRest, Whole, OriginalSet
<1>3. IsRow(row) /\ row.phase = "active"
  BY <1>2 DEF IsRow, ActiveManifest
<1> HIDE DEF e
<1>4. ASSUME SameOriginals(d, e) PROVE ActiveManifest(n, e) = row
  BY <1>4 DEF ActiveManifest, SameOriginals
<1> HIDE DEF row
<1>5. CASE Has(d, Manifest)
  <2>1. d[Manifest] = row /\ OnlySyncs(ops)
    BY <1>5 DEF Announcing, row
  <2>2. Head(ops) = Sync /\ OnlySyncs(Tail(ops))
    BY <2>1, HeadOfPlan DEF OnlySyncs
  <2>3. e = d
    BY <2>2, SyncChangesNothing DEF e
  <2>4. Announcing(d, Tail(ops), n)
    BY <1>1, <1>5, <2>1, <2>2 DEF Announcing, row
  <2> QED
    BY <2>3, <2>4 DEF e
<1>6. CASE ~Has(d, Manifest)
  <2>1. Writing(d, ops, row)
    BY <1>6 DEF Announcing, row
  <2>2. \/ /\ SameManifest(d, e) /\ SameBackups(d, e) /\ SameOriginals(d, e)
           /\ Writing(e, Tail(ops), row)
        \/ /\ Head(ops) = Rename(Temp, Manifest) /\ OnlySyncs(Tail(ops))
           /\ Has(d, Temp) /\ d[Temp] = row
    BY <2>1, WritingStep DEF e
  <2>3. CASE /\ SameManifest(d, e) /\ SameBackups(d, e) /\ SameOriginals(d, e)
             /\ Writing(e, Tail(ops), row)
    <3>1. Whole(e) /\ Db(e) = Db(d)
      BY <2>3, SameDirectory
    <3>2. BackupSet(e) = {} /\ ~Has(e, Manifest)
      BY <1>1, <1>6, <2>3 DEF SameBackups, SameManifest
    <3>3. Announcing(e, Tail(ops), n)
      BY <1>4, <2>3, <3>2 DEF Announcing
    <3> QED
      BY <3>1, <3>3 DEF e
  <2>4. CASE /\ Head(ops) = Rename(Temp, Manifest) /\ OnlySyncs(Tail(ops))
             /\ Has(d, Temp) /\ d[Temp] = row
    <3>1. /\ Whole(e) /\ Db(e) = Db(d) /\ BackupSet(e) = {}
          /\ SameOriginals(d, e) /\ Has(e, Manifest) /\ e[Manifest] = row
      BY <1>1, <1>3, <1>6, <2>4, RestoreAnnounced DEF e
    <3>2. Announcing(e, Tail(ops), n)
      BY <1>4, <2>4, <3>1 DEF Announcing
    <3> QED
      BY <3>1, <3>2 DEF e
  <2> QED
    BY <2>2, <2>3, <2>4
<1> QED
  BY <1>5, <1>6

LEMMA EvacuatingStep ==
    ASSUME NEW d, Whole(d), NEW n, NEW ops, IsPlan(ops), ops # <<>>, Evacuating(d, ops, n)
    PROVE  LET e == Changed(d, Head(ops))
           IN  Whole(e) /\ Db(e) = Db(d) /\ Evacuating(e, Tail(ops), n)
<1> DEFINE op == Head(ops)
           e == Changed(d, op)
           Aside(p) == Rename(Original(p), Backup(p))
<1>1. Ops(ops) = {op} \cup Ops(Tail(ops))
  BY HeadOfPlan
<1>2. \A p, q \in Part : Aside(p) = Aside(q) => p = q
  <2>1. \A p \in Part : Aside(p).from = Original(p)
    BY OperationsDiffer
  <2> HIDE DEF Aside
  <2> QED
    BY <2>1, NamesDiffer
<1>3. \A p \in Part : Aside(p) # Sync
  BY OperationsDiffer
<1>4. OriginalSet(d) \subseteq Part
  BY DEF OriginalSet
<1>5. op = Sync \/ \E p \in Part : op = Aside(p)
  BY <1>1 DEF Evacuating
<1>6. ASSUME e = d, \A p \in OriginalSet(d) : op # Aside(p)
      PROVE  Whole(e) /\ Db(e) = Db(d) /\ Evacuating(e, Tail(ops), n)
  <2> HIDE DEF op, e
  <2>1. Evacuating(d, Tail(ops), n)
    BY <1>1, <1>6 DEF Evacuating
  <2> QED
    BY <1>6, <2>1
<1>7. ASSUME op = Sync
      PROVE  Whole(e) /\ Db(e) = Db(d) /\ Evacuating(e, Tail(ops), n)
  <2>1. e = d
    BY <1>7, SyncChangesNothing
  <2> HIDE DEF op, e, Aside
  <2> QED
    BY <1>3, <1>4, <1>6, <1>7, <2>1
<1>8. ASSUME NEW p \in Part, op = Aside(p), p \notin OriginalSet(d)
      PROVE  Whole(e) /\ Db(e) = Db(d) /\ Evacuating(e, Tail(ops), n)
  <2>1. Original(p) \notin DOMAIN d
    BY <1>8 DEF OriginalSet, Has
  <2>2. Changed(d, Rename(Original(p), Backup(p))) = d
    BY <2>1, RenamesOne
  <2>3. e = d
    BY <1>8, <2>2
  <2> HIDE DEF op, e, Aside
  <2> QED
    BY <1>2, <1>4, <1>6, <1>8, <2>3
<1>9. ASSUME NEW p \in Part, op = Aside(p), p \in OriginalSet(d)
      PROVE  Whole(e) /\ Db(e) = Db(d) /\ Evacuating(e, Tail(ops), n)
  <2>1. /\ Active(d) /\ d[Manifest].attempt = n
        /\ d[Manifest].originals = BackupSet(d) \cup OriginalSet(d)
        /\ BackupSet(d) \cap OriginalSet(d) = {}
        /\ \A q \in OriginalSet(d) : Aside(q) \in Ops(ops)
        /\ \A o \in Ops(ops) : o = Sync \/ \E q \in Part : o = Aside(q)
    BY DEF Evacuating
  <2>2. /\ Whole(e) /\ Db(e) = Db(d) /\ SameManifest(d, e)
        /\ BackupSet(e) = BackupSet(d) \cup {p}
        /\ OriginalSet(e) = OriginalSet(d) \ {p}
    BY <1>9, <2>1, FileMovedAside
  <2> HIDE DEF op, e, Aside
  <2>3. Active(e) /\ e[Manifest] = d[Manifest]
    BY <2>1, <2>2, ManifestDecides DEF SameManifest, Active, Readable
  <2>4. /\ e[Manifest].originals = BackupSet(e) \cup OriginalSet(e)
        /\ BackupSet(e) \cap OriginalSet(e) = {}
    BY <1>9, <2>1, <2>2, <2>3
  <2>5. \A q \in OriginalSet(e) : Aside(q) \in Ops(Tail(ops))
    BY <1>1, <1>2, <1>4, <1>9, <2>1, <2>2
  <2>6. \A o \in Ops(Tail(ops)) : o = Sync \/ \E q \in Part : o = Aside(q)
    BY <1>1, <2>1
  <2>7. Evacuating(e, Tail(ops), n)
    BY <2>1, <2>3, <2>4, <2>5, <2>6 DEF Evacuating, Aside
  <2> QED
    BY <2>2, <2>7
<1> HIDE DEF op, e, Aside
<1> QED
  BY <1>5, <1>7, <1>8, <1>9 DEF op, e

LEMMA MainIsPresent ==
    ASSUME NEW d PROVE Has(d, Original("main")) <=> "main" \in OriginalSet(d)
  BY DEF OriginalSet, Part

LEMMA InstallingStep ==
    ASSUME NEW d, Whole(d), NEW n, NEW ops, IsPlan(ops), ops # <<>>,
           Installing(d, ops, n), Head(ops) # Open
    PROVE  LET e == Changed(d, Head(ops))
           IN  Whole(e) /\ Db(e) = Db(d) /\ Installing(e, Tail(ops), n)
<1> DEFINE op == Head(ops)
           e == Changed(d, op)
           c == [gen |-> n, version |-> Chosen]
<1>1. EvacuationComplete(d) /\ d[Manifest].attempt = n /\ Has(d, Manifest)
  BY DEF Installing, EvacuationComplete, Active, Readable
<1>2. CASE OriginalSet(d) = {} /\ ops = Installation(n)
  <2>1. op = Create(Original("main"), c)
        /\ Tail(ops) = <<Flush(Original("main")), Sync, Open>>
    BY <1>2 DEF Installation
  <2>2. e = With(d, Original("main"), c)
    BY <2>1, CreatesOne
  <2>3. "main" \in Part
    BY DEF Part
  <2> HIDE DEF op, e, c
  <2>4. LET f == With(d, Original("main"), c)
        IN  /\ SameManifest(d, f) /\ SameBackups(d, f)
            /\ OriginalSet(f) = OriginalSet(d) \cup {"main"}
            /\ \A q \in OriginalSet(f) :
                  f[Original(q)] = IF q = "main" THEN c ELSE d[Original(q)]
    BY <2>3, MoreOriginals
  <2>5. /\ SameManifest(d, e) /\ SameBackups(d, e) /\ OriginalSet(e) = {"main"}
        /\ e[Original("main")] = c
    BY <1>2, <2>2, <2>4
  <2>6. /\ Whole(e) /\ Db(e) = Db(d) /\ EvacuationComplete(e)
        /\ e[Manifest].attempt = n
    BY <1>1, <2>5, CompleteIsKept DEF SameManifest
  <2>7. NewGeneration(e, n)
    BY <2>5, MainIsPresent DEF NewGeneration, c
  <2>8. \A o \in Ops(Tail(ops)) : o \in {Flush(Original("main")), Sync, Open}
    BY <2>1, ThreeOps
  <2> QED
    BY <2>6, <2>7, <2>8 DEF Installing, e, op
<1>3. CASE /\ NewGeneration(d, n)
           /\ \A o \in Ops(ops) : o \in {Flush(Original("main")), Sync, Open}
  <2>1. op \in {Flush(Original("main")), Sync}
        /\ \A o \in Ops(Tail(ops)) : o \in {Flush(Original("main")), Sync, Open}
    BY <1>3, HeadOfPlan
  <2>2. e = d
    BY <2>1, SyncChangesNothing
  <2> HIDE DEF op, e
  <2> QED
    BY <1>1, <1>3, <2>1, <2>2 DEF Installing, e, op
<1> QED
  BY <1>2, <1>3 DEF Installing

LEMMA OpeningStep ==
    ASSUME NEW d, Whole(d), NEW n, NEW ops, IsPlan(ops), ops # <<>>,
           Installing(d, ops, n), Head(ops) = Open
    PROVE  /\ Installing(d, Tail(ops), n)
           /\ LET e == Beside(d)
              IN  Whole(e) /\ Db(e) = Db(d) /\ Installing(e, Tail(ops), n)
<1> DEFINE e == Beside(d)
           main == d[Original("main")]
           c == [gen |-> n, version |-> Chosen]
<1>1. EvacuationComplete(d) /\ d[Manifest].attempt = n /\ Has(d, Manifest)
  BY DEF Installing, EvacuationComplete, Active, Readable
<1>2. /\ NewGeneration(d, n)
      /\ \A o \in Ops(ops) : o \in {Flush(Original("main")), Sync, Open}
  <2>1. ops # Installation(n)
    BY OperationsDiffer DEF Installation
  <2> QED
    BY <2>1 DEF Installing
<1>3. \A o \in Ops(Tail(ops)) : o \in {Flush(Original("main")), Sync, Open}
  BY <1>2, HeadOfPlan
<1>4. Installing(d, Tail(ops), n)
  BY <1>1, <1>2, <1>3 DEF Installing
<1>5. "main" \in OriginalSet(d) /\ main = c
  BY <1>2, MainIsPresent DEF NewGeneration
<1>6. e = With(With(d, Original("wal"), main), Original("shm"), main)
  BY DEF Beside
<1> HIDE DEF e, main
<1>7. LET f == With(With(d, Original("wal"), main), Original("shm"), main)
      IN  /\ SameManifest(d, f) /\ SameBackups(d, f)
          /\ OriginalSet(f) = OriginalSet(d) \cup {"wal", "shm"}
          /\ \A q \in OriginalSet(f) :
                f[Original(q)] = IF q = "main" THEN d[Original(q)] ELSE main
  BY Sidecars
<1>8. /\ SameManifest(d, e) /\ SameBackups(d, e)
      /\ "main" \in OriginalSet(e)
      /\ \A q \in OriginalSet(e) : e[Original(q)] = main
  BY <1>5, <1>6, <1>7 DEF main
<1>9. /\ Whole(e) /\ Db(e) = Db(d) /\ EvacuationComplete(e)
      /\ e[Manifest].attempt = n
  BY <1>1, <1>8, CompleteIsKept DEF SameManifest
<1>10. NewGeneration(e, n)
  BY <1>5, <1>8, MainIsPresent DEF NewGeneration
<1>11. Installing(e, Tail(ops), n)
  BY <1>3, <1>9, <1>10 DEF Installing
<1> QED
  BY <1>4, <1>9, <1>11 DEF e

LEMMA CommittingStep ==
    ASSUME NEW d, Whole(d), NEW n \in Nat, NEW ops, IsPlan(ops), ops # <<>>,
           Committing(d, ops, n)
    PROVE  LET e == Changed(d, Head(ops))
           IN  /\ Whole(e) /\ Committing(e, Tail(ops), n)
               /\ \/ Db(e) = Db(d)
                  \/ Worth(Db(e)) = Chosen /\ Committed(e)
<1> DEFINE e == Changed(d, Head(ops))
           row == Commit(d[Manifest])
<1>1. NewGeneration(d, n) /\ d[Manifest].attempt = n
  BY DEF Committing
<1>2. CASE Committed(d) /\ OnlySyncs(ops)
  <2>1. Head(ops) = Sync /\ OnlySyncs(Tail(ops))
    BY <1>2, HeadOfPlan DEF OnlySyncs
  <2>2. e = d
    BY <2>1, SyncChangesNothing
  <2> HIDE DEF e
  <2> QED
    BY <1>1, <1>2, <2>1, <2>2 DEF Committing, e
<1>3. CASE EvacuationComplete(d) /\ Writing(d, ops, row)
  <2> HIDE DEF e
  <2>1. \/ /\ SameManifest(d, e) /\ SameBackups(d, e) /\ SameOriginals(d, e)
           /\ Writing(e, Tail(ops), row)
        \/ /\ Head(ops) = Rename(Temp, Manifest) /\ OnlySyncs(Tail(ops))
           /\ Has(d, Temp) /\ d[Temp] = row
    BY <1>3, WritingStep DEF e
  <2>2. CASE /\ SameManifest(d, e) /\ SameBackups(d, e) /\ SameOriginals(d, e)
             /\ Writing(e, Tail(ops), row)
    <3>1. Whole(e) /\ Db(e) = Db(d) /\ EvacuationComplete(e)
      BY <1>3, <2>2, SameDirectory
    <3>2. e[Manifest] = d[Manifest]
      BY <1>3, <2>2 DEF SameManifest, EvacuationComplete, Active, Readable
    <3>3. NewGeneration(e, n)
      BY <1>1, <2>2, MainIsPresent DEF NewGeneration, SameOriginals
    <3>4. Committing(e, Tail(ops), n)
      BY <1>1, <2>2, <3>1, <3>2, <3>3 DEF Committing
    <3> QED
      BY <3>1, <3>4 DEF e
  <2>3. CASE /\ Head(ops) = Rename(Temp, Manifest) /\ OnlySyncs(Tail(ops))
             /\ Has(d, Temp) /\ d[Temp] = row
    <3>1. /\ Whole(e) /\ Committed(e) /\ Worth(Db(e)) = Chosen
          /\ NewGeneration(e, n) /\ e[Manifest] = row
      BY <1>1, <1>3, <2>3, RestoreCommitted DEF e
    <3>2. row.attempt = n
      <4>1. IsRow(d[Manifest])
        BY <1>3 DEF Whole, EvacuationComplete, Active, Readable
      <4> QED
        BY <1>1, <4>1 DEF IsRow, Commit
    <3>3. Committing(e, Tail(ops), n)
      BY <2>3, <3>1, <3>2 DEF Committing
    <3> QED
      BY <3>1, <3>3 DEF e
  <2> QED
    BY <2>1, <2>2, <2>3
<1> QED
  BY <1>2, <1>3 DEF Committing

-----------------------------------------------------------------------------
(* Each procedure begins, and what its end has brought about.               *)
LEMMA CleaningBegins ==
    ASSUME NEW d, Whole(d), AtRest(d)
    PROVE  Cleaning(d, IF Committed(d) THEN CleanupCommitted(d) ELSE <<>>)
<1>1. BackupSet(d) \in SUBSET Part
  BY DEF BackupSet
<1>2. CASE Committed(d)
  <2> DEFINE q == RemoveBackups(BackupSet(d)) \o <<Log>>
  <2>1. /\ IsPlan(q) /\ Ops(q) = Ops(RemoveBackups(BackupSet(d))) \cup {Log}
        /\ CleanupCommitted(d) = q \o DeleteManifest
    BY CleanupOps
  <2>2. /\ \A p \in BackupSet(d) : Delete(Backup(p)) \in Ops(RemoveBackups(BackupSet(d)))
        /\ \A op \in Ops(RemoveBackups(BackupSet(d))) :
              op = Sync \/ \E p \in BackupSet(d) : op = Delete(Backup(p))
    BY <1>1, RemoveBackupsOps
  <2> HIDE DEF q
  <2>3. Clearing(d, q)
    BY <1>1, <2>1, <2>2 DEF Clearing
  <2> QED
    BY <1>2, <2>1, <2>3 DEF Cleaning
<1>3. CASE ~Committed(d)
  BY <1>3, NoOps DEF Cleaning, Resting, AtRest
<1> QED
  BY <1>2, <1>3

LEMMA CleaningIsAtRest ==
    ASSUME NEW d, NEW ops, Cleaning(d, ops)
    PROVE  AtRest(d)
  BY DEF Cleaning, Resting, AtRest

LEMMA MissingPutsBack ==
    ASSUME NEW d
    PROVE  PutsBack(d, RestoreMissing(BackupSet(d)))
<1>1. BackupSet(d) \in SUBSET Part
  BY DEF BackupSet
<1> QED
  BY <1>1, RestoreMissingOps, OrderedRestoring DEF PutsBack

LEMMA UndoingBegins ==
    ASSUME NEW d, Active(d)
    PROVE  /\ (EvacuationComplete(d) => OriginalSet(d) \subseteq BackupSet(d)) =>
                 /\ Undoing(d, RestoreMissing(BackupSet(d)) \o DeleteManifest)
                 /\ Undoing(d, Rollback(BackupSet(d), FALSE))
           /\ EvacuationComplete(d) =>
                 /\ Undoing(d, RestoreOverNew(BackupSet(d)) \o DeleteManifest)
                 /\ Undoing(d, Rollback(BackupSet(d), TRUE))
<1> DEFINE s == RestoreMissing(BackupSet(d))
           a == PutAllBack(BackupSet(d))
           r == RemoveOriginals
           rs == RemoveOriginals \o <<Sync>>
<1>1. BackupSet(d) \in SUBSET Part /\ OriginalSet(d) \in SUBSET Part
  BY DEF BackupSet, OriginalSet
<1>2. PutsBack(d, s) /\ IsPlan(s)
  BY MissingPutsBack DEF PutsBack
<1>3. PutsBack(d, a) /\ IsPlan(a)
  BY <1>1, PutAllBackOps, OrderedRestoring DEF PutsBack
<1>4. /\ IsPlan(r) /\ Removes(d, r)
      /\ IsPlan(rs) /\ Removes(d, rs)
  <2>1. /\ IsPlan(r)
        /\ \A p \in Part : Delete(Original(p)) \in Ops(r)
        /\ \A op \in Ops(r) : \E p \in Part : op = Delete(Original(p))
    BY RemoveOriginalsOps
  <2>2. IsPlan(rs) /\ Ops(rs) = Ops(r) \cup {Sync}
    BY <2>1, OneOp, Joined
  <2> HIDE DEF r, rs
  <2> QED
    BY <1>1, <2>1, <2>2 DEF Removes
<1>5. IsPlan(DeleteManifest)
  BY DeleteManifestOps
<1>6. RestoreOverNew(BackupSet(d)) = rs \o a
  BY <1>1, RestoreOverNewOps
<1>7. Rollback(BackupSet(d), FALSE) = (<<>> \o s) \o DeleteManifest
      /\ Rollback(BackupSet(d), TRUE) = (r \o s) \o DeleteManifest
  BY DEF Rollback
<1> HIDE DEF s, a, r, rs
<1>8. (rs \o a) \o DeleteManifest = rs \o (a \o DeleteManifest)
  BY <1>3, <1>4, <1>5, JoiningIsAssociative
<1>9. (r \o s) \o DeleteManifest = r \o (s \o DeleteManifest)
  BY <1>2, <1>4, <1>5, JoiningIsAssociative
<1>10. <<>> \o s = s
  BY <1>2, EmptyFirst
<1>11. ASSUME EvacuationComplete(d) => OriginalSet(d) \subseteq BackupSet(d)
       PROVE  Undoing(d, s \o DeleteManifest)
  BY <1>2, <1>11 DEF Undoing, Restoring
<1>12. ASSUME EvacuationComplete(d)
       PROVE  /\ Undoing(d, rs \o (a \o DeleteManifest))
              /\ Undoing(d, r \o (s \o DeleteManifest))
  BY <1>2, <1>3, <1>4, <1>12 DEF Undoing, Removing
<1> QED
  BY <1>6, <1>7, <1>8, <1>9, <1>10, <1>11, <1>12 DEF s, a, r, rs

LEMMA ReconcilingBegins ==
    ASSUME NEW d, Whole(d)
    PROVE  \/ ~Committed(d) /\ Undoing(d, Reconciliation(d))
           \/ KeepsCommitted(d, Reconciliation(d))
<1>1. BackupSet(d) \in SUBSET Part
  BY DEF BackupSet
<1>2. CASE Committed(d)
  <2>1. Reconciliation(d) = RemoveBackups(BackupSet(d))
    <3>1. ~EvacuationComplete(d) /\ ~EvacuationPartial(d) /\ ~NothingToDo(d)
      BY <1>2 DEF Committed, EvacuationComplete, EvacuationPartial, Active, NothingToDo
    <3> QED
      BY <1>2, <3>1 DEF Reconciliation
  <2>2. \A op \in Ops(Reconciliation(d)) :
            op = Sync \/ \E p \in Part : op = Delete(Backup(p))
    BY <1>1, <2>1, RemoveBackupsOps
  <2> QED
    BY <1>2, <2>2 DEF KeepsCommitted
<1>3. CASE EvacuationComplete(d)
  <2>1. Reconciliation(d) = RestoreOverNew(BackupSet(d)) \o DeleteManifest
    <3>1. ~Committed(d) /\ ~EvacuationPartial(d) /\ ~NothingToDo(d)
      BY <1>3 DEF Committed, EvacuationComplete, EvacuationPartial, Active, NothingToDo
    <3> QED
      BY <1>3, <3>1 DEF Reconciliation
  <2>2. Active(d) /\ ~Committed(d)
    BY <1>3 DEF EvacuationComplete, Active, Committed
  <2> QED
    BY <1>3, <2>1, <2>2, UndoingBegins
<1>4. CASE EvacuationPartial(d)
  <2>1. Active(d) /\ ~Committed(d) /\ ~EvacuationComplete(d)
    BY <1>4 DEF EvacuationPartial, Active, Committed
  <2>2. Reconciliation(d) = RestoreMissing(BackupSet(d)) \o DeleteManifest
    <3>1. ~NothingToDo(d)
      BY <1>4 DEF EvacuationPartial, Active, NothingToDo
    <3> QED
      BY <1>4, <2>1, <3>1 DEF Reconciliation
  <2> QED
    BY <2>1, <2>2, UndoingBegins
<1>5. CASE NothingToDo(d)
  <2>1. ~Committed(d) /\ ~EvacuationComplete(d) /\ ~EvacuationPartial(d)
        /\ BackupSet(d) = {}
    BY <1>5 DEF Committed, EvacuationComplete, EvacuationPartial, Active, NothingToDo
  <2>2. Reconciliation(d) = IF Has(d, Manifest) THEN DeleteManifest ELSE <<>>
    BY <1>5, <2>1 DEF Reconciliation
  <2>3. Resting(d, DeleteManifest) /\ Resting(d, <<>>)
    BY <2>1, DeleteManifestOps, NoOps DEF Resting
  <2> QED
    BY <2>1, <2>2, <2>3 DEF Undoing
<1> QED
  BY <1>2, <1>3, <1>4, <1>5, WholeIsNotRefused DEF Refused

LEMMA UndoingEnds ==
    ASSUME NEW d, Undoing(d, <<>>)
    PROVE  ~Committed(d) /\ BackupSet(d) = {}
<1>1. IsPlan(DeleteManifest) /\ DeleteManifest # <<>>
  BY DeleteManifestOps DEF DeleteManifest
<1>2. \A s : IsPlan(s) => s \o DeleteManifest # <<>>
  <2> SUFFICES ASSUME NEW s, IsPlan(s) PROVE s \o DeleteManifest # <<>>
    OBVIOUS
  <2>1. CASE s = <<>>
    BY <1>1, <2>1, EmptyFirst
  <2>2. CASE s # <<>>
    BY <1>1, <2>2, HeadOfJoined
  <2> QED
    BY <2>1, <2>2
<1>3. ~Restoring(d, <<>>)
  BY <1>2 DEF Restoring, PutsBack
<1>4. ~Removing(d, <<>>)
  <2> SUFFICES ASSUME Removing(d, <<>>) PROVE FALSE
    OBVIOUS
  <2>1. PICK r : \E s : Removes(d, r) /\ PutsBack(d, s)
                        /\ <<>> = r \o (s \o DeleteManifest)
    BY DEF Removing
  <2>2. PICK s : Removes(d, r) /\ PutsBack(d, s) /\ <<>> = r \o (s \o DeleteManifest)
    BY <2>1
  <2>3. IsPlan(r) /\ IsPlan(s \o DeleteManifest) /\ s \o DeleteManifest # <<>>
    BY <1>1, <1>2, <2>2, Joined DEF Removes, PutsBack
  <2>4. CASE r = <<>>
    BY <2>2, <2>3, <2>4, EmptyFirst
  <2>5. CASE r # <<>>
    BY <2>2, <2>3, <2>5, HeadOfJoined
  <2> QED
    BY <2>4, <2>5
<1> QED
  BY <1>3, <1>4 DEF Undoing, Resting

LEMMA EvacuatingBegins ==
    ASSUME NEW d, Whole(d), NEW n \in Nat, Announcing(d, <<>>, n)
    PROVE  Evacuating(d, Evacuation(OriginalSet(d)), n)
<1>1. BackupSet(d) = {} /\ OriginalSet(d) \in SUBSET Part
  BY DEF Announcing, OriginalSet
<1>2. \A row : ~Writing(d, <<>>, row)
  BY DEF Writing, WriteManifest
<1>3. Has(d, Manifest) /\ d[Manifest] = ActiveManifest(n, d)
  BY <1>2 DEF Announcing
<1>4. /\ d[Manifest].originals = OriginalSet(d)
      /\ d[Manifest].attempt = n /\ d[Manifest].phase = "active"
  BY <1>3 DEF ActiveManifest
<1>5. Active(d)
  BY <1>3, <1>4, WholeManifest DEF Active
<1> QED
  BY <1>1, <1>4, <1>5, EvacuationOps DEF Evacuating

LEMMA InstallingBegins ==
    ASSUME NEW d, NEW n, Evacuating(d, <<>>, n)
    PROVE  Installing(d, Installation(n), n)
<1>1. OriginalSet(d) = {}
  BY NoOps DEF Evacuating
<1>2. EvacuationComplete(d)
  BY <1>1 DEF Evacuating, EvacuationComplete
<1> QED
  BY <1>1, <1>2 DEF Installing, Evacuating

LEMMA CommittingBegins ==
    ASSUME NEW d, NEW n, Installing(d, <<>>, n)
    PROVE  Committing(d, WriteManifest(Commit(d[Manifest])), n)
<1>1. Installation(n) # <<>>
  BY DEF Installation
<1>2. NewGeneration(d, n)
  BY <1>1 DEF Installing
<1> QED
  BY <1>2 DEF Installing, Committing, Writing

LEMMA CommittingEnds ==
    ASSUME NEW d, NEW n, Committing(d, <<>>, n)
    PROVE  Committed(d) /\ NewGeneration(d, n) /\ d[Manifest].attempt = n
<1>1. \A row : ~Writing(d, <<>>, row)
  BY DEF Writing, WriteManifest
<1> QED
  BY <1>1 DEF Committing

-----------------------------------------------------------------------------
(* The inductive invariant while the power stays.                           *)
Phase == {"ready", "release", "announce", "evacuate", "install", "commit",
          "cleanup", "rollback", "broken", "stopped", "sweep", "reconcile", "complete"}

Database == Worth(Db(files))

Version == 0..MaxWrite + 1

LEMMA Versions ==
    /\ Version \subseteq Nat /\ 1 \in Version /\ Chosen \in Version
    /\ Mixed \notin Version
    /\ \A n \in Nat : n < MaxWrite => n + 1 \in Version
  BY RestoreAssumption DEF Version, Chosen, Mixed

Stage ==
    /\ phase = "ready" => AtRest(files)
    /\ phase = "release" => ClearsUp(files, plan)
    /\ phase \in {"release", "cleanup", "complete"} => Cleaning(files, plan)
    /\ phase = "announce" => Announcing(files, plan, attempt)
    /\ phase = "evacuate" => Evacuating(files, plan, attempt)
    /\ phase = "install" => Installing(files, plan, attempt)
    /\ phase = "commit" => Committing(files, plan, attempt)
    /\ phase = "rollback" => Undoing(files, plan)
    /\ phase = "reconcile" => Undoing(files, plan) \/ KeepsCommitted(files, plan)

Knowledge ==
    /\ phase = "ready" => ~open
    /\ open => Database \in {before, Chosen}
    /\ phase \in {"release", "announce", "evacuate", "install", "rollback"} =>
          open /\ Database = before
    /\ phase = "commit" => open
    /\ phase = "cleanup" => open /\ Database = Chosen

PoweredInv ==
    /\ RemainsInv
    /\ phase \in Phase /\ attempt \in Nat /\ written \in Nat /\ open \in BOOLEAN
    /\ Database \in Version
    /\ Whole(files)
    /\ Stage
    /\ Knowledge

(* The steps the promise allows.                                            *)
Proceeds ==
    /\ UNCHANGED <<written, open, before, answer>>
    /\ \/ Database' = Database
       \/ open /\ Database' \in {before, Chosen}

Writes ==
    /\ ~open /\ written' = written + 1 /\ Database' = written + 1
    /\ UNCHANGED <<open, before, answer>>

Begins ==
    /\ ~open /\ open' = TRUE /\ before' = Database /\ Database' = Database
    /\ UNCHANGED <<written, answer>>

Answers ==
    /\ open /\ open' = FALSE /\ Database' = Database
    /\ \/ answer' = "restored" /\ Database = Chosen
       \/ answer' = "kept" /\ Database = before
       \/ answer' = "restarted" /\ Database \in {before, Chosen}
    /\ UNCHANGED <<written, before>>

AtomicMove == Proceeds \/ Writes \/ Begins \/ Answers

(* Other operations than those of the restore itself.                       *)
LEMMA ClearingNeitherCreatesNorOpens ==
    ASSUME NEW d, NEW ops, IsPlan(ops), Cleaning(d, ops) \/ Undoing(d, ops)
    PROVE  \A op \in Ops(ops) : op.do \notin {"create", "open"}
<1> DEFINE Good(op) == op.do \notin {"create", "open"}
<1>1. /\ \A name : Good(Delete(name))
      /\ \A p \in Part : Good(PutBack(p))
      /\ Good(Sync) /\ Good(Log)
  BY OperationsDiffer DEF PutBack
<1> HIDE DEF Good
<1>2. \A op \in Ops(DeleteManifest) : Good(op)
  BY <1>1, DeleteManifestOps
<1>3. ASSUME Resting(d, ops) PROVE \A op \in Ops(ops) : Good(op)
  BY <1>1, <1>3 DEF Resting
<1>4. ASSUME NEW q, Clearing(d, q), ops = q \o DeleteManifest
      PROVE  \A op \in Ops(ops) : Good(op)
  <2>1. IsPlan(q) /\ \A op \in Ops(q) : Good(op)
    BY <1>1, <1>4 DEF Clearing
  <2> QED
    BY <1>2, <1>4, <2>1, Joined, DeleteManifestOps
<1>5. ASSUME NEW s, PutsBack(d, s)
      PROVE  /\ IsPlan(s \o DeleteManifest)
             /\ \A op \in Ops(s \o DeleteManifest) : Good(op)
  <2>1. IsPlan(s) /\ \A op \in Ops(s) : Good(op)
    BY <1>1, <1>5 DEF PutsBack, BackupSet
  <2> QED
    BY <1>2, <2>1, Joined, DeleteManifestOps
<1>6. ASSUME NEW r, NEW s, Removes(d, r), PutsBack(d, s), ops = r \o (s \o DeleteManifest)
      PROVE  \A op \in Ops(ops) : Good(op)
  <2>1. IsPlan(r) /\ \A op \in Ops(r) : Good(op)
    BY <1>1, <1>6 DEF Removes
  <2> QED
    BY <1>5, <1>6, <2>1, Joined
<1>7. \A op \in Ops(ops) : Good(op)
  BY <1>3, <1>4, <1>5, <1>6 DEF Cleaning, Undoing, Restoring, Removing
<1> QED
  BY <1>7 DEF Good

LEMMA KeepsCommittedStep ==
    ASSUME NEW d, Whole(d), NEW ops, IsPlan(ops), ops # <<>>, KeepsCommitted(d, ops)
    PROVE  LET e == Changed(d, Head(ops))
           IN  Whole(e) /\ Db(e) = Db(d) /\ KeepsCommitted(e, Tail(ops))
<1> DEFINE op == Head(ops)
           e == Changed(d, op)
<1>1. KeepsCommitted(e, Tail(ops))
  BY CommitIsKept
<1>2. op = Sync \/ \E p \in Part : op = Delete(Backup(p))
  BY HeadOfPlan DEF KeepsCommitted
<1>3. ASSUME op = Sync PROVE Whole(e) /\ Db(e) = Db(d)
  <2>1. e = d
    BY <1>3, SyncChangesNothing
  <2> HIDE DEF e
  <2> QED
    BY <2>1
<1>4. ASSUME NEW p \in Part, op = Delete(Backup(p)) PROVE Whole(e) /\ Db(e) = Db(d)
  <2>1. e = Without(d, {Backup(p)})
    BY <1>4, DeletesOne
  <2> HIDE DEF e
  <2> QED
    BY <2>1, BackupDropped DEF KeepsCommitted
<1> HIDE DEF op, e
<1> QED
  BY <1>1, <1>2, <1>3, <1>4 DEF op, e

LEMMA SweepingStep ==
    ASSUME NEW d, Whole(d), NEW op, op = Delete(Temp) \/ op = Sync
    PROVE  Whole(Changed(d, op)) /\ Db(Changed(d, op)) = Db(d)
<1>1. CASE op = Sync
  BY <1>1, SyncChangesNothing
<1>2. CASE op = Delete(Temp)
  <2>1. Changed(d, op) = Without(d, {Temp})
    BY <1>2, DeletesOne
  <2> QED
    BY <2>1, TempIsIgnored, SameDirectory
<1> QED
  BY <1>1, <1>2

LEMMA StageStep ==
    ASSUME PoweredInv, Step
    PROVE  /\ Whole(files') /\ Stage'
           /\ \/ Db(files') = Db(files)
              \/ phase = "commit" /\ Committed(files') /\ Worth(Db(files')) = Chosen
<1> DEFINE op == Head(plan)
           e == Changed(files, op)
<1>1. /\ IsPlan(plan) /\ plan # <<>> /\ plan' = Tail(plan)
      /\ phase' = phase /\ attempt' = attempt
  BY DEF Step, ChangeDirectory, FlushFile, SyncParent, OpenDatabase, LogRestore,
         Performed, restoreVars, PoweredInv, RemainsInv, NamesKnown, AllNamed
<1>2. \/ op.do \in {"rename", "delete", "create"} /\ files' = e
      \/ op.do \in {"flush", "sync", "log"} /\ files' = files
      \/ op.do = "open" /\ (files' = Beside(files) \/ files' = files)
  BY DEF Step, ChangeDirectory, FlushFile, SyncParent, OpenDatabase, MayLeaveFiles,
         DatabaseBecomes, Performed, fileVars, LogRestore
<1>3. op.do # "open" => files' = e
  <2> HIDE DEF op
  <2> QED
    BY <1>2, ChangesOne
<1>4. op \in Ops(plan)
  BY <1>1, HeadOfPlan
<1>5. Whole(files) /\ phase \in Phase /\ attempt \in Nat
  BY DEF PoweredInv
<1>6. phase \notin {"ready", "broken", "stopped"}
  BY <1>1 DEF PoweredInv, RemainsInv
<1>7. Stage
  BY DEF PoweredInv
<1> HIDE DEF op, e
<1>8. CASE phase \in {"release", "cleanup", "complete"}
  <2>1. Cleaning(files, plan)
    BY <1>7, <1>8 DEF Stage
  <2>2. files' = e
    BY <1>1, <1>3, <1>4, <2>1, ClearingNeitherCreatesNorOpens
  <2>3. Whole(e) /\ Db(e) = Db(files) /\ Cleaning(e, plan')
    BY <1>1, <1>5, <2>1, CleaningStep DEF e, op
  <2>4. phase = "release" => ClearsUp(e, plan')
    BY <1>1, <1>7, ClearingGoesOn DEF Stage, e, op
  <2> QED
    BY <1>1, <1>8, <2>2, <2>3, <2>4 DEF Stage
<1>9. CASE phase = "announce"
  <2>1. Announcing(files, plan, attempt)
    BY <1>7, <1>9 DEF Stage
  <2>2. Whole(e) /\ Db(e) = Db(files) /\ Announcing(e, plan', attempt)
    BY <1>1, <1>5, <2>1, AnnouncingStep DEF e, op
  <2>3. op.do # "open"
    <3>1. CASE Has(files, Manifest)
      BY <1>4, <2>1, <3>1, OperationsDiffer DEF Announcing, OnlySyncs
    <3>2. CASE ~Has(files, Manifest)
      <4>1. \E row : Writing(files, plan, row)
        BY <2>1, <3>2 DEF Announcing
      <4>2. op \in {Flush(Temp), Rename(Temp, Manifest)} \/ \E row : op = Create(Temp, row)
        BY <4>1 DEF Writing, WriteManifest, op
      <4> QED
        BY <4>2, OperationsDiffer
    <3> QED
      BY <3>1, <3>2
  <2> QED
    BY <1>1, <1>3, <1>9, <2>2, <2>3 DEF Stage
<1>10. CASE phase = "evacuate"
  <2>1. Evacuating(files, plan, attempt)
    BY <1>7, <1>10 DEF Stage
  <2>2. Whole(e) /\ Db(e) = Db(files) /\ Evacuating(e, plan', attempt)
    BY <1>1, <1>5, <2>1, EvacuatingStep DEF e, op
  <2>3. op.do # "open"
    BY <1>4, <2>1, OperationsDiffer DEF Evacuating
  <2> QED
    BY <1>1, <1>3, <1>10, <2>2, <2>3 DEF Stage
<1>11. CASE phase = "install"
  <2>1. Installing(files, plan, attempt)
    BY <1>7, <1>11 DEF Stage
  <2>2. CASE op = Open
    <3>1. /\ Installing(files, plan', attempt)
          /\ Whole(Beside(files)) /\ Db(Beside(files)) = Db(files)
          /\ Installing(Beside(files), plan', attempt)
      BY <1>1, <1>5, <2>1, <2>2, OpeningStep DEF op
    <3>2. files' = Beside(files) \/ files' = files
      BY <1>2, <2>2, OperationsDiffer
    <3> QED
      BY <1>1, <1>5, <1>11, <3>1, <3>2 DEF Stage
  <2>3. CASE op # Open
    <3>1. Whole(e) /\ Db(e) = Db(files) /\ Installing(e, plan', attempt)
      BY <1>1, <1>5, <2>1, <2>3, InstallingStep DEF e, op
    <3>2. op.do # "open"
      <4>1. op \in {Flush(Original("main")), Sync} \/ \E c : op = Create(Original("main"), c)
        <5>1. CASE plan = Installation(attempt)
          <6>1. op = Create(Original("main"), [gen |-> attempt, version |-> Chosen])
            BY <5>1 DEF Installation, op
          <6> QED
            BY <6>1
        <5>2. CASE plan # Installation(attempt)
          <6>1. \A o \in Ops(plan) : o \in {Flush(Original("main")), Sync, Open}
            BY <2>1, <5>2 DEF Installing
          <6> QED
            BY <1>4, <2>3, <6>1
        <5> QED
          BY <5>1, <5>2
      <4> QED
        BY <4>1, OperationsDiffer
    <3> QED
      BY <1>1, <1>3, <1>11, <3>1, <3>2 DEF Stage
  <2> QED
    BY <2>2, <2>3
<1>12. CASE phase = "commit"
  <2>1. Committing(files, plan, attempt)
    BY <1>7, <1>12 DEF Stage
  <2>2. /\ Whole(e) /\ Committing(e, plan', attempt)
        /\ Db(e) = Db(files) \/ (Worth(Db(e)) = Chosen /\ Committed(e))
    BY <1>1, <1>5, <2>1, CommittingStep DEF e, op
  <2>3. op.do # "open"
    <3>1. CASE OnlySyncs(plan)
      BY <1>4, <3>1, OperationsDiffer DEF OnlySyncs
    <3>2. CASE ~OnlySyncs(plan)
      <4>1. \E row : Writing(files, plan, row)
        BY <2>1, <3>2 DEF Committing
      <4>2. op \in {Flush(Temp), Rename(Temp, Manifest)} \/ \E row : op = Create(Temp, row)
        BY <4>1 DEF Writing, WriteManifest, op
      <4> QED
        BY <4>2, OperationsDiffer
    <3> QED
      BY <3>1, <3>2
  <2> QED
    BY <1>1, <1>3, <1>12, <2>2, <2>3 DEF Stage
<1>13. CASE phase = "rollback" \/ (phase = "reconcile" /\ Undoing(files, plan))
  <2>1. Undoing(files, plan)
    BY <1>7, <1>13 DEF Stage
  <2>2. files' = e
    BY <1>1, <1>3, <1>4, <2>1, ClearingNeitherCreatesNorOpens
  <2>3. Whole(e) /\ Db(e) = Db(files) /\ Undoing(e, plan')
    BY <1>1, <1>5, <2>1, UndoingStep DEF e, op
  <2> QED
    BY <1>1, <1>13, <2>2, <2>3 DEF Stage
<1>14. CASE phase = "reconcile" /\ KeepsCommitted(files, plan)
  <2>1. Whole(e) /\ Db(e) = Db(files) /\ KeepsCommitted(e, plan')
    BY <1>1, <1>5, <1>14, KeepsCommittedStep DEF e, op
  <2>2. op.do # "open"
    BY <1>4, <1>14, OperationsDiffer DEF KeepsCommitted
  <2> QED
    BY <1>1, <1>3, <1>14, <2>1, <2>2 DEF Stage
<1>15. CASE phase = "sweep"
  <2>1. op = Delete(Temp) \/ op = Sync
    BY <1>4, <1>15 DEF PoweredInv, RemainsInv
  <2>2. Whole(e) /\ Db(e) = Db(files)
    BY <1>5, <2>1, SweepingStep DEF e
  <2>3. op.do # "open"
    BY <2>1, OperationsDiffer
  <2> QED
    BY <1>1, <1>3, <1>15, <2>2, <2>3 DEF Stage
<1> QED
  BY <1>5, <1>6, <1>7, <1>8, <1>9, <1>10, <1>11, <1>12, <1>13, <1>14, <1>15
     DEF Phase, Stage


-----------------------------------------------------------------------------
(* A step of the program, and the commands.                                 *)
LEMMA StepMoves ==
    ASSUME PoweredInv, Step
    PROVE  PoweredInv' /\ AtomicMove
<1>1. UNCHANGED <<written, open, before, answer, attempt, phase>>
  BY DEF Step, ChangeDirectory, FlushFile, SyncParent, OpenDatabase, LogRestore, restoreVars
<1>2. RemainsInv'
  <2>1. RemainsInv
    BY DEF PoweredInv
  <2> QED
    BY <2>1, StepRemains
<1>3. /\ Whole(files') /\ Stage'
      /\ \/ Database' = Database
         \/ phase = "commit" /\ Database' = Chosen
  BY StageStep DEF Database
<1>4. Knowledge /\ Database \in Version /\ phase \in Phase /\ attempt \in Nat
      /\ written \in Nat /\ open \in BOOLEAN
  BY DEF PoweredInv
<1>5. Chosen \in Version
  BY Versions
<1> HIDE DEF Database
<1>6. Knowledge' /\ AtomicMove
  <2>1. CASE Database' = Database
    <3>1. Knowledge'
      BY <1>1, <1>4, <2>1 DEF Knowledge
    <3>2. Proceeds
      BY <1>1, <2>1 DEF Proceeds
    <3> QED
      BY <3>1, <3>2 DEF AtomicMove
  <2>2. CASE phase = "commit" /\ Database' = Chosen
    <3>1. open
      BY <1>4, <2>2 DEF Knowledge
    <3>2. Knowledge'
      BY <1>1, <2>2, <3>1 DEF Knowledge
    <3>3. Proceeds
      BY <1>1, <2>2, <3>1 DEF Proceeds
    <3> QED
      BY <3>2, <3>3 DEF AtomicMove
  <2> QED
    BY <1>3, <2>1, <2>2
<1>7. Database' \in Version
  BY <1>3, <1>4, <1>5
<1> QED
  BY <1>1, <1>2, <1>3, <1>4, <1>6, <1>7 DEF PoweredInv

(* A move that changes no file, and what it has to establish.               *)
LEMMA FilesStay ==
    ASSUME PoweredInv, RemainsInv', UNCHANGED <<files, written>>,
           phase' \in Phase, attempt' \in Nat, open' \in BOOLEAN, Stage', Knowledge'
    PROVE  PoweredInv' /\ Database' = Database
<1>1. Database' = Database
  BY DEF Database
<1>2. Whole(files')
  BY DEF PoweredInv
<1>3. written' \in Nat /\ Database' \in Version
  BY <1>1 DEF PoweredInv
<1> QED
  BY <1>1, <1>2, <1>3 DEF PoweredInv

LEMMA SnapshotIsTheDatabase ==
    ASSUME NEW d, Whole(d), AtRest(d)
    PROVE  Snapshot(d) = Worth(Db(d))
  BY AtRestFinds, SnapshotIsWorth

LEMMA WriteMoves ==
    ASSUME PoweredInv, WriteSnapshot
    PROVE  PoweredInv' /\ AtomicMove
<1>1. /\ phase = "ready" /\ phase' = "ready" /\ plan' = plan
      /\ written < MaxWrite /\ written' = written + 1
      /\ files' = Written(files, written + 1)
      /\ UNCHANGED <<attempt, open, before, answer>>
  BY DEF WriteSnapshot, DatabaseBecomes
<1>2. RemainsInv'
  BY CommandRemains DEF PoweredInv
<1>3. /\ Whole(files) /\ AtRest(files) /\ ~open /\ written \in Nat
      /\ attempt \in Nat /\ open \in BOOLEAN
  BY <1>1 DEF PoweredInv, Stage, Knowledge
<1>4. written + 1 \in Nat /\ written + 1 \in Version
  BY <1>1, <1>3, Versions
<1>5. Whole(files') /\ AtRest(files') /\ Database' = written + 1
  BY <1>1, <1>3, <1>4, DatabaseWritten DEF Database
<1> HIDE DEF Database
<1>6. Stage'
  BY <1>1, <1>5 DEF Stage
<1>7. Knowledge'
  BY <1>1, <1>3 DEF Knowledge
<1>8. AtomicMove
  BY <1>1, <1>3, <1>5 DEF AtomicMove, Writes
<1>9. /\ phase' \in Phase /\ attempt' \in Nat /\ written' \in Nat /\ open' \in BOOLEAN
      /\ Database' \in Version
  BY <1>1, <1>3, <1>4, <1>5 DEF Phase
<1> QED
  <2>1. PoweredInv'
    BY <1>2, <1>5, <1>6, <1>7, <1>9 DEF PoweredInv
  <2> QED
    BY <1>8, <2>1

LEMMA RefuseMoves ==
    ASSUME PoweredInv, RefuseRestore
    PROVE  PoweredInv' /\ AtomicMove
<1>1. /\ phase = "ready" /\ phase' = "broken"
      /\ UNCHANGED <<files, written, attempt, open, before, answer>>
  BY DEF RefuseRestore, EnterPhase, fileVars, restoreVars
<1>2. RemainsInv'
  BY CommandRemains DEF PoweredInv, RestoreCommand
<1>3. Stage'
  BY <1>1 DEF Stage
<1>4. Database' = Database
  BY <1>1 DEF Database
<1>5. Knowledge /\ attempt \in Nat /\ open \in BOOLEAN
  BY DEF PoweredInv
<1> HIDE DEF Database
<1>6. Knowledge'
  BY <1>1, <1>4, <1>5 DEF Knowledge
<1>7. phase' \in Phase /\ attempt' \in Nat /\ open' \in BOOLEAN
  BY <1>1, <1>5 DEF Phase
<1>8. PoweredInv'
  BY <1>1, <1>2, <1>3, <1>6, <1>7, FilesStay
<1>9. Proceeds
  <2>1. UNCHANGED <<written, open, before, answer>>
    BY <1>1
  <2> QED
    BY <1>4, <2>1 DEF Proceeds
<1> QED
  BY <1>8, <1>9 DEF AtomicMove

LEMMA NoResidue ==
    ASSUME NEW d, Whole(d), DOMAIN d \subseteq Name, ~Residue(d), ~Committed(d)
    PROVE  Extra(d) = {}
<1>1. Temp \notin DOMAIN d /\ Manifest \notin DOMAIN d /\ BackupSet(d) = {}
  BY WholeManifest DEF Residue, Has, Whole
<1>2. \A p \in Part : Backup(p) \notin DOMAIN d
  BY <1>1 DEF BackupSet, Has
<1> QED
  BY <1>1, <1>2 DEF Extra, Name

LEMMA BeginMoves ==
    ASSUME PoweredInv, BeginRestore
    PROVE  PoweredInv' /\ AtomicMove
<1> DEFINE ops == IF Committed(files) THEN CleanupCommitted(files) ELSE <<>>
<1>1. /\ phase = "ready" /\ phase' = "release" /\ plan' = ops /\ ~Residue(files)
      /\ open' = TRUE /\ before' = Snapshot(files)
      /\ UNCHANGED <<files, written, attempt, answer>>
  BY DEF BeginRestore, EnterPhase, fileVars
<1>2. RemainsInv'
  BY CommandRemains DEF PoweredInv, RestoreCommand
<1>3. /\ Whole(files) /\ AtRest(files) /\ ~open /\ attempt \in Nat
      /\ DOMAIN files \subseteq Name
  BY <1>1 DEF PoweredInv, Stage, Knowledge, RemainsInv, NamesKnown
<1>4. Cleaning(files, ops)
  BY <1>3, CleaningBegins
<1>5. ClearsUp(files, ops)
  <2>1. CASE Committed(files)
    BY <1>3, <2>1, CleanupClearsUp
  <2>2. CASE ~Committed(files)
    <3>1. Extra(files) = {}
      BY <1>1, <1>3, <2>2, NoResidue
    <3>2. ClearsUp(files, <<>>)
      BY <3>1, NoOps DEF ClearsUp
    <3> QED
      BY <2>2, <3>2
  <2> QED
    BY <2>1, <2>2
<1> HIDE DEF ops
<1>6. Stage'
  BY <1>1, <1>4, <1>5 DEF Stage
<1>7. before' = Database /\ Database' = Database
  BY <1>1, <1>3, SnapshotIsTheDatabase DEF Database
<1> HIDE DEF Database
<1>8. Knowledge'
  BY <1>1, <1>7 DEF Knowledge
<1>9. phase' \in Phase /\ attempt' \in Nat /\ open' \in BOOLEAN
  BY <1>1, <1>3 DEF Phase
<1>10. PoweredInv'
  BY <1>1, <1>2, <1>6, <1>8, <1>9, FilesStay
<1>11. Begins
  BY <1>1, <1>3, <1>7 DEF Begins
<1> QED
  BY <1>10, <1>11 DEF AtomicMove


(* The next phase of the restore, no file being changed.                    *)
LEMMA PhaseMoves ==
    ASSUME PoweredInv, RestoreCommand \/ StartUp \/ Start \/ Quit \/ Kill,
           UNCHANGED <<files, written, attempt, open, before, answer>>,
           phase' \in Phase, Stage',
           phase' = "ready" => ~open,
           phase' \in {"release", "announce", "evacuate", "install", "rollback"} =>
               open /\ Database = before,
           phase' = "commit" => open,
           phase' = "cleanup" => open /\ Database = Chosen
    PROVE  PoweredInv' /\ AtomicMove
<1>1. RemainsInv'
  BY CommandRemains DEF PoweredInv
<1>2. Database' = Database
  BY DEF Database
<1>3. attempt \in Nat /\ open \in BOOLEAN /\ (open => Database \in {before, Chosen})
  BY DEF PoweredInv, Knowledge
<1> HIDE DEF Database
<1>4. Knowledge'
  BY <1>2, <1>3 DEF Knowledge
<1>5. Proceeds
  BY <1>2 DEF Proceeds
<1>6. PoweredInv'
  BY <1>1, <1>3, <1>4, FilesStay
<1> QED
  BY <1>5, <1>6 DEF AtomicMove

LEMMA PlanOfPhase ==
    ASSUME PoweredInv
    PROVE  /\ Whole(files) /\ Stage /\ Knowledge /\ attempt \in Nat
           /\ phase \in {"ready", "broken", "stopped"} => plan = <<>>
  BY DEF PoweredInv, RemainsInv

LEMMA EvacuateMoves ==
    ASSUME PoweredInv, Evacuate
    PROVE  PoweredInv' /\ AtomicMove
<1>1. /\ phase = "announce" /\ plan = <<>> /\ phase' = "evacuate"
      /\ plan' = Evacuation(OriginalSet(files))
      /\ UNCHANGED <<files, written, attempt, open, before, answer>>
  BY DEF Evacuate, Done, EnterPhase, fileVars, restoreVars
<1>2. Announcing(files, <<>>, attempt)
  BY <1>1, PlanOfPhase DEF Stage
<1>3. Evacuating(files, Evacuation(OriginalSet(files)), attempt)
  BY <1>2, PlanOfPhase, EvacuatingBegins
<1>4. Stage'
  BY <1>1, <1>3 DEF Stage
<1>5. open /\ Database = before
  BY <1>1, PlanOfPhase DEF Knowledge
<1> QED
  BY <1>1, <1>4, <1>5, PhaseMoves DEF RestoreCommand, Phase

LEMMA InstallMoves ==
    ASSUME PoweredInv, Install
    PROVE  PoweredInv' /\ AtomicMove
<1>1. /\ phase = "evacuate" /\ plan = <<>> /\ phase' = "install"
      /\ plan' = Installation(attempt)
      /\ UNCHANGED <<files, written, attempt, open, before, answer>>
  BY DEF Install, Done, EnterPhase, fileVars, restoreVars
<1>2. Evacuating(files, <<>>, attempt)
  BY <1>1, PlanOfPhase DEF Stage
<1>3. Installing(files, Installation(attempt), attempt)
  BY <1>2, InstallingBegins
<1>4. Stage'
  BY <1>1, <1>3 DEF Stage
<1>5. open /\ Database = before
  BY <1>1, PlanOfPhase DEF Knowledge
<1> QED
  BY <1>1, <1>4, <1>5, PhaseMoves DEF RestoreCommand, Phase

LEMMA CommitMoves ==
    ASSUME PoweredInv, CommitRestore
    PROVE  PoweredInv' /\ AtomicMove
<1>1. /\ phase = "install" /\ plan = <<>> /\ phase' = "commit"
      /\ plan' = WriteManifest(Commit(files[Manifest]))
      /\ UNCHANGED <<files, written, attempt, open, before, answer>>
  BY DEF CommitRestore, Done, EnterPhase, fileVars, restoreVars
<1>2. Installing(files, <<>>, attempt)
  BY <1>1, PlanOfPhase DEF Stage
<1>3. Committing(files, WriteManifest(Commit(files[Manifest])), attempt)
  BY <1>2, CommittingBegins
<1>4. Stage'
  BY <1>1, <1>3 DEF Stage
<1>5. open
  BY <1>1, PlanOfPhase DEF Knowledge
<1> QED
  BY <1>1, <1>4, <1>5, PhaseMoves DEF RestoreCommand, Phase

LEMMA CleanUpMoves ==
    ASSUME PoweredInv, CleanUp
    PROVE  PoweredInv' /\ AtomicMove
<1>1. /\ phase = "commit" /\ plan = <<>> /\ phase' = "cleanup"
      /\ plan' = CleanupCommitted(files)
      /\ UNCHANGED <<files, written, attempt, open, before, answer>>
  BY DEF CleanUp, Done, EnterPhase, fileVars, restoreVars
<1>2. Committing(files, <<>>, attempt)
  BY <1>1, PlanOfPhase DEF Stage
<1>3. Committed(files) /\ NewGeneration(files, attempt)
  BY <1>2, CommittingEnds
<1>4. AtRest(files)
  BY <1>3 DEF AtRest
<1>5. Cleaning(files, CleanupCommitted(files))
  BY <1>3, <1>4, PlanOfPhase, CleaningBegins
<1>6. Stage'
  BY <1>1, <1>5 DEF Stage
<1>7. Database = Chosen
  BY <1>3, <1>4, PlanOfPhase, AtRestFinds, NewGenerationIsChosen DEF Database
<1>8. open
  BY <1>1, PlanOfPhase DEF Knowledge
<1> HIDE DEF Database
<1> QED
  BY <1>1, <1>6, <1>7, <1>8, PhaseMoves DEF RestoreCommand, Phase

LEMMA StartMoves ==
    ASSUME PoweredInv, Start \/ Quit \/ Kill
    PROVE  PoweredInv' /\ AtomicMove
<1>1. /\ phase' \in {"sweep", "stopped"}
      /\ UNCHANGED <<files, written, attempt, open, before, answer>>
  BY DEF Start, Quit, Kill, EnterPhase, fileVars, restoreVars
<1>2. Stage'
  BY <1>1 DEF Stage
<1> QED
  BY <1>1, <1>2, PhaseMoves DEF Phase

LEMMA ReconcileMoves ==
    ASSUME PoweredInv, Reconcile
    PROVE  PoweredInv' /\ AtomicMove
<1>1. ~Refused(files)
  BY PlanOfPhase, WholeIsNotRefused
<1>2. /\ phase' = "reconcile" /\ plan' = Reconciliation(files)
      /\ UNCHANGED <<files, written, attempt, open, before, answer>>
  BY <1>1 DEF Reconcile, EnterPhase, fileVars, restoreVars
<1>3. Undoing(files, Reconciliation(files)) \/ KeepsCommitted(files, Reconciliation(files))
  BY PlanOfPhase, ReconcilingBegins
<1>4. Stage'
  BY <1>2, <1>3 DEF Stage
<1> QED
  BY <1>2, <1>4, PhaseMoves DEF StartUp, Phase

LEMMA CompleteMoves ==
    ASSUME PoweredInv, CompleteReconciled
    PROVE  PoweredInv' /\ AtomicMove
<1> DEFINE ops == IF Committed(files) THEN CleanupCommitted(files) ELSE <<>>
<1>1. /\ phase = "reconcile" /\ plan = <<>> /\ phase' = "complete" /\ plan' = ops
      /\ UNCHANGED <<files, written, attempt, open, before, answer>>
  BY DEF CompleteReconciled, Done, EnterPhase, fileVars, restoreVars
<1>2. Undoing(files, <<>>) \/ KeepsCommitted(files, <<>>)
  BY <1>1, PlanOfPhase DEF Stage
<1>3. AtRest(files)
  BY <1>2, UndoingEnds DEF AtRest, KeepsCommitted
<1>4. Cleaning(files, ops)
  BY <1>3, PlanOfPhase, CleaningBegins
<1> HIDE DEF ops
<1>5. Stage'
  BY <1>1, <1>4 DEF Stage
<1> QED
  BY <1>1, <1>5, PhaseMoves DEF StartUp, Phase


(* The connection is closed, and nothing is left beside the database.       *)
LEMMA CloseMoves ==
    ASSUME PoweredInv, Close
    PROVE  PoweredInv' /\ AtomicMove
<1> DEFINE ops == WriteManifest(ActiveManifest(attempt', files'))
<1>1. /\ phase = "release" /\ plan = <<>> /\ phase' = "announce"
      /\ plan' = ops /\ attempt' = attempt + 1
      /\ files' = Closed(files) \/ files' = files
      /\ UNCHANGED <<written, open, before, answer>>
  BY DEF Close, Done, EnterPhase, DatabaseBecomes, fileVars
<1>2. RemainsInv'
  BY CommandRemains DEF PoweredInv, RestoreCommand
<1>3. /\ Whole(files) /\ Extra(files) = {} /\ Database \in Version
      /\ attempt \in Nat /\ written \in Nat
  <2>1. ClearsUp(files, <<>>)
    BY <1>1 DEF PoweredInv, Stage
  <2> QED
    BY <2>1, ClearedUp DEF PoweredInv
<1>4. Whole(files') /\ Extra(files') = {} /\ Database' = Database
  <2>1. CASE files' = Closed(files)
    BY <1>3, <2>1, Versions, DatabaseClosed DEF Database
  <2>2. CASE files' = files
    BY <1>3, <2>2 DEF Database
  <2> QED
    BY <1>1, <2>1, <2>2
<1>5. BackupSet(files') = {} /\ ~Has(files', Manifest)
  BY <1>4, NamesDiffer DEF Extra, BackupSet, Has
<1>6. Announcing(files', ops, attempt')
  BY <1>5 DEF Announcing, Writing
<1>7. open /\ Database = before
  BY <1>1 DEF PoweredInv, Knowledge
<1> HIDE DEF ops, Database
<1>8. Stage'
  BY <1>1, <1>6 DEF Stage
<1>9. Knowledge'
  BY <1>1, <1>4, <1>7 DEF Knowledge
<1>10. Proceeds
  BY <1>1, <1>4 DEF Proceeds
<1>11. /\ phase' \in Phase /\ attempt' \in Nat /\ written' \in Nat /\ open' \in BOOLEAN
       /\ Database' \in Version
  BY <1>1, <1>3, <1>4, <1>7 DEF Phase
<1>12. PoweredInv'
  BY <1>2, <1>4, <1>8, <1>9, <1>11 DEF PoweredInv
<1> QED
  BY <1>10, <1>12 DEF AtomicMove

(* The shop is told how a restore ended.                                    *)
Truth(told) ==
    \/ told = "restored" /\ Database = Chosen
    \/ told = "kept" /\ Database = before
    \/ told = "restarted" /\ Database \in {before, Chosen}

LEMMA AnswerMoves ==
    ASSUME PoweredInv, RemainsInv', NEW told, Answer(told), AtRest(files),
           open => Truth(told)
    PROVE  PoweredInv' /\ AtomicMove
<1>1. /\ phase' = "ready" /\ plan' = <<>> /\ open' = FALSE
      /\ answer' = IF open THEN told ELSE answer
      /\ UNCHANGED <<files, written, attempt, before>>
  BY DEF Answer, EnterPhase, fileVars
<1>2. Stage'
  BY <1>1 DEF Stage
<1>3. Database' = Database
  BY <1>1 DEF Database
<1>4. attempt \in Nat /\ open \in BOOLEAN
  BY DEF PoweredInv
<1> HIDE DEF Database
<1>5. Knowledge'
  BY <1>1 DEF Knowledge
<1>6. ASSUME open PROVE AtomicMove
  <2>1. answer' = told /\ Truth(told)
    BY <1>1, <1>6
  <2>2. Answers
    BY <1>1, <1>3, <1>6, <2>1 DEF Truth, Answers
  <2> QED
    BY <2>2 DEF AtomicMove
<1>7. ASSUME ~open PROVE AtomicMove
  <2>1. answer' = answer /\ open' = open
    BY <1>1, <1>4, <1>7
  <2>2. Proceeds
    BY <1>1, <1>3, <2>1 DEF Proceeds
  <2> QED
    BY <2>2 DEF AtomicMove
<1>8. phase' \in Phase /\ attempt' \in Nat /\ open' \in BOOLEAN
  BY <1>1, <1>4 DEF Phase
<1>9. PoweredInv'
  BY <1>1, <1>2, <1>5, <1>8, FilesStay
<1> QED
  BY <1>6, <1>7, <1>9

LEMMA ShopIsAnswered ==
    ASSUME PoweredInv, AnswerRestored \/ AnswerKept \/ OpenShop
    PROVE  PoweredInv' /\ AtomicMove
<1>1. RemainsInv'
  BY CommandRemains DEF PoweredInv, RestoreCommand, StartUp
<1>2. Stage /\ Knowledge
  BY PlanOfPhase
<1>3. CASE AnswerRestored
  <2>1. phase = "cleanup" /\ Answer("restored")
    BY <1>3 DEF AnswerRestored, Done
  <2>2. AtRest(files)
    BY <1>2, <2>1, CleaningIsAtRest DEF Stage
  <2>3. Truth("restored")
    BY <1>2, <2>1 DEF Knowledge, Truth
  <2> QED
    BY <1>1, <2>1, <2>2, <2>3, AnswerMoves
<1>4. CASE AnswerKept
  <2>1. phase = "rollback" /\ plan = <<>> /\ Answer("kept")
    BY <1>4 DEF AnswerKept, Done
  <2>2. AtRest(files)
    BY <1>2, <2>1, UndoingEnds DEF Stage, AtRest
  <2>3. Truth("kept")
    BY <1>2, <2>1 DEF Knowledge, Truth
  <2> QED
    BY <1>1, <2>1, <2>2, <2>3, AnswerMoves
<1>5. CASE OpenShop
  <2>1. phase = "complete" /\ Answer("restarted")
    BY <1>5 DEF OpenShop, Done
  <2>2. AtRest(files)
    BY <1>2, <2>1, CleaningIsAtRest DEF Stage
  <2>3. open => Truth("restarted")
    BY <1>2 DEF Knowledge, Truth
  <2> QED
    BY <1>1, <2>1, <2>2, <2>3, AnswerMoves
<1> QED
  BY <1>3, <1>4, <1>5

-----------------------------------------------------------------------------
(* A file operation fails.                                                  *)
LEMMA FailureMoves ==
    ASSUME PoweredInv, Failure, UNCHANGED <<written, attempt, open, before, answer>>,
           phase' \in {"release", "rollback", "broken", "stopped"},
           Whole(files'), Db(files') = Db(files), Stage',
           phase' \in {"release", "rollback"} => open /\ Database = before
    PROVE  PoweredInv' /\ AtomicMove
<1>1. RemainsInv'
  BY FailureRemains DEF PoweredInv
<1>2. Database' = Database
  BY DEF Database
<1>3. /\ attempt \in Nat /\ written \in Nat /\ open \in BOOLEAN /\ Database \in Version
      /\ (open => Database \in {before, Chosen})
  BY DEF PoweredInv, Knowledge
<1> HIDE DEF Database
<1>4. Knowledge'
  BY <1>2, <1>3 DEF Knowledge
<1>5. Proceeds
  BY <1>2 DEF Proceeds
<1>6. /\ phase' \in Phase /\ attempt' \in Nat /\ written' \in Nat /\ open' \in BOOLEAN
      /\ Database' \in Version
  BY <1>2, <1>3 DEF Phase
<1>7. PoweredInv'
  BY <1>1, <1>4, <1>6 DEF PoweredInv
<1> QED
  BY <1>5, <1>7 DEF AtomicMove

LEMMA PartLeft ==
    ASSUME LeavesPart
    PROVE  LET op == Head(plan)
           IN  \/ files' = files
               \/ op.do = "open" /\ files' = Beside(files)
               \/ op.do = "create" /\ files' = With(files, op.name, Torn)
  BY DEF LeavesPart, MayLeaveFiles, DatabaseBecomes, fileVars

(* While a manifest is written, only the new one is left in part.           *)
LEMMA WritingFails ==
    ASSUME LeavesPart, IsPlan(plan), plan # <<>>,
           OnlySyncs(plan) \/ \E row : Writing(files, plan, row)
    PROVE  files' = files \/ \E content : files' = With(files, Temp, content)
<1> DEFINE op == Head(plan)
<1>1. op.do # "open" /\ (op.do = "create" => op.name = Temp)
  <2>1. CASE OnlySyncs(plan)
    <3>1. op = Sync
      BY <2>1, HeadOfPlan DEF OnlySyncs
    <3> QED
      BY <3>1, OperationsDiffer
  <2>2. CASE \E row : Writing(files, plan, row)
    <3>1. op \in {Flush(Temp), Rename(Temp, Manifest)} \/ \E row : op = Create(Temp, row)
      BY <2>2 DEF Writing, WriteManifest
    <3> HIDE DEF op
    <3> QED
      BY <3>1, OperationsDiffer
  <2> QED
    BY <2>1, <2>2
<1> QED
  BY <1>1, PartLeft

LEMMA FailToAnnounceMoves ==
    ASSUME PoweredInv, FailToAnnounce
    PROVE  PoweredInv' /\ AtomicMove
<1>1. /\ phase = "announce" /\ plan # <<>> /\ phase' = "rollback" /\ plan' = <<>>
      /\ UNCHANGED <<written, attempt, open, before, answer>>
      /\ files' = Without(files, {Temp}) \/ LeavesPart
  BY DEF FailToAnnounce, Fault, EnterPhase, faultless
<1>2. Announcing(files, plan, attempt) /\ Whole(files) /\ IsPlan(plan)
  BY <1>1 DEF PoweredInv, Stage, RemainsInv, NamesKnown, AllNamed
<1>3. /\ BackupSet(files) = {} /\ ~Committed(files)
      /\ OnlySyncs(plan) \/ \E row : Writing(files, plan, row)
  BY <1>2 DEF Announcing, Committed, Readable, ActiveManifest
<1>4. \/ files' = files \/ files' = Without(files, {Temp})
      \/ \E content : files' = With(files, Temp, content)
  BY <1>1, <1>2, <1>3, WritingFails
<1>5. SameManifest(files, files') /\ SameBackups(files, files') /\ SameOriginals(files, files')
  <2>1. CASE files' = files
    BY <2>1 DEF SameManifest, SameBackups, SameOriginals
  <2>2. CASE files' = Without(files, {Temp}) \/ \E content : files' = With(files, Temp, content)
    BY <2>2, TempIsIgnored
  <2> QED
    BY <1>4, <2>1, <2>2
<1>6. Whole(files') /\ Db(files') = Db(files)
  BY <1>2, <1>5, SameDirectory
<1>7. Undoing(files', <<>>)
  BY <1>3, <1>5, NoOps, ManifestDecides DEF SameBackups, Undoing, Resting
<1>8. Stage'
  BY <1>1, <1>7 DEF Stage
<1>9. open /\ Database = before
  BY <1>1 DEF PoweredInv, Knowledge
<1> QED
  BY <1>1, <1>6, <1>8, <1>9, FailureMoves DEF Failure

LEMMA FailToEvacuateMoves ==
    ASSUME PoweredInv, FailToEvacuate
    PROVE  PoweredInv' /\ AtomicMove
<1>1. /\ phase = "evacuate" /\ phase' = "rollback"
      /\ plan' = Rollback(BackupSet(files), FALSE)
      /\ UNCHANGED <<files, written, attempt, open, before, answer>>
  BY DEF FailToEvacuate, EnterPhase, fileVars, faultless
<1>2. Evacuating(files, plan, attempt) /\ Whole(files)
  BY <1>1 DEF PoweredInv, Stage
<1>3. Active(files) /\ (EvacuationComplete(files) => OriginalSet(files) \subseteq BackupSet(files))
  BY <1>2 DEF Evacuating, EvacuationComplete
<1>4. Undoing(files, Rollback(BackupSet(files), FALSE))
  BY <1>3, UndoingBegins
<1>5. Stage'
  BY <1>1, <1>4 DEF Stage
<1>6. open /\ Database = before
  BY <1>1 DEF PoweredInv, Knowledge
<1> QED
  BY <1>1, <1>2, <1>5, <1>6, FailureMoves DEF Failure

LEMMA FailToInstallMoves ==
    ASSUME PoweredInv, FailToInstall
    PROVE  PoweredInv' /\ AtomicMove
<1> DEFINE op == Head(plan)
<1>1. /\ phase = "install" /\ plan # <<>> /\ phase' = "rollback"
      /\ plan' = Rollback(BackupSet(files), TRUE) /\ LeavesPart
      /\ UNCHANGED <<written, attempt, open, before, answer>>
  BY DEF FailToInstall, Fault, EnterPhase, faultless
<1>2. Installing(files, plan, attempt) /\ Whole(files) /\ IsPlan(plan)
  BY <1>1 DEF PoweredInv, Stage, RemainsInv, NamesKnown, AllNamed
<1>3. EvacuationComplete(files)
  BY <1>2 DEF Installing
<1>4. \A o \in Ops(plan) : o.do = "create" => o.name = Original("main")
  <2>1. \A o \in Ops(plan) :
            \/ o \in {Flush(Original("main")), Sync, Open}
            \/ o = Create(Original("main"), [gen |-> attempt, version |-> Chosen])
    BY <1>2, InstallationOps DEF Installing
  <2> QED
    BY <2>1, OperationsDiffer
<1>5. SameManifest(files, files') /\ SameBackups(files, files')
  <2>1. CASE files' = files
    BY <2>1 DEF SameManifest, SameBackups
  <2>2. CASE files' = Beside(files)
    BY <2>2, Sidecars DEF Beside
  <2>3. CASE op.do = "create" /\ files' = With(files, op.name, Torn)
    <3>1. op.name = Original("main")
      BY <1>1, <1>2, <1>4, <2>3, HeadOfPlan
    <3>2. files' = With(files, Original("main"), Torn) /\ "main" \in Part
      BY <2>3, <3>1 DEF Part
    <3> QED
      BY <3>2, MoreOriginals
  <2> QED
    BY <1>1, <2>1, <2>2, <2>3, PartLeft
<1>6. EvacuationComplete(files') /\ Db(files') = Db(files) /\ Whole(files')
  BY <1>2, <1>3, <1>5, CompleteIsKept
<1>7. Undoing(files', plan')
  <2>1. Active(files') /\ BackupSet(files') = BackupSet(files)
    BY <1>5, <1>6 DEF EvacuationComplete, SameBackups
  <2>2. Undoing(files', Rollback(BackupSet(files'), TRUE))
    BY <1>6, <2>1, UndoingBegins
  <2> QED
    BY <1>1, <2>1, <2>2
<1>8. Stage'
  BY <1>1, <1>7 DEF Stage
<1>9. open /\ Database = before
  BY <1>1 DEF PoweredInv, Knowledge
<1> QED
  BY <1>1, <1>6, <1>8, <1>9, FailureMoves DEF Failure


LEMMA FailForGoodMoves ==
    ASSUME PoweredInv, FailForGood
    PROVE  PoweredInv' /\ AtomicMove
<1> DEFINE op == Head(plan)
<1>1. /\ phase \in {"rollback", "commit", "release"} /\ plan # <<>>
      /\ phase' = "broken" /\ LeavesPart
      /\ UNCHANGED <<written, attempt, open, before, answer>>
  BY DEF FailForGood, Fault, EnterPhase, faultless
<1>2. Whole(files) /\ IsPlan(plan) /\ Stage
  BY DEF PoweredInv, RemainsInv, NamesKnown, AllNamed
<1>3. Whole(files') /\ Db(files') = Db(files)
  <2>1. CASE phase \in {"rollback", "release"}
    <3>1. Cleaning(files, plan) \/ Undoing(files, plan)
      BY <1>2, <2>1 DEF Stage
    <3>2. op.do \notin {"create", "open"}
      BY <1>1, <1>2, <3>1, HeadOfPlan, ClearingNeitherCreatesNorOpens
    <3>3. files' = files
      BY <1>1, <3>2, PartLeft
    <3> QED
      BY <1>2, <3>3
  <2>2. CASE phase = "commit"
    <3>1. OnlySyncs(plan) \/ \E row : Writing(files, plan, row)
      BY <1>2, <2>2 DEF Stage, Committing
    <3>2. CASE files' = files
      BY <1>2, <3>2
    <3>3. CASE \E content : files' = With(files, Temp, content)
      BY <1>2, <3>3, TempIsIgnored, SameDirectory
    <3> QED
      BY <1>1, <1>2, <3>1, <3>2, <3>3, WritingFails
  <2> QED
    BY <1>1, <2>1, <2>2
<1>4. Stage'
  BY <1>1 DEF Stage
<1> QED
  BY <1>1, <1>3, <1>4, FailureMoves DEF Failure

LEMMA FailToReleaseLogMoves ==
    ASSUME PoweredInv, FailToReleaseLog
    PROVE  PoweredInv' /\ AtomicMove
<1>1. /\ phase = "release" /\ plan # <<>> /\ Head(plan) = Log
      /\ phase' = "release" /\ plan' = Tail(plan)
      /\ UNCHANGED <<files, written, attempt, open, before, answer>>
  BY DEF FailToReleaseLog, Fault, fileVars, faultless
<1>2. Whole(files) /\ IsPlan(plan) /\ ClearsUp(files, plan) /\ Cleaning(files, plan)
  BY <1>1 DEF PoweredInv, RemainsInv, NamesKnown, AllNamed, Stage
<1>3. Changed(files, Head(plan)) = files
  BY <1>1, SyncChangesNothing
<1>4. ClearsUp(Changed(files, Head(plan)), Tail(plan))
  BY <1>1, <1>2, ClearingGoesOn
<1>5. Cleaning(Changed(files, Head(plan)), Tail(plan))
  BY <1>1, <1>2, CleaningStep
<1>6. Stage'
  BY <1>1, <1>3, <1>4, <1>5 DEF Stage
<1>7. open /\ Database = before
  BY <1>1 DEF PoweredInv, Knowledge
<1> QED
  BY <1>1, <1>2, <1>6, <1>7, FailureMoves DEF Failure

LEMMA OtherFailuresMove ==
    ASSUME PoweredInv, FailToReconnect \/ FailToReconcile
    PROVE  PoweredInv' /\ AtomicMove
<1>1. /\ phase' \in {"broken", "stopped"}
      /\ UNCHANGED <<files, written, attempt, open, before, answer>>
  BY DEF FailToReconnect, FailToReconcile, EnterPhase, fileVars, faultless
<1>2. Whole(files)
  BY DEF PoweredInv
<1>3. Stage'
  BY <1>1 DEF Stage
<1> QED
  BY <1>1, <1>2, <1>3, FailureMoves DEF Failure

(* What is left to clear up is put off, and the shop is answered.           *)
LEMMA PutOffMoves ==
    ASSUME PoweredInv, FailToCleanUp \/ FailToComplete
    PROVE  PoweredInv' /\ AtomicMove
<1>1. RemainsInv'
  BY FailureRemains DEF PoweredInv, Failure
<1>2. Stage /\ Knowledge
  BY PlanOfPhase
<1>3. phase \in {"cleanup", "complete"}
  BY DEF FailToCleanUp, FailToComplete
<1>4. AtRest(files)
  BY <1>2, <1>3, CleaningIsAtRest DEF Stage
<1>5. CASE FailToCleanUp
  <2>1. phase = "cleanup" /\ Answer("restored")
    BY <1>5 DEF FailToCleanUp
  <2>2. Truth("restored")
    BY <1>2, <2>1 DEF Knowledge, Truth
  <2> QED
    BY <1>1, <1>4, <2>1, <2>2, AnswerMoves
<1>6. CASE FailToComplete
  <2>1. Answer("restarted")
    BY <1>6 DEF FailToComplete
  <2>2. open => Truth("restarted")
    BY <1>2 DEF Knowledge, Truth
  <2> QED
    BY <1>1, <1>4, <2>1, <2>2, AnswerMoves
<1> QED
  BY <1>5, <1>6

-----------------------------------------------------------------------------
(* The invariant holds, and every step keeps the promise.                   *)
LEMMA PoweredInit ==
    ASSUME Init
    PROVE  PoweredInv /\ Database = 1
<1> DEFINE main == [gen |-> 0, version |-> 1]
<1>1. RemainsInv
  BY RemainsInit
<1>2. /\ DOMAIN files = {Original("main")} /\ files[Original("main")] = main
      /\ phase = "ready" /\ attempt = 0 /\ written = 1 /\ open = FALSE
  BY DEF Init
<1>3. /\ ~Has(files, Manifest) /\ BackupSet(files) = {}
      /\ OriginalSet(files) = {"main"}
  <2>1. "main" \in Part
    BY DEF Part
  <2> QED
    BY <1>2, <2>1, NamesDiffer DEF Has, BackupSet, OriginalSet
<1>4. /\ ~Committed(files) /\ ~EvacuationComplete(files) /\ ~Active(files)
  BY <1>3 DEF Committed, EvacuationComplete, Active, Readable
<1>5. From(files) = {} /\ Found(files) = {"main"} /\ Kept(files, "main") = main
  BY <1>2, <1>3, <1>4 DEF From, Found, Kept
<1>6. main \in Content /\ main # Torn
  BY ContentIsNotTorn DEF Content
<1>7. Whole(files) /\ AtRest(files)
  BY <1>3, <1>4, <1>5, <1>6 DEF Whole, AtRest
<1>8. Db(files) = [p \in {"main"} |-> main]
  BY <1>5 DEF Db
<1>9. Database = 1
  BY <1>6, <1>8 DEF Database, Worth
<1> HIDE DEF Database
<1>10. Stage /\ Knowledge
  BY <1>2, <1>7 DEF Stage, Knowledge
<1>11. phase \in Phase /\ attempt \in Nat /\ written \in Nat /\ open \in BOOLEAN
       /\ Database \in Version
  BY <1>2, <1>9, Versions DEF Phase
<1> QED
  BY <1>1, <1>7, <1>9, <1>10, <1>11 DEF PoweredInv

LEMMA PoweredNext ==
    ASSUME PoweredInv, [Program \/ Failure]_vars
    PROVE  PoweredInv' /\ (AtomicMove \/ UNCHANGED <<written, Database, open, before, answer>>)
<1>1. CASE Program
  BY <1>1, StepMoves, WriteMoves, RefuseMoves, BeginMoves, CloseMoves, EvacuateMoves,
     InstallMoves, CommitMoves, CleanUpMoves, ShopIsAnswered, ReconcileMoves,
     CompleteMoves, StartMoves DEF Program, RestoreCommand, StartUp
<1>2. CASE Failure
  BY <1>2, FailToAnnounceMoves, FailToEvacuateMoves, FailToInstallMoves,
     FailForGoodMoves, FailToReleaseLogMoves, OtherFailuresMove, PutOffMoves DEF Failure
<1>3. CASE UNCHANGED vars
  <2>1. /\ UNCHANGED <<files, phase, plan, attempt, written, open, before, answer>>
    BY <1>3 DEF vars, fileVars
  <2>2. RemainsInv'
    BY <1>3, RemainsNext DEF PoweredInv
  <2>3. Stage' /\ Database' = Database
    BY <2>1 DEF PoweredInv, Stage, Database
  <2>4. phase' \in Phase /\ attempt' \in Nat /\ open' \in BOOLEAN
    BY <2>1 DEF PoweredInv
  <2> HIDE DEF Database
  <2>5. Knowledge'
    BY <2>1, <2>3 DEF PoweredInv, Knowledge
  <2>6. PoweredInv'
    BY <2>1, <2>2, <2>3, <2>4, <2>5, FilesStay
  <2> QED
    BY <2>1, <2>3, <2>6
<1> QED
  BY <1>1, <1>2, <1>3


LEMMA NextStartOpens ==
    PoweredInv => AtNextStart(files) = Database
  BY NextStartFinds DEF PoweredInv, Database

LEMMA MoveKeepsPromise ==
    ASSUME PoweredInv, PoweredInv', AtomicMove
    PROVE  [Promise!Next]_<<written, AtNextStart(files), open, before, answer>>
<1>1. AtNextStart(files) = Database
  BY NextStartOpens
<1>2. AtNextStart(files)' = Database'
  <2>1. Whole(files')
    BY DEF PoweredInv
  <2> QED
    BY <2>1, NextStartFinds DEF Database
<1> DEFINE Goal == Promise!Next \/ UNCHANGED <<written, AtNextStart(files), open, before, answer>>
<1> HIDE DEF Database
<1>3. CASE Proceeds
  <2>1. CASE Database' = Database
    <3>1. UNCHANGED <<written, AtNextStart(files), open, before, answer>>
      BY <1>1, <1>2, <1>3, <2>1 DEF Proceeds
    <3> QED
      BY <3>1
  <2>2. CASE open /\ Database' \in {before, Chosen}
    <3>1. Promise!TakeEffectOrUndo
      BY <1>2, <1>3, <2>2 DEF Proceeds, Promise!TakeEffectOrUndo
    <3> QED
      BY <3>1 DEF Promise!Next
  <2> QED
    BY <1>3, <2>1, <2>2 DEF Proceeds
<1>4. CASE Writes
  <2>1. Promise!Write
    BY <1>2, <1>4 DEF Writes, Promise!Write
  <2> QED
    BY <2>1 DEF Promise!Next
<1>5. CASE Begins
  <2>1. Promise!Begin
    BY <1>1, <1>2, <1>5 DEF Begins, Promise!Begin
  <2> QED
    BY <2>1 DEF Promise!Next
<1>6. CASE Answers
  <2>1. Promise!Settle
    BY <1>1, <1>2, <1>6 DEF Answers, Promise!Settle
  <2> QED
    BY <2>1 DEF Promise!Next
<1> QED
  BY <1>3, <1>4, <1>5, <1>6 DEF AtomicMove

LEMMA StepKeepsPromise ==
    PoweredInv /\ [Program \/ Failure]_vars =>
        [Promise!Next]_<<written, AtNextStart(files), open, before, answer>>
<1> SUFFICES ASSUME PoweredInv, [Program \/ Failure]_vars
             PROVE  [Promise!Next]_<<written, AtNextStart(files), open, before, answer>>
  OBVIOUS
<1>1. PoweredInv'
  BY PoweredNext
<1>2. CASE AtomicMove
  BY <1>1, <1>2, MoveKeepsPromise
<1>3. CASE UNCHANGED <<written, Database, open, before, answer>>
  <2>1. Proceeds
    BY <1>3 DEF Proceeds
  <2> QED
    BY <1>1, <2>1, MoveKeepsPromise DEF AtomicMove
<1> QED
  BY <1>2, <1>3, PoweredNext

(* MNT-01-D5: as long as the power stays, whatever operations fail and       *)
(* however often the program is killed, a start opens the snapshot before    *)
(* the restore or the chosen one, whole; the shop is told which; and once    *)
(* told, only its own writes change it.                                     *)
THEOREM RestoresAreAtomic == PoweredSpec => RestoreIsAtomic
<1>1. Init => Promise!Init
  <2> SUFFICES ASSUME Init PROVE Promise!Init
    OBVIOUS
  <2>1. AtNextStart(files) = 1
    BY PoweredInit, NextStartOpens
  <2> QED
    BY <2>1 DEF Init, Promise!Init
<1>2. Init => PoweredInv
  BY PoweredInit
<1>3. PoweredInv /\ [Program \/ Failure]_vars => PoweredInv'
  BY PoweredNext
<1>4. PoweredInv /\ [Program \/ Failure]_vars =>
          [Promise!Next]_<<written, AtNextStart(files), open, before, answer>>
  BY StepKeepsPromise
<1> QED
  BY <1>1, <1>2, <1>3, <1>4, PTL DEF PoweredSpec, RestoreIsAtomic, Promise!Spec,
     Promise!atomicVars

(* MNT-01-D5, R3, R5, R7: no failure and no interruption leaves files behind  *)
(* that the next start refuses to touch, or of two generations.             *)
THEOREM StartsAreAccepted ==
    PoweredSpec => [](StartIsNeverRefused /\ GenerationsNeverMix)
<1>1. PoweredInv => StartIsNeverRefused /\ GenerationsNeverMix
  <2> SUFFICES ASSUME PoweredInv PROVE StartIsNeverRefused /\ GenerationsNeverMix
    OBVIOUS
  <2>1. Whole(files) /\ AtNextStart(files) = Database /\ Database \in Version
    BY NextStartOpens DEF PoweredInv
  <2> HIDE DEF Database
  <2> QED
    BY <2>1, WholeIsNotRefused, Versions DEF StartIsNeverRefused, GenerationsNeverMix
<1>2. Init => PoweredInv
  BY PoweredInit
<1>3. PoweredInv /\ [Program \/ Failure]_vars => PoweredInv'
  BY PoweredNext
<1> QED
  BY <1>1, <1>2, <1>3, PTL DEF PoweredSpec


-----------------------------------------------------------------------------
(* The row of a restore in the operation log.                               *)
Generation(d) == Kept(d, "main").gen

(* The restore the database comes from is logged, or will be.               *)
Recorded ==
    \/ Generation(files) = 0
    \/ logged[Generation(files)] = 1
    \/ /\ Committed(files) /\ files[Manifest].attempt = Generation(files)
       /\ phase \in {"release", "cleanup", "complete"} => Log \in Ops(plan)

LogInv ==
    /\ logged \in [1..MaxAttempt -> {0, 1}] /\ attempt \in 0..MaxAttempt
    /\ phase = "release" => attempt < MaxAttempt
    /\ faults = 0 => Generation(files) <= attempt /\ Recorded

LEMMA GenerationIsNat ==
    ASSUME NEW d, Whole(d)
    PROVE  Generation(d) \in Nat
  BY DEF Whole, Content, Generation

LEMMA GenerationKept ==
    ASSUME NEW d, NEW e, Whole(d), Whole(e), Db(e) = Db(d)
    PROVE  Generation(e) = Generation(d)
<1>1. "main" \in Found(d) /\ "main" \in Found(e)
  BY DEF Whole
<1>2. Db(d)["main"] = Kept(d, "main") /\ Db(e)["main"] = Kept(e, "main")
  BY <1>1 DEF Db
<1> QED
  BY <1>2 DEF Generation

(* The log is written before the manifest is deleted.                       *)
LEMMA LogComesFirst ==
    ASSUME NEW d, NEW ops, IsPlan(ops), ops # <<>>, Cleaning(d, ops), Log \in Ops(ops)
    PROVE  \/ Head(ops) = Log
           \/ SameManifest(d, Changed(d, Head(ops))) /\ Log \in Ops(Tail(ops))
<1>1. Log \notin {Delete(Manifest), Delete(Temp), Sync}
  BY OperationsDiffer
<1>2. ~Resting(d, ops)
  BY <1>1 DEF Resting
<1>3. PICK q : Clearing(d, q) /\ ops = q \o DeleteManifest
  BY <1>2 DEF Cleaning
<1>4. IsPlan(q) /\ IsPlan(DeleteManifest) /\ Log \notin Ops(DeleteManifest)
  BY <1>1, <1>3, DeleteManifestOps DEF Clearing
<1>5. q # <<>>
  BY <1>3, <1>4, EmptyFirst
<1>6. Head(ops) = Head(q) /\ Head(q) \in Ops(q)
  BY <1>3, <1>4, <1>5, HeadOfJoined, HeadOfPlan
<1>7. Head(ops) \in {Sync, Log} \/ \E p \in Part : Head(ops) = Delete(Backup(p))
  BY <1>3, <1>6 DEF Clearing
<1>8. SUFFICES ASSUME Head(ops) # Log
               PROVE  SameManifest(d, Changed(d, Head(ops))) /\ Log \in Ops(Tail(ops))
  OBVIOUS
<1>9. Log \in Ops(Tail(ops))
  BY <1>8, HeadOfPlan
<1>10. CASE Head(ops) = Sync
  BY <1>9, <1>10, SyncChangesNothing DEF SameManifest
<1>11. ASSUME NEW p \in Part, Head(ops) = Delete(Backup(p))
       PROVE  SameManifest(d, Changed(d, Head(ops)))
  <2>1. Changed(d, Head(ops)) = Without(d, {Backup(p)})
    BY <1>11, DeletesOne
  <2>2. Backup(p) # Manifest
    BY NamesDiffer
  <2>3. SameManifest(d, Without(d, {Backup(p)}))
    BY <2>2, WithoutOne
  <2> QED
    BY <2>1, <2>3
<1> QED
  BY <1>7, <1>8, <1>9, <1>10, <1>11

LEMMA CleanupLogs ==
    ASSUME NEW d
    PROVE  Log \in Ops(CleanupCommitted(d))
  BY CleanupOps

LEMMA UndoingIsNotCommitted ==
    ASSUME NEW d, NEW ops, Undoing(d, ops)
    PROVE  ~Committed(d)
  BY DEF Undoing, Restoring, Removing, Active, EvacuationComplete, Committed

(* The manifest of a committed restore is left alone until it is logged.    *)
LEMMA ManifestWaits ==
    ASSUME PoweredInv, Step, Committed(files),
           phase \in {"release", "cleanup", "complete"} => Log \in Ops(plan)
    PROVE  \/ Head(plan) = Log
           \/ /\ SameManifest(files, files')
              /\ phase \in {"release", "cleanup", "complete"} => Log \in Ops(plan')
<1> DEFINE op == Head(plan)
           e == Changed(files, op)
<1>1. /\ IsPlan(plan) /\ plan # <<>> /\ plan' = Tail(plan) /\ phase' = phase
  BY DEF Step, ChangeDirectory, FlushFile, SyncParent, OpenDatabase, LogRestore,
         Performed, restoreVars, PoweredInv, RemainsInv, NamesKnown, AllNamed
<1>2. \/ op.do \in {"rename", "delete", "create"} /\ files' = e
      \/ op.do \in {"flush", "sync", "log"} /\ files' = files
      \/ op.do = "open" /\ (files' = Beside(files) \/ files' = files)
  BY DEF Step, ChangeDirectory, FlushFile, SyncParent, OpenDatabase, MayLeaveFiles,
         DatabaseBecomes, Performed, fileVars, LogRestore
<1>3. op.do # "open" => files' = e
  <2> HIDE DEF op
  <2> QED
    BY <1>2, ChangesOne
<1>4. op \in Ops(plan)
  BY <1>1, HeadOfPlan
<1>5. Stage /\ phase \in Phase /\ phase \notin {"ready", "broken", "stopped"}
  BY <1>1 DEF PoweredInv, RemainsInv
<1> HIDE DEF op, e
<1>6. ASSUME op = Sync PROVE SameManifest(files, files')
  <2>1. e = files /\ op.do # "open"
    BY <1>6, SyncChangesNothing, OperationsDiffer DEF e
  <2> QED
    BY <1>3, <2>1 DEF SameManifest
<1>7. ASSUME NEW name, name # Manifest, op = Delete(name) PROVE SameManifest(files, files')
  <2>1. e = Without(files, {name}) /\ op.do # "open"
    BY <1>7, DeletesOne, OperationsDiffer DEF e
  <2>2. SameManifest(files, Without(files, {name}))
    BY <1>7, WithoutOne
  <2> QED
    BY <1>3, <2>1, <2>2
<1>8. Temp # Manifest /\ \A p \in Part : Backup(p) # Manifest
  BY NamesDiffer
<1>9. CASE phase \in {"release", "cleanup", "complete"}
  <2>1. Cleaning(files, plan)
    BY <1>5, <1>9 DEF Stage
  <2>2. op.do # "open"
    BY <1>1, <1>4, <2>1, ClearingNeitherCreatesNorOpens
  <2> QED
    BY <1>1, <1>3, <1>9, <2>1, <2>2, LogComesFirst DEF e, op
<1>10. CASE phase \in {"announce", "evacuate", "install"}
  <2>1. \/ Announcing(files, plan, attempt) \/ Evacuating(files, plan, attempt)
        \/ Installing(files, plan, attempt)
    BY <1>5, <1>10 DEF Stage
  <2> QED
    BY <2>1 DEF Announcing, Evacuating, Installing, EvacuationComplete, Active,
       Committed, Readable, ActiveManifest
<1>11. CASE phase = "commit"
  <2>1. OnlySyncs(plan)
    BY <1>5, <1>11 DEF Stage, Committing, EvacuationComplete, Active, Committed
  <2> QED
    BY <1>4, <1>6, <1>11, <2>1 DEF OnlySyncs
<1>12. CASE phase = "rollback"
  BY <1>5, <1>12, UndoingIsNotCommitted DEF Stage
<1>13. CASE phase = "reconcile"
  <2>1. KeepsCommitted(files, plan)
    BY <1>5, <1>13, UndoingIsNotCommitted DEF Stage
  <2>2. op = Sync \/ \E p \in Part : op = Delete(Backup(p))
    BY <1>4, <2>1 DEF KeepsCommitted
  <2> QED
    BY <1>6, <1>7, <1>8, <1>13, <2>2
<1>14. CASE phase = "sweep"
  <2>1. op = Delete(Temp) \/ op = Sync
    BY <1>4, <1>14 DEF PoweredInv, RemainsInv
  <2> QED
    BY <1>6, <1>7, <1>8, <1>14, <2>1
<1> QED
  BY <1>5, <1>9, <1>10, <1>11, <1>12, <1>13, <1>14 DEF Phase


LEMMA LoggedStays ==
    ASSUME LogInv, Step
    PROVE  /\ UNCHANGED <<attempt, phase, faults>>
           /\ logged' \in [1..MaxAttempt -> {0, 1}]
           /\ \A n \in 1..MaxAttempt : logged[n] = 1 => logged'[n] = 1
           /\ Head(plan) = Log /\ files[Manifest].attempt \in 1..MaxAttempt
                => logged'[files[Manifest].attempt] = 1
<1>1. UNCHANGED <<attempt, phase, faults>>
  BY DEF Step, ChangeDirectory, FlushFile, SyncParent, OpenDatabase, LogRestore, restoreVars
<1>2. logged \in [1..MaxAttempt -> {0, 1}]
  BY DEF LogInv
<1>3. CASE LogRestore
  <2> DEFINE row == files[Manifest].attempt
  <2>1. logged' = [logged EXCEPT ![row] = IF @ = 0 THEN 1 ELSE @]
    BY <1>3 DEF LogRestore
  <2> HIDE DEF row
  <2>2. \A n \in 1..MaxAttempt : logged'[n] = IF n = row THEN 1 ELSE logged[n]
    BY <1>2, <2>1
  <2>3. logged' \in [1..MaxAttempt -> {0, 1}]
    BY <1>2, <2>1
  <2> QED
    BY <1>1, <2>2, <2>3 DEF row
<1>4. CASE ~LogRestore
  <2>1. logged' = logged
    BY <1>4 DEF Step, ChangeDirectory, FlushFile, SyncParent, OpenDatabase, restoreVars
  <2>2. Head(plan) # Log
    BY <1>4, OperationsDiffer DEF Step, ChangeDirectory, FlushFile, SyncParent,
       OpenDatabase, Performed
  <2> QED
    BY <1>1, <1>2, <2>1, <2>2
<1> QED
  BY <1>3, <1>4

LEMMA StepLogs ==
    ASSUME PoweredInv, LogInv, Step
    PROVE  LogInv'
<1>1. PoweredInv'
  BY StepMoves
<1>2. Whole(files) /\ Whole(files')
  BY <1>1 DEF PoweredInv
<1>3. /\ UNCHANGED <<attempt, phase, faults>>
      /\ logged' \in [1..MaxAttempt -> {0, 1}]
      /\ \A n \in 1..MaxAttempt : logged[n] = 1 => logged'[n] = 1
  BY LoggedStays
<1>4. attempt \in 0..MaxAttempt /\ (phase = "release" => attempt < MaxAttempt) /\ MaxAttempt \in Nat
  BY RestoreAssumption DEF LogInv
<1>5. SUFFICES ASSUME faults = 0
               PROVE  Generation(files') <= attempt /\ Recorded'
  BY <1>3, <1>4 DEF LogInv
<1>6. /\ Generation(files) <= attempt /\ Recorded
      /\ Generation(files) \in Nat /\ Generation(files') \in Nat
  BY <1>2, <1>5, GenerationIsNat DEF LogInv
<1>7. Generation(files) = 0 \/ Generation(files) \in 1..MaxAttempt
  BY <1>4, <1>6
<1>8. CASE Db(files') = Db(files)
  <2>1. Generation(files') = Generation(files)
    BY <1>2, <1>8, GenerationKept
  <2>2. CASE Generation(files) = 0 \/ logged[Generation(files)] = 1
    BY <1>3, <1>4, <1>6, <1>7, <2>1, <2>2 DEF Recorded
  <2>3. CASE Generation(files) # 0 /\ logged[Generation(files)] # 1
    <3>1. /\ Committed(files) /\ files[Manifest].attempt = Generation(files)
          /\ phase \in {"release", "cleanup", "complete"} => Log \in Ops(plan)
      BY <1>6, <2>3 DEF Recorded
    <3>2. CASE Head(plan) = Log
      <4>1. logged'[files[Manifest].attempt] = 1
        BY <1>7, <2>3, <3>1, <3>2, LoggedStays
      <4> QED
        BY <1>6, <2>1, <3>1, <4>1 DEF Recorded
    <3>3. CASE /\ SameManifest(files, files')
               /\ phase \in {"release", "cleanup", "complete"} => Log \in Ops(plan')
      <4>1. Committed(files') /\ files'[Manifest].attempt = Generation(files)
        BY <3>1, <3>3, ManifestDecides DEF SameManifest, Committed, Readable
      <4> QED
        BY <1>3, <1>6, <2>1, <3>3, <4>1 DEF Recorded
    <3> QED
      BY <3>1, <3>2, <3>3, ManifestWaits
  <2> QED
    BY <2>2, <2>3
<1>9. CASE phase = "commit" /\ Committed(files')
  <2>1. Committing(files', plan', attempt)
    BY <1>1, <1>3, <1>9 DEF PoweredInv, Stage
  <2>2. NewGeneration(files', attempt) /\ files'[Manifest].attempt = attempt
    BY <2>1 DEF Committing
  <2>3. "main" \in OriginalSet(files')
    BY <2>2 DEF NewGeneration, OriginalSet, Has, Part
  <2>4. files'[Original("main")].gen = attempt
    BY <2>2, <2>3 DEF NewGeneration
  <2>5. Generation(files') = attempt
    BY <1>9, <2>4 DEF Generation, Kept, From
  <2> QED
    BY <1>3, <1>4, <1>9, <2>2, <2>5 DEF Recorded
<1> QED
  BY <1>8, <1>9, StageStep

(* A move of the command or of the start that writes no row.                *)
LEMMA NoRowLogs ==
    ASSUME PoweredInv, PoweredInv', LogInv, UNCHANGED <<logged, faults>>,
           attempt' \in attempt..MaxAttempt, phase' = "release" => attempt' < MaxAttempt,
           Generation(files') = Generation(files),
           Committed(files) =>
               \/ phase \in {"release", "cleanup", "complete"} /\ Log \notin Ops(plan)
               \/ /\ SameManifest(files, files')
                  /\ phase' \in {"release", "cleanup", "complete"} => Log \in Ops(plan')
    PROVE  LogInv'
<1>1. attempt \in 0..MaxAttempt /\ MaxAttempt \in Nat /\ logged \in [1..MaxAttempt -> {0, 1}]
  BY RestoreAssumption DEF LogInv
<1>2. attempt' \in 0..MaxAttempt
  BY <1>1
<1>3. SUFFICES ASSUME faults = 0
               PROVE  Generation(files') <= attempt' /\ Recorded'
  BY <1>1, <1>2 DEF LogInv
<1>4. Generation(files) <= attempt /\ Recorded /\ Generation(files) \in Nat
  BY <1>3, GenerationIsNat DEF LogInv, PoweredInv
<1>5. Generation(files') <= attempt'
  BY <1>1, <1>2, <1>4
<1>6. ASSUME Generation(files) = 0 \/ logged[Generation(files)] = 1
      PROVE  Recorded'
  BY <1>6 DEF Recorded
<1>7. ASSUME Generation(files) # 0, logged[Generation(files)] # 1
      PROVE  Recorded'
  <2>1. /\ Committed(files) /\ files[Manifest].attempt = Generation(files)
        /\ phase \in {"release", "cleanup", "complete"} => Log \in Ops(plan)
    BY <1>4, <1>7 DEF Recorded
  <2>2. Committed(files') /\ files'[Manifest].attempt = Generation(files)
    BY <2>1, ManifestDecides DEF SameManifest, Committed, Readable
  <2> QED
    BY <2>1, <2>2 DEF Recorded
<1> QED
  BY <1>5, <1>6, <1>7


LEMMA FilesUnchanged ==
    ASSUME files' = files
    PROVE  Generation(files') = Generation(files) /\ SameManifest(files, files')
  BY DEF SameManifest

LEMMA CloseLogs ==
    ASSUME PoweredInv, LogInv, Close
    PROVE  LogInv'
<1>1. /\ phase = "release" /\ plan = <<>> /\ attempt' = attempt + 1
      /\ phase' = "announce" /\ UNCHANGED <<logged, faults>>
      /\ files' = Closed(files) \/ files' = files
  BY DEF Close, Done, EnterPhase, DatabaseBecomes, fileVars
<1>2. PoweredInv'
  BY CloseMoves
<1>3. Whole(files) /\ Extra(files) = {} /\ Database \in Nat
  <2>1. ClearsUp(files, <<>>)
    BY <1>1 DEF PoweredInv, Stage
  <2> QED
    BY <2>1, ClearedUp, Versions DEF PoweredInv
<1>4. Generation(files') = Generation(files)
  <2>1. CASE files' = Closed(files)
    BY <1>3, <2>1, DatabaseClosed DEF Database, Generation
  <2>2. CASE files' = files
    BY <2>2
  <2> QED
    BY <1>1, <2>1, <2>2
<1>5. attempt \in 0..MaxAttempt /\ attempt < MaxAttempt /\ MaxAttempt \in Nat
  BY <1>1, RestoreAssumption DEF LogInv
<1>6. attempt' \in attempt..MaxAttempt
  BY <1>1, <1>5
<1>7. Log \notin Ops(plan)
  BY <1>1, NoOps
<1> QED
  BY <1>1, <1>2, <1>4, <1>6, <1>7, NoRowLogs

LEMMA WriteLogs ==
    ASSUME PoweredInv, LogInv, WriteSnapshot
    PROVE  LogInv'
<1>1. /\ phase = "ready" /\ phase' = "ready" /\ UNCHANGED <<logged, faults, attempt>>
      /\ files' = Written(files, written + 1)
  BY DEF WriteSnapshot, DatabaseBecomes
<1>2. PoweredInv'
  BY WriteMoves
<1>3. Whole(files) /\ AtRest(files) /\ written + 1 \in Nat
  BY <1>1 DEF PoweredInv, Stage
<1>4. Generation(files') = Generation(files) /\ SameManifest(files, files')
  BY <1>1, <1>3, DatabaseWritten DEF Generation
<1>5. attempt' \in attempt..MaxAttempt
  BY <1>1, RestoreAssumption DEF LogInv
<1> QED
  BY <1>1, <1>2, <1>4, <1>5, NoRowLogs

(* The other moves change no file.                                          *)
LEMMA MoveLogs ==
    ASSUME PoweredInv, PoweredInv', LogInv, UNCHANGED <<files, logged, faults, attempt>>,
           phase' = "release" => attempt < MaxAttempt,
           Committed(files) => \/ phase' \notin {"release", "cleanup", "complete"}
                               \/ Log \in Ops(plan')
                               \/ phase' = phase /\ plan' = plan
    PROVE  LogInv'
<1>1. attempt' \in attempt..MaxAttempt
  BY RestoreAssumption DEF LogInv
<1>2. Generation(files') = Generation(files) /\ SameManifest(files, files')
  BY FilesUnchanged
<1>3. CASE phase' = phase /\ plan' = plan
  BY <1>1, <1>2, <1>3, NoRowLogs
<1>4. CASE ~(phase' = phase /\ plan' = plan)
  BY <1>1, <1>2, <1>4, NoRowLogs
<1> QED
  BY <1>3, <1>4

LEMMA CommandLogs ==
    ASSUME PoweredInv, PoweredInv', LogInv,
           \/ RefuseRestore \/ BeginRestore \/ Evacuate \/ Install \/ CommitRestore
           \/ CleanUp \/ AnswerRestored \/ AnswerKept
           \/ StartUp \/ Start \/ Quit \/ Kill
    PROVE  LogInv'
<1> DEFINE ops == IF Committed(files) THEN CleanupCommitted(files) ELSE <<>>
<1>1. UNCHANGED <<files, logged, faults, attempt>>
  BY DEF RefuseRestore, BeginRestore, Evacuate, Install, CommitRestore, CleanUp,
     AnswerRestored, AnswerKept, StartUp, Reconcile, CompleteReconciled, OpenShop,
     Start, Quit, Kill, Answer, EnterPhase, fileVars, restoreVars
<1>2. Committed(files) => Log \in Ops(ops)
  BY CleanupLogs
<1>3. CASE BeginRestore
  <2>1. phase' = "release" /\ plan' = ops /\ attempt < MaxAttempt
    BY <1>3 DEF BeginRestore, EnterPhase
  <2> HIDE DEF ops
  <2> QED
    BY <1>1, <1>2, <2>1, MoveLogs
<1>4. CASE CleanUp
  <2>1. phase' = "cleanup" /\ plan' = CleanupCommitted(files)
    BY <1>4 DEF CleanUp, EnterPhase
  <2> QED
    BY <1>1, <2>1, CleanupLogs, MoveLogs
<1>5. CASE CompleteReconciled
  <2>1. phase' = "complete" /\ plan' = ops
    BY <1>5 DEF CompleteReconciled, EnterPhase
  <2> HIDE DEF ops
  <2> QED
    BY <1>1, <1>2, <2>1, MoveLogs
<1>6. CASE ~BeginRestore /\ ~CleanUp /\ ~CompleteReconciled
  <2>1. phase' \notin {"release", "cleanup", "complete"}
    BY <1>6 DEF RefuseRestore, Evacuate, Install, CommitRestore,
       AnswerRestored, AnswerKept, StartUp, Reconcile, OpenShop,
       Start, Quit, Kill, Answer, EnterPhase
  <2> QED
    BY <1>1, <2>1, MoveLogs
<1> QED
  BY <1>3, <1>4, <1>5, <1>6

(* Nothing is said of the log once an operation has failed.                 *)
LEMMA FailureLogs ==
    ASSUME PoweredInv, LogInv, Failure
    PROVE  LogInv'
<1>1. UNCHANGED <<logged, attempt>> /\ faults' = faults + 1
  BY DEF Failure, FailToAnnounce, FailToEvacuate, FailToInstall, FailForGood,
     FailToReconnect, FailToReleaseLog, FailToCleanUp, FailToComplete,
     FailToReconcile, Fault, Answer, faultless
<1>2. faults' # 0
  BY <1>1 DEF PoweredInv, RemainsInv
<1>3. phase' = "release" => phase = "release"
  BY DEF Failure, FailToAnnounce, FailToEvacuate, FailToInstall, FailForGood,
     FailToReconnect, FailToReleaseLog, FailToCleanUp, FailToComplete,
     FailToReconcile, EnterPhase, Answer
<1> QED
  BY <1>1, <1>2, <1>3 DEF LogInv

LEMMA LogInit ==
    Init => LogInv
<1> SUFFICES ASSUME Init PROVE LogInv
  OBVIOUS
<1>1. /\ files[Original("main")] = [gen |-> 0, version |-> 1]
      /\ DOMAIN files = {Original("main")}
      /\ attempt = 0 /\ phase = "ready"
      /\ logged = [n \in 1..MaxAttempt |-> 0]
  BY DEF Init
<1>2. BackupSet(files) = {}
  BY <1>1, NamesDiffer DEF BackupSet, Has, Part
<1>3. Generation(files) = 0
  BY <1>1, <1>2 DEF Generation, Kept, From
<1> QED
  BY <1>1, <1>3, RestoreAssumption DEF LogInv, Recorded

LEMMA LogNext ==
    PoweredInv /\ PoweredInv' /\ LogInv /\ [Program \/ Failure]_vars => LogInv'
<1> SUFFICES ASSUME PoweredInv, PoweredInv', LogInv, [Program \/ Failure]_vars
             PROVE  LogInv'
  OBVIOUS
<1>1. CASE Program
  BY <1>1, StepLogs, WriteLogs, CloseLogs, CommandLogs DEF Program, RestoreCommand
<1>2. CASE Failure
  BY <1>2, FailureLogs
<1>3. CASE UNCHANGED vars
  <2>1. UNCHANGED <<files, phase, plan, logged, faults, attempt>>
    BY <1>3 DEF vars, fileVars
  <2>2. phase' = "release" => attempt < MaxAttempt
    BY <2>1 DEF LogInv
  <2> QED
    BY <2>1, <2>2, MoveLogs
<1> QED
  BY <1>1, <1>2, <1>3

(* MNT-01-D5, R4: as long as the power stays, a restore that took effect and  *)
(* met no failure has its row in the operation log, however often it was     *)
(* killed, and no restore ever has two.                                     *)
THEOREM RestoresAreLogged == PoweredSpec => []LogsEachRestoreOnce
<1>1. PoweredInv /\ LogInv => LogsEachRestoreOnce
  <2> SUFFICES ASSUME PoweredInv, LogInv PROVE LogsEachRestoreOnce
    OBVIOUS
  <2>1. /\ logged \in [1..MaxAttempt -> {0, 1}] /\ attempt \in 0..MaxAttempt
        /\ MaxAttempt \in Nat
    BY RestoreAssumption DEF LogInv
  <2>2. \A n \in 1..attempt : logged[n] <= 1
    <3> SUFFICES ASSUME NEW n \in 1..attempt PROVE logged[n] <= 1
      OBVIOUS
    <3>1. n \in 1..MaxAttempt
      BY <2>1
    <3>2. logged[n] \in {0, 1}
      BY <2>1, <3>1
    <3> QED
      BY <3>2
  <2>3. ASSUME faults = 0, phase = "ready", ~Has(files, Manifest),
               NEW n \in 1..attempt, files[Original("main")].gen = n
        PROVE  logged[n] = 1
    <3>1. AtRest(files) /\ ~Committed(files)
      BY <2>3 DEF PoweredInv, Stage, Committed, Readable
    <3>2. Generation(files) = n
      BY <2>3, <3>1 DEF AtRest, Generation, Kept, From
    <3>3. n # 0
      BY <2>1, <2>3
    <3> QED
      BY <2>3, <3>1, <3>2, <3>3 DEF LogInv, Recorded
  <2> QED
    BY <2>2, <2>3 DEF LogsEachRestoreOnce
<1>2. Init => PoweredInv /\ LogInv
  BY PoweredInit, LogInit
<1>3. PoweredInv /\ LogInv /\ [Program \/ Failure]_vars => PoweredInv' /\ LogInv'
  BY PoweredNext, LogNext
<1> QED
  BY <1>1, <1>2, <1>3, PTL DEF PoweredSpec

=============================================================================
