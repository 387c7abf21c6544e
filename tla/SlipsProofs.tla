---------------------------- MODULE SlipsProofs ----------------------------
(***************************************************************************)
(* Slips for any slips, products and bounds: a key never goes out with two  *)
(* contents, the commands with their screens implement SlipLedger, and a     *)
(* manual sale is recorded only after the warnings it needs.                *)
(***************************************************************************)
EXTENDS Slips, TLAPS

(* What travels belongs to a key that was issued; what belongs to the        *)
(* present key is alone on its way, while the screen waits for it.           *)
Shapes ==
    /\ keys \in Nat /\ form.key = keys
    /\ form = [slip |-> form.slip, key |-> form.key, failed |-> form.failed,
               token |-> form.token, saving |-> form.saving, saved |-> form.saved]
    /\ form.slip \in Slip \cup {Blank}
    /\ \A r \in requests :
          r.key \in Nat /\ r.key <= keys /\ r.slip \in Slip \cup {Blank}
    /\ \A a \in answers : a.key \in Nat /\ a.key <= keys
    /\ \A e \in book :
          /\ e = [key |-> e.key, slip |-> e.slip]
          /\ e.key \in Nat /\ e.key <= keys /\ e.slip \in Slip \cup {Blank}

OneOnItsWay ==
    /\ \A r \in requests : r.key = keys => form.saving /\ r.slip = form.slip
    /\ \A a \in answers : a.key = keys => form.saving
    /\ \A r1, r2 \in requests : r1.key = keys /\ r2.key = keys => r1 = r2
    /\ \A a1, a2 \in answers : a1.key = keys /\ a2.key = keys => a1 = a2
    /\ \A r \in requests, a \in answers : ~(r.key = keys /\ a.key = keys)

(* The screen's memory of a failure is of the slip it shows, and it has one   *)
(* when the present key may be in the book.                                 *)
FailureRemembered ==
    /\ form.failed \in {NoSignature, Signature(form.slip)}
    /\ form.saving => form.failed = Signature(form.slip)
    /\ \A e \in book : e.key = keys => form.failed = Signature(e.slip)

(* A key stands for one content, in the book and on its way.                 *)
OneContent ==
    /\ \A r1, r2 \in requests : r1.key = r2.key => Signature(r1.slip) = Signature(r2.slip)
    /\ \A r \in requests, e \in book : r.key = e.key => Signature(r.slip) = Signature(e.slip)

SavedIsInBook ==
    \A a \in answers : a.is = "saved" => \E e \in book : e.key = a.key

IInv == Shapes /\ OneOnItsWay /\ FailureRemembered /\ OneContent /\ SavedIsInBook

-----------------------------------------------------------------------------
LEMMA SignatureIsSlip ==
    ASSUME NEW s \in Slip \cup {Blank}, NEW t \in Slip \cup {Blank},
           Signature(s) = Signature(t)
    PROVE  s = t
<1>1. \A u \in Slip \cup {Blank} :
          u = [kind |-> u.kind, head |-> u.head, processed |-> u.processed,
               lines |-> u.lines, aside |-> u.aside]
  BY SlipAssumption DEF Blank
<1> QED
  BY <1>1 DEF Signature

LEMMA SignatureIsSome ==
    ASSUME NEW s PROVE Signature(s) # NoSignature
<1>1. Len(Signature(s)) = 5 /\ Len(NoSignature) = 0
  BY DEF Signature, NoSignature
<1> QED
  BY <1>1

LEMMA SignatureFixesFingerprint ==
    ASSUME NEW s, NEW t, Signature(s) = Signature(t)
    PROVE  Fingerprint(s) = Fingerprint(t) /\ s.kind = t.kind
  BY DEF Signature, Fingerprint

LEMMA InitInv == Init => IInv
<1> SUFFICES ASSUME Init PROVE IInv
  OBVIOUS
<1>1. form = Fresh(1, Blank) /\ keys = 1 /\ requests = {} /\ answers = {} /\ book = {}
  BY DEF Init
<1> QED
  BY <1>1 DEF Fresh, IInv, Shapes, OneOnItsWay, FailureRemembered, OneContent, SavedIsInBook

(* A new key: nothing on its way and nothing in the book belongs to it.      *)
LEMMA NewKeyInv ==
    ASSUME IInv, NEW s \in Slip \cup {Blank},
           keys' = keys + 1,
           \/ form' = Fresh(keys', s)
           \/ form' = [Fresh(keys', s) EXCEPT !.saved = TRUE],
           requests' \subseteq requests, answers' \subseteq answers, book' = book
    PROVE  IInv'
<1>1. /\ form'.slip = s /\ form'.key = keys' /\ form'.failed = NoSignature
      /\ form'.saving = FALSE
      /\ form' = [slip |-> form'.slip, key |-> form'.key, failed |-> form'.failed,
                  token |-> form'.token, saving |-> form'.saving, saved |-> form'.saved]
  BY DEF Fresh
<1>2. /\ \A r \in requests' : r.key # keys'
      /\ \A a \in answers' : a.key # keys'
      /\ \A e \in book' : e.key # keys'
  BY DEF IInv, Shapes
<1>3. Shapes'
  BY <1>1 DEF IInv, Shapes
<1>4. OneOnItsWay' /\ FailureRemembered'
  BY <1>1, <1>2 DEF OneOnItsWay, FailureRemembered
<1>5. OneContent' /\ SavedIsInBook'
  BY DEF IInv, OneContent, SavedIsInBook
<1> QED
  BY <1>3, <1>4, <1>5 DEF IInv

(* An answer takes the place of its command, with or without a record.       *)
LEMMA ReplyInv ==
    ASSUME IInv, NEW r \in requests, NEW a, a.key = r.key,
           requests' = requests \ {r}, answers' = answers \cup {a},
           \/ book' = book
           \/ book' = book \cup {[key |-> r.key, slip |-> r.slip]},
           a.is = "saved" => \E e \in book' : e.key = a.key,
           form' = form, keys' = keys
    PROVE  IInv'
<1> DEFINE new == [key |-> r.key, slip |-> r.slip]
<1>1. book' \subseteq book \cup {new} /\ book \subseteq book'
      /\ new.key = r.key /\ new.slip = r.slip
      /\ new = [key |-> new.key, slip |-> new.slip]
  OBVIOUS
<1> HIDE DEF new
<1>2. Shapes'
  BY <1>1 DEF IInv, Shapes
<1>3. OneOnItsWay'
  BY DEF IInv, OneOnItsWay
<1>4. FailureRemembered'
  <2>1. r.key = keys => form.failed = Signature(new.slip)
    BY <1>1 DEF IInv, OneOnItsWay, FailureRemembered
  <2> QED
    BY <1>1, <2>1 DEF IInv, FailureRemembered
<1>5. OneContent'
  BY <1>1 DEF IInv, OneContent
<1>6. SavedIsInBook'
  BY <1>1 DEF IInv, SavedIsInBook
<1> QED
  BY <1>2, <1>3, <1>4, <1>5, <1>6 DEF IInv

LEMMA CommandInv == ASSUME IInv, Command PROVE IInv'
<1>1. PICK r \in requests :
          Replay(r) \/ AskConfirmation(r) \/ RefuseToken(r) \/ Record(r) \/ RefuseStock(r)
  BY DEF Command
<1>2. CASE Replay(r)
  <2>1. PICK e \in WithKey(r) :
            Reply(r, IF Fingerprint(e.slip) = Fingerprint(r.slip)
                     THEN SavedAnswer(r) ELSE ErrorAnswer(r))
    BY <1>2 DEF Replay
  <2>2. e \in book /\ e.key = r.key
    BY DEF WithKey
  <2>3. \/ Reply(r, SavedAnswer(r))
        \/ Reply(r, ErrorAnswer(r))
    BY <2>1
  <2>4. book' = book
    BY <1>2 DEF Replay
  <2> QED
    BY <2>2, <2>3, <2>4, ReplyInv DEF Reply, SavedAnswer, ErrorAnswer
<1>3. CASE AskConfirmation(r)
  <2> DEFINE a == [is |-> "needs_confirmation", key |-> r.key,
                   token |-> Token(r.slip), warnings |-> Warnings(r.slip)]
  <2>1. Reply(r, a) /\ book' = book /\ a.key = r.key /\ a.is # "saved"
    BY <1>3 DEF AskConfirmation
  <2> HIDE DEF a
  <2> QED
    BY <2>1, ReplyInv DEF Reply
<1>4. CASE RefuseToken(r) \/ RefuseStock(r)
  BY <1>4, ReplyInv DEF RefuseToken, RefuseStock, Reply, ErrorAnswer
<1>5. CASE Record(r)
  <2> DEFINE new == [key |-> r.key, slip |-> r.slip]
  <2>1. Reply(r, SavedAnswer(r)) /\ book' = book \cup {new}
    BY <1>5 DEF Record
  <2>2. new \in book' /\ new.key = r.key
    BY <2>1
  <2>3. SavedAnswer(r).key = r.key
    BY DEF SavedAnswer
  <2>4. \E e \in book' : e.key = SavedAnswer(r).key
    BY <2>2, <2>3
  <2> QED
    BY <2>1, <2>3, <2>4, ReplyInv DEF Reply
<1> QED
  BY <1>1, <1>2, <1>3, <1>4, <1>5

LEMMA FailCommandInv ==
    ASSUME IInv, NEW r \in requests, FailCommand(r)
    PROVE  IInv'
  BY ReplyInv DEF FailCommand, Reply, ErrorAnswer

LEMMA EditInv == ASSUME IInv, Edit PROVE IInv'
<1>1. PICK s \in Slip :
          /\ ~form.saving
          /\ IF NeedsNewKey(s)
             THEN keys' = keys + 1 /\ form' = Fresh(keys', s)
             ELSE /\ form' = [form EXCEPT !.slip = s, !.token = NoToken]
                  /\ keys' = keys
  BY DEF Edit, Locked
<1>2. requests' = requests /\ answers' = answers /\ book' = book
  BY DEF Edit, database
<1>3. CASE NeedsNewKey(s)
  BY <1>1, <1>2, <1>3, NewKeyInv
<1>4. CASE ~NeedsNewKey(s)
  <2>1. /\ form'.slip = s /\ form'.key = form.key /\ form'.failed = form.failed
        /\ form'.saving = form.saving
        /\ form' = [slip |-> form'.slip, key |-> form'.key, failed |-> form'.failed,
                    token |-> form'.token, saving |-> form'.saving, saved |-> form'.saved]
    BY <1>1, <1>4 DEF IInv, Shapes
  <2>2. form.failed \in {NoSignature, Signature(s)}
    BY <1>4 DEF NeedsNewKey
  <2>3. Shapes'
    BY <1>1, <1>2, <1>4, <2>1 DEF IInv, Shapes
  <2>4. OneOnItsWay' /\ FailureRemembered'
    BY <1>1, <1>2, <1>4, <2>1, <2>2 DEF IInv, OneOnItsWay, FailureRemembered
  <2>5. OneContent' /\ SavedIsInBook'
    BY <1>2 DEF IInv, OneContent, SavedIsInBook
  <2> QED
    BY <2>3, <2>4, <2>5 DEF IInv
<1> QED
  BY <1>3, <1>4

LEMMA SubmitInv == ASSUME IInv, Submit PROVE IInv'
<1> DEFINE r == [key |-> form.key, slip |-> form.slip, token |-> form.token]
<1>1. /\ ~form.saving /\ form' = [form EXCEPT !.saving = TRUE, !.failed = Signature(form.slip)]
      /\ requests' = requests \cup {r} /\ answers' = answers /\ book' = book /\ keys' = keys
      /\ r.key = form.key /\ r.slip = form.slip
  BY DEF Submit, Locked, database
<1> HIDE DEF r
<1>2. /\ form'.slip = form.slip /\ form'.key = form.key
      /\ form'.failed = Signature(form.slip) /\ form'.saving = TRUE
      /\ form' = [slip |-> form'.slip, key |-> form'.key, failed |-> form'.failed,
                  token |-> form'.token, saving |-> form'.saving, saved |-> form'.saved]
  BY <1>1 DEF IInv, Shapes
<1>3. \A x \in requests : x.key # keys
  BY <1>1 DEF IInv, OneOnItsWay
<1>4. \A a \in answers : a.key # keys
  BY <1>1 DEF IInv, OneOnItsWay
<1>5. \A e \in book : e.key = keys => Signature(e.slip) = Signature(form.slip)
  BY SignatureIsSome DEF IInv, FailureRemembered
<1>6. Shapes'
  BY <1>1, <1>2 DEF IInv, Shapes
<1>7. OneOnItsWay'
  BY <1>1, <1>2, <1>3, <1>4 DEF IInv, OneOnItsWay, Shapes
<1>8. FailureRemembered'
  BY <1>1, <1>2, <1>5 DEF FailureRemembered
<1>9. OneContent' /\ SavedIsInBook'
  BY <1>1, <1>3, <1>5 DEF IInv, OneContent, SavedIsInBook, Shapes
<1> QED
  BY <1>6, <1>7, <1>8, <1>9 DEF IInv

(* An answer to the present key ends the waiting.                           *)
LEMMA AnsweredInv == ASSUME IInv, Answered PROVE IInv'
<1>1. PICK a \in answers : Saved(a) \/ AskedToConfirm(a) \/ Failed(a) \/ Dropped(a)
  BY DEF Answered
<1>2. answers' = answers \ {a} /\ requests' = requests /\ book' = book
  BY <1>1 DEF Saved, AskedToConfirm, Failed, Dropped, Receive, database
<1>3. CASE Saved(a)
  BY <1>2, <1>3, NewKeyInv DEF Saved, IInv, Shapes
<1>4. CASE Dropped(a)
  <2>1. form' = form /\ keys' = keys
    BY <1>4 DEF Dropped
  <2>2. Shapes' /\ FailureRemembered'
    BY <1>2, <2>1 DEF IInv, Shapes, FailureRemembered
  <2>3. OneOnItsWay' /\ OneContent' /\ SavedIsInBook'
    BY <1>2, <2>1 DEF IInv, OneOnItsWay, OneContent, SavedIsInBook
  <2> QED
    BY <2>2, <2>3 DEF IInv
<1>5. CASE AskedToConfirm(a) \/ Failed(a)
  <2>1. /\ form'.slip = form.slip /\ form'.key = form.key
        /\ form'.failed = form.failed /\ form'.saving = FALSE /\ keys' = keys
        /\ form' = [slip |-> form'.slip, key |-> form'.key, failed |-> form'.failed,
                    token |-> form'.token, saving |-> form'.saving, saved |-> form'.saved]
        /\ a.key = keys
    BY <1>5 DEF AskedToConfirm, Failed, IInv, Shapes
  <2>2. /\ \A r \in requests : r.key # keys
        /\ \A b \in answers' : b.key # keys
    BY <1>2, <2>1 DEF IInv, OneOnItsWay
  <2>3. Shapes' /\ FailureRemembered'
    BY <1>2, <2>1 DEF IInv, Shapes, FailureRemembered
  <2>4. OneOnItsWay'
    BY <1>2, <2>1, <2>2 DEF OneOnItsWay
  <2>5. OneContent' /\ SavedIsInBook'
    BY <1>2 DEF IInv, OneContent, SavedIsInBook
  <2> QED
    BY <2>3, <2>4, <2>5 DEF IInv
<1> QED
  BY <1>1, <1>3, <1>4, <1>5

LEMMA LoseAnswerInv ==
    ASSUME IInv, NEW a \in answers, LoseAnswer(a)
    PROVE  IInv'
<1>1. /\ answers' = (answers \ {a}) \cup {ErrorAnswer(a)}
      /\ requests' = requests /\ book' = book /\ form' = form /\ keys' = keys
      /\ ErrorAnswer(a).key = a.key /\ ErrorAnswer(a).is # "saved"
  BY DEF LoseAnswer, ErrorAnswer, database
<1>2. Shapes' /\ FailureRemembered'
  BY <1>1 DEF IInv, Shapes, FailureRemembered
<1>3. OneOnItsWay' /\ OneContent' /\ SavedIsInBook'
  BY <1>1 DEF IInv, OneOnItsWay, OneContent, SavedIsInBook
<1> QED
  BY <1>2, <1>3 DEF IInv

LEMMA NextInv == IInv /\ [Next]_vars => IInv'
<1> SUFFICES ASSUME IInv, [Next]_vars PROVE IInv'
  OBVIOUS
<1>1. CASE Edit
  BY <1>1, EditInv
<1>2. CASE Submit
  BY <1>2, SubmitInv
<1>3. CASE StartOver
  BY <1>3, NewKeyInv DEF StartOver, database
<1>4. CASE Command
  BY <1>4, CommandInv
<1>5. CASE Answered
  BY <1>5, AnsweredInv
<1>6. CASE Trouble
  <2>1. CASE Restart
    BY <2>1, NewKeyInv DEF Restart, database
  <2> QED
    BY <1>6, <2>1, FailCommandInv, LoseAnswerInv DEF Trouble
<1>7. CASE Register \/ UNCHANGED vars
  <2>1. UNCHANGED <<form, keys, requests, answers, book>>
    BY <1>7 DEF Register, MarkDirty, ConfirmExport, Marked, vars, database
  <2> QED
    BY <2>1 DEF IInv, Shapes, OneOnItsWay, FailureRemembered, OneContent, SavedIsInBook
<1> QED
  BY <1>1, <1>2, <1>3, <1>4, <1>5, <1>6, <1>7 DEF Next

-----------------------------------------------------------------------------
LEMMA Invariance == Spec => []IInv
<1>1. Init => IInv
  BY InitInv
<1>2. IInv /\ [Next]_vars => IInv'
  BY NextInv
<1> QED
  BY <1>1, <1>2, PTL DEF Spec

(* 62-ui-manual-sale.md 62.6: a recorded key comes again only with the        *)
(* content it was recorded with, whatever was lost, resent or changed in     *)
(* between.                                                                 *)
THEOREM KeysStandForOneContent == Spec => []KeysNeverConflict
<1>1. ASSUME IInv PROVE KeysNeverConflict
  <2> SUFFICES ASSUME NEW r \in requests, NEW e \in WithKey(r)
               PROVE  Fingerprint(e.slip) = Fingerprint(r.slip)
    BY DEF KeysNeverConflict
  <2>1. e \in book /\ e.key = r.key
    BY DEF WithKey
  <2>2. Signature(r.slip) = Signature(e.slip)
    BY <1>1, <2>1 DEF IInv, OneContent
  <2> QED
    BY <2>2, SignatureFixesFingerprint
<1> QED
  BY <1>1, Invariance, PTL

-----------------------------------------------------------------------------
(* A record is a new entry of the ledger: an entry under this key would have  *)
(* the same content, hence the same kind, and would have been found.         *)
LEMMA RecordEnters ==
    ASSUME IInv, NEW r \in requests, Record(r)
    PROVE  Promise!Enter([key |-> r.key, slip |-> r.slip]) /\ Promise!Next
<1> DEFINE new == [key |-> r.key, slip |-> r.slip]
<1>1. /\ book' = book \cup {new} /\ stock' = StockAfter(r.slip) /\ told' = told
      /\ WithKey(r) = {} /\ new.key = r.key /\ new.slip = r.slip
  BY DEF Record, Reply, AlreadyRecorded
<1> HIDE DEF new
<1>2. ASSUME NEW e \in book, e.key = r.key PROVE FALSE
  <2>1. Signature(r.slip) = Signature(e.slip)
    BY <1>2 DEF IInv, OneContent
  <2>2. e.slip.kind = r.slip.kind
    BY <2>1, SignatureFixesFingerprint
  <2> QED
    BY <1>1, <1>2, <2>2 DEF WithKey
<1>3. stock' = [p \in Product |-> stock[p] + Effect(new.slip, p)]
  BY <1>1 DEF StockAfter
<1>4. Promise!Enter(new)
  BY <1>1, <1>2, <1>3 DEF Promise!Enter
<1>5. new \in book'
  BY <1>1
<1> QED
  BY <1>4, <1>5 DEF Promise!Next, new

(* "Saved" is said of the slip on the screen, and it is the one recorded      *)
(* under the key: the failure remembered is of that slip.                    *)
LEMMA SavedTells ==
    ASSUME IInv, NEW a \in answers, Saved(a)
    PROVE  Promise!Next
<1> DEFINE new == [key |-> a.key, slip |-> form.slip]
<1>1. /\ a.is = "saved" /\ a.key = form.key /\ told' = told \cup {new}
      /\ book' = book /\ stock' = stock
  BY DEF Saved, Receive, database
<1>2. PICK e \in book : e.key = a.key
  BY <1>1 DEF IInv, SavedIsInBook
<1>3. form.failed = Signature(e.slip) /\ form.failed # NoSignature
  BY <1>1, <1>2, SignatureIsSome DEF IInv, FailureRemembered, Shapes
<1>4. Signature(e.slip) = Signature(form.slip)
  BY <1>3 DEF IInv, FailureRemembered
<1>5. e.slip \in Slip \cup {Blank} /\ form.slip \in Slip \cup {Blank}
  BY DEF IInv, Shapes
<1>6. e.slip = form.slip
  BY <1>4, <1>5, SignatureIsSlip
<1>7. e = [key |-> e.key, slip |-> e.slip]
  BY DEF IInv, Shapes
<1>8. new \in book
  BY <1>2, <1>6, <1>7
<1> HIDE DEF new
<1>9. Promise!Tell(new) /\ new \in told'
  BY <1>1, <1>8 DEF Promise!Tell
<1> QED
  BY <1>9 DEF Promise!Next

LEMMA StepKeepsPromise ==
    IInv /\ [Next]_vars => [Promise!Next]_<<book, stock, told>>
<1> SUFFICES ASSUME IInv, [Next]_vars
             PROVE  Promise!Next \/ UNCHANGED <<book, stock, told>>
  OBVIOUS
<1>1. CASE Command
  <2>1. PICK r \in requests :
            Replay(r) \/ AskConfirmation(r) \/ RefuseToken(r) \/ Record(r) \/ RefuseStock(r)
    BY <1>1 DEF Command
  <2>2. CASE Record(r)
    BY <2>2, RecordEnters
  <2>3. CASE Replay(r)
    BY <2>3 DEF Replay, Reply
  <2>4. CASE AskConfirmation(r) \/ RefuseToken(r) \/ RefuseStock(r)
    BY <2>4 DEF AskConfirmation, RefuseToken, RefuseStock, Reply
  <2> QED
    BY <2>1, <2>2, <2>3, <2>4
<1>2. CASE Answered
  <2>1. PICK a \in answers : Saved(a) \/ AskedToConfirm(a) \/ Failed(a) \/ Dropped(a)
    BY <1>2 DEF Answered
  <2>2. CASE Saved(a)
    BY <2>2, SavedTells
  <2>3. CASE AskedToConfirm(a) \/ Failed(a) \/ Dropped(a)
    BY <2>3 DEF AskedToConfirm, Failed, Dropped, Receive, database
  <2> QED
    BY <2>1, <2>2, <2>3
<1>3. CASE Edit \/ Submit \/ StartOver
  BY <1>3 DEF Edit, Submit, StartOver, database
<1>4. CASE Trouble
  BY <1>4 DEF Trouble, FailCommand, LoseAnswer, Restart, Reply, database
<1>5. CASE Register \/ UNCHANGED vars
  BY <1>5 DEF Register, MarkDirty, ConfirmExport, Marked, vars, database
<1> QED
  BY <1>1, <1>2, <1>3, <1>4, <1>5 DEF Next

(* INV-5, UI-02-D8: the screens and commands implement SlipLedger.  An        *)
(* attempt moves the stock once at most, and a slip called saved is in the   *)
(* book just as the screen shows it.                                        *)
THEOREM SlipsImplementTheLedger == Spec => SlipsAreKept
<1>1. Init => Promise!Init
  BY DEF Init, Promise!Init
<1>2. IInv /\ [Next]_vars => [Promise!Next]_<<book, stock, told>>
  BY StepKeepsPromise
<1> QED
  BY <1>1, <1>2, Invariance, PTL DEF Spec, SlipsAreKept, Promise!Spec
-----------------------------------------------------------------------------
(* The confirmation. *)

(* The products a token warns of: it holds the marks of every line.         *)
WarnedBy(token) ==
    {p \in Product : \E x \in DOMAIN token.marked :
        x[1].product = p /\ ~x[2].dirty /\ x[2].exported # 0}

LEMMA TokenFixesWarnings ==
    ASSUME NEW s, Warnings(s) # {}
    PROVE  WarnedBy(Token(s)) = Warnings(s) /\ Token(s) # NoToken
<1> DEFINE marked == [i \in DOMAIN s.lines |->
                         <<s.lines[i], marks[s.lines[i].product]>>]
<1>1. Warnings(s) = {p \in Product :
          Ringable(p) /\ \E i \in DOMAIN s.lines : s.lines[i].product = p}
  BY DEF Warnings, Range
<1>2. DOMAIN Token(s).marked
        = {<<s.lines[i], marks[s.lines[i].product]>> : i \in DOMAIN s.lines}
  <2>1. DOMAIN Token(s).marked = Range(marked)
    BY DEF Token, Sorted
  <2> QED
    BY <2>1 DEF Range
<1>3. ASSUME NEW p \in Product
      PROVE  p \in WarnedBy(Token(s)) <=> p \in Warnings(s)
  <2>1. p \in WarnedBy(Token(s)) <=> \E i \in DOMAIN s.lines :
            /\ s.lines[i].product = p
            /\ ~marks[s.lines[i].product].dirty
            /\ marks[s.lines[i].product].exported # 0
    <3> DEFINE pair(i) == <<s.lines[i], marks[s.lines[i].product]>>
    <3>1. \A i : /\ pair(i)[1] = s.lines[i]
                 /\ pair(i)[2] = marks[s.lines[i].product]
      OBVIOUS
    <3>2. DOMAIN Token(s).marked = {pair(i) : i \in DOMAIN s.lines}
      BY <1>2
    <3> HIDE DEF pair
    <3>3. p \in WarnedBy(Token(s)) <=>
              \E x \in {pair(i) : i \in DOMAIN s.lines} :
                 x[1].product = p /\ ~x[2].dirty /\ x[2].exported # 0
      BY <3>2 DEF WarnedBy
    <3> QED
      BY <3>1, <3>3
  <2> QED
    BY <1>1, <2>1 DEF Ringable
<1>4. Token(s) # NoToken
  <2>1. DOMAIN Token(s).marked # {}
    <3>1. DOMAIN s.lines # {}
      BY <1>1
    <3> QED
      BY <1>2, <3>1
  <2>2. DOMAIN NoToken.marked = {}
    BY DEF NoToken
  <2> QED
    BY <2>1, <2>2
<1> QED
  BY <1>1, <1>3, <1>4 DEF WarnedBy

(* Whoever holds a token has been shown what it warns of, for the slip it   *)
(* is held with; an answer that brings a token brings these warnings.       *)
Shown(slip, token) ==
    token # NoToken => [slip |-> slip, warnings |-> WarnedBy(token)] \in shown

ConfirmationInvariant ==
    /\ \A a \in answers :
          a.is = "needs_confirmation" => a.warnings = WarnedBy(a.token)
    /\ Shown(form.slip, form.token)
    /\ \A r \in requests : Shown(r.slip, r.token)

LEMMA ConfirmationStep ==
    IInv /\ ConfirmationInvariant /\ [Next]_vars => ConfirmationInvariant'
<1> SUFFICES ASSUME IInv, ConfirmationInvariant, [Next]_vars
             PROVE  ConfirmationInvariant'
  OBVIOUS
<1>1. form = [slip |-> form.slip, key |-> form.key, failed |-> form.failed,
              token |-> form.token, saving |-> form.saving, saved |-> form.saved]
  BY DEF IInv, Shapes
<1>2. ASSUME answers' \subseteq answers, requests' \subseteq requests,
             shown' = shown,
             \/ form'.token = NoToken
             \/ form'.token = form.token /\ form'.slip = form.slip
      PROVE  ConfirmationInvariant'
  BY <1>2 DEF ConfirmationInvariant, Shown
<1>3. ASSUME NEW slip PROVE /\ Fresh(keys', slip).token = NoToken
                            /\ [Fresh(keys', slip) EXCEPT !.saved = TRUE].token
                                 = NoToken
  BY DEF Fresh
<1>4. CASE Edit
  <2>1. form'.token = NoToken
    BY <1>1, <1>3, <1>4 DEF Edit
  <2> QED
    BY <1>2, <1>4, <2>1 DEF Edit
<1>5. CASE Submit
  <2> DEFINE r == [key |-> form.key, slip |-> form.slip, token |-> form.token]
  <2>1. /\ form' = [form EXCEPT !.saving = TRUE, !.failed = Signature(form.slip)]
        /\ requests' = requests \cup {r} /\ answers' = answers /\ shown' = shown
        /\ r.slip = form.slip /\ r.token = form.token
    BY <1>5 DEF Submit
  <2>2. form'.slip = form.slip /\ form'.token = form.token
    BY <1>1, <2>1
  <2> HIDE DEF r
  <2> QED
    BY <2>1, <2>2 DEF ConfirmationInvariant, Shown
<1>6. CASE StartOver \/ Restart
  BY <1>2, <1>3, <1>6 DEF StartOver, Restart
<1>7. ASSUME NEW r \in requests, NEW a, Reply(r, a),
             a.is = "needs_confirmation" => a.warnings = WarnedBy(a.token)
      PROVE  ConfirmationInvariant'
  BY <1>7 DEF Reply, ConfirmationInvariant, Shown
<1>8. CASE Command
  <2>1. PICK r \in requests :
            Replay(r) \/ AskConfirmation(r) \/ RefuseToken(r) \/ Record(r) \/ RefuseStock(r)
    BY <1>8 DEF Command
  <2>2. SavedAnswer(r).is = "saved" /\ ErrorAnswer(r).is = "error"
    BY DEF SavedAnswer, ErrorAnswer
  <2>3. CASE AskConfirmation(r)
    <3> DEFINE a == [is |-> "needs_confirmation", key |-> r.key,
                     token |-> Token(r.slip), warnings |-> Warnings(r.slip)]
    <3>1. Warnings(r.slip) # {} /\ Reply(r, a)
      BY <2>3 DEF AskConfirmation
    <3>2. a.warnings = WarnedBy(a.token)
      BY <3>1, TokenFixesWarnings
    <3> HIDE DEF a
    <3> QED
      BY <1>7, <3>1, <3>2
  <2>4. CASE Replay(r) \/ RefuseToken(r) \/ Record(r) \/ RefuseStock(r)
    <3>1. Reply(r, SavedAnswer(r)) \/ Reply(r, ErrorAnswer(r))
      <4>1. CASE Replay(r)
        <5>1. PICK e \in WithKey(r) :
                  Reply(r, IF Fingerprint(e.slip) = Fingerprint(r.slip)
                           THEN SavedAnswer(r) ELSE ErrorAnswer(r))
          BY <4>1 DEF Replay
        <5> QED
          BY <5>1
      <4> QED
        BY <2>4, <4>1 DEF RefuseToken, Record, RefuseStock
    <3> QED
      BY <1>7, <2>2, <3>1
  <2> QED
    BY <2>1, <2>3, <2>4
<1>9. CASE Answered
  <2>1. PICK a \in answers : Saved(a) \/ AskedToConfirm(a) \/ Failed(a) \/ Dropped(a)
    BY <1>9 DEF Answered
  <2>2. answers' = answers \ {a} /\ requests' = requests
    BY <2>1 DEF Saved, AskedToConfirm, Failed, Dropped, Receive
  <2>3. CASE Saved(a)
    BY <1>2, <1>3, <2>2, <2>3 DEF Saved
  <2>4. CASE Failed(a) \/ Dropped(a)
    <3>1. /\ shown' = shown
          /\ form' = form \/ form' = [form EXCEPT !.saving = FALSE]
      BY <2>4 DEF Failed, Dropped
    <3>2. form'.token = form.token /\ form'.slip = form.slip
      BY <1>1, <3>1
    <3> QED
      BY <1>2, <2>2, <3>1, <3>2
  <2>5. CASE AskedToConfirm(a)
    <3>1. /\ a.is = "needs_confirmation"
          /\ form' = [form EXCEPT !.saving = FALSE, !.token = a.token]
          /\ shown' = shown \cup {[slip |-> form.slip, warnings |-> a.warnings]}
      BY <2>5 DEF AskedToConfirm
    <3>2. form'.token = a.token /\ form'.slip = form.slip
      BY <1>1, <3>1
    <3>3. a.warnings = WarnedBy(a.token)
      BY <3>1 DEF ConfirmationInvariant
    <3> QED
      BY <2>2, <3>1, <3>2, <3>3 DEF ConfirmationInvariant, Shown
  <2> QED
    BY <2>1, <2>3, <2>4, <2>5
<1>10. CASE \E r \in requests : FailCommand(r)
  BY <1>7, <1>10 DEF FailCommand, ErrorAnswer
<1>11. CASE \E a \in answers : LoseAnswer(a)
  <2>1. PICK a \in answers : LoseAnswer(a)
    BY <1>11
  <2>2. answers' = (answers \ {a}) \cup {ErrorAnswer(a)}
        /\ UNCHANGED <<form, requests, shown>> /\ ErrorAnswer(a).is = "error"
    BY <2>1 DEF LoseAnswer, ErrorAnswer
  <2> QED
    BY <2>2 DEF ConfirmationInvariant, Shown
<1>12. CASE Register \/ UNCHANGED vars
  <2>1. UNCHANGED <<form, requests, answers, shown>>
    BY <1>12 DEF Register, MarkDirty, ConfirmExport, Marked, vars
  <2> QED
    BY <1>2, <2>1
<1> QED
  BY <1>4, <1>5, <1>6, <1>8, <1>9, <1>10, <1>11, <1>12 DEF Next, Trouble

(* 31-biz-inventory-service.md 12.5: a sale of products the register could   *)
(* ring up at that moment is recorded only if the clerk has been shown just *)
(* these products for just this slip, however many confirmations, changes   *)
(* of the slip and moves of the marks came before.                          *)
THEOREM ClerksConfirmKnowingly == Spec => ConfirmedKnowingly
<1>1. Init => ConfirmationInvariant
  BY DEF Init, Fresh, ConfirmationInvariant, Shown
<1>2. Spec => []ConfirmationInvariant
  BY <1>1, ConfirmationStep, Invariance, PTL DEF Spec
<1>3. ASSUME ConfirmationInvariant, [Next]_vars, NEW e \in book' \ book,
             Warnings(e.slip) # {}
      PROVE  [slip |-> e.slip, warnings |-> Warnings(e.slip)] \in shown
  <2>1. CASE ~Command
    <3>1. UNCHANGED book
      BY <1>3, <2>1 DEF Next, Edit, Submit, StartOver, Answered, Saved,
         AskedToConfirm, Failed, Dropped, Receive, Trouble, FailCommand,
         LoseAnswer, Restart, Register, MarkDirty, ConfirmExport, Marked,
         database, vars
    <3> QED
      BY <3>1
  <2>2. CASE Command
    <3>1. PICK r \in requests : Record(r)
      BY <1>3, <2>2 DEF Command, Replay, AskConfirmation, RefuseToken, RefuseStock
    <3>2. e.slip = r.slip /\ Confirmed(r)
      BY <3>1 DEF Record
    <3>3. r.token = Token(r.slip)
      BY <1>3, <3>2 DEF Confirmed
    <3>4. /\ WarnedBy(r.token) = Warnings(r.slip)
          /\ r.token # NoToken
      BY <1>3, <3>2, <3>3, TokenFixesWarnings
    <3> QED
      BY <1>3, <3>2, <3>4 DEF ConfirmationInvariant, Shown
  <2> QED
    BY <2>1, <2>2
<1>4. ConfirmationInvariant /\ [Next]_vars =>
        [\A e \in book' \ book :
            Warnings(e.slip) # {} =>
                [slip |-> e.slip, warnings |-> Warnings(e.slip)] \in shown]_vars
  BY <1>3
<1> QED
  BY <1>2, <1>4, PTL DEF Spec, ConfirmedKnowingly
=============================================================================
