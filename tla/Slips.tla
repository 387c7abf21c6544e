------------------------------- MODULE Slips -------------------------------
(***************************************************************************)
(* Slips of stock movements: receiving, returns and exchanges, disposal and  *)
(* manual sales (biz/inventory_service/{receiving,returns,disposal,           *)
(* manual_sale}.rs) with the screen each is entered on (src/features/         *)
(* {receiving,return-exchange,disposal,manual-sale}).                       *)
(*                                                                         *)
(* The screen issues a key for each saving attempt.  A slip whose answer is   *)
(* an error may be sent again under the same key, because nobody knows       *)
(* whether it was recorded; after a change of the slip the key is a new one.  *)
(* A manual sale of products the register can ring up is recorded only with   *)
(* the token of a confirmation.                                             *)
(***************************************************************************)
EXTENDS Integers, Sequences, FiniteSets, Functions, FiniteSetsExt

CONSTANTS
    Product,        \* the products
    Slip,           \* the slips the clerk may enter
    InitialStock,   \* the stock of every product at first
    MaxStock,       \* MAX_STOCK_QUANTITY
    MaxKey,         \* bounds on the behaviours: saving attempts,
    MaxFault,       \*   commands and answers that fail,
    MaxEdit,        \*   changes of an entered slip,
    MaxExport       \*   register exports confirmed

(* A slip: what is written at its head, whether the register has processed   *)
(* it (returns), its lines in the order of the screen, and what is beside     *)
(* the point of the movement (note, receipt image).                         *)
Kind == {"receiving", "return", "disposal", "manual_sale"}

Line == [product : Product, qty : Nat \ {0}, out : BOOLEAN, amount : Nat]

ASSUME SlipAssumption ==
    /\ \A s \in Slip :
          /\ s = [kind |-> s.kind, head |-> s.head, processed |-> s.processed,
                  lines |-> s.lines, aside |-> s.aside]
          /\ s.kind \in Kind /\ s.processed \in BOOLEAN
          /\ s.lines \in Seq(Line)
    /\ InitialStock \in Int
    /\ {MaxStock, MaxKey, MaxFault, MaxEdit, MaxExport} \subseteq Nat

Blank == [kind |-> "none", head |-> "none", processed |-> FALSE, lines |-> <<>>,
          aside |-> "none"]

VARIABLES
    stock,          \* the database: product -> stock,
    book,           \*   the records, each with its idempotency key,
    marks,          \*   product -> the marks of the register export
    form,           \* the screen
    requests,       \* the commands sent and not carried out yet
    answers,        \* the answers on their way to the screen
    keys,           \* the number of keys issued
    shown,          \* the warnings the clerk has seen, and for which slip
    told,           \* the slips the screen has called saved, by key
    faults, edits   \* failures and changes so far

database == <<stock, book, marks>>
vars == <<stock, book, marks, form, requests, answers, keys, shown, told, faults, edits>>

-----------------------------------------------------------------------------
(* The sequences of lines compared without their order (sorted and hashed).  *)
Sorted(s) == [x \in Range(s) |-> Cardinality({i \in DOMAIN s : s[i] = x})]

Fingerprint(s) == <<s.kind, s.head, s.processed, Sorted(s.lines)>>

(* What the screen compares after a failure: all it shows, in its order.     *)
(* Mutated: without the note, as the fingerprint.                           *)
SignatureWithoutAside(s) == <<s.kind, s.head, s.processed, s.lines>>

Signature(s) == <<s.kind, s.head, s.processed, s.lines, s.aside>>

(* The movement a line stands for.                                          *)
Received(line) == line.qty
Disposed(line) == -line.qty
Sold(line) == -line.qty
Returned(s, line) ==
    IF s.processed THEN 0 ELSE IF line.out THEN -line.qty ELSE line.qty

Moved(s, line) ==
    CASE s.kind = "receiving" -> Received(line)
      [] s.kind = "disposal" -> Disposed(line)
      [] s.kind = "manual_sale" -> Sold(line)
      [] s.kind = "return" -> Returned(s, line)

Effect(s, p) ==
    MapThenSumSet(LAMBDA i : Moved(s, s.lines[i]),
                  {i \in DOMAIN s.lines : s.lines[i].product = p})

(* validate_return_request_shape, and the same checks on the screen.         *)
Shaped(s) ==
    /\ s.lines # <<>>
    /\ s.head = "return" => \A i \in DOMAIN s.lines : ~s.lines[i].out
    /\ s.head = "exchange" => {s.lines[i].out : i \in DOMAIN s.lines} = BOOLEAN

(* The products of a manual sale the register can ring up.                  *)
Ringable(p) == ~marks[p].dirty /\ marks[p].exported # 0

Warnings(s) ==
    IF s.kind # "manual_sale" THEN {}
    ELSE {p \in Product : Ringable(p) /\ \E l \in Range(s.lines) : l.product = p}

NoToken == [marked |-> <<>>]

(* Mutated: the token stands for the lines alone.                           *)
TokenOfLines(s) == [marked |-> Sorted(s.lines)]

Token(s) ==
    [marked |-> Sorted([i \in DOMAIN s.lines |->
                            <<s.lines[i], marks[s.lines[i].product]>>])]

-----------------------------------------------------------------------------
(* The screen.                                                              *)
NoSignature == <<>>

Fresh(key, slip) ==
    [slip |-> slip, key |-> key, failed |-> NoSignature, token |-> NoToken,
     saving |-> FALSE, saved |-> FALSE]

Init ==
    /\ stock = [p \in Product |-> InitialStock]
    /\ book = {}
    /\ marks \in [Product -> [dirty : BOOLEAN, exported : {0}]]
    /\ form = Fresh(1, Blank) /\ keys = 1
    /\ requests = {} /\ answers = {}
    /\ shown = {} /\ told = {}
    /\ faults = 0 /\ edits = 0

Locked == form.saving \/ form.saved

(* Mutated: dropping the confirmation keeps the key.                        *)
NeedsKeyOnlyAfterFailure(slip) ==
    form.token = NoToken /\ form.failed \notin {NoSignature, Signature(slip)}

NeedsNewKey(slip) ==
    \/ form.token # NoToken
    \/ form.failed \notin {NoSignature, Signature(slip)}

(* updateValues: the clerk enters the slip, or changes it.                   *)
Edit ==
    /\ ~Locked
    /\ \E s \in Slip :
          /\ s # form.slip /\ form.slip.kind \in {"none", s.kind}
          /\ edits' = IF form.slip = Blank THEN edits ELSE edits + 1
          /\ edits' <= MaxEdit
          /\ IF NeedsNewKey(s)
             THEN /\ keys < MaxKey /\ keys' = keys + 1
                  /\ form' = Fresh(keys', s)
             ELSE /\ form' = [form EXCEPT !.slip = s, !.token = NoToken]
                  /\ UNCHANGED keys
    /\ UNCHANGED <<database, requests, answers, shown, told, faults>>

(* mutate: a slip that fails the screen's own checks is not sent.            *)
(* Mutated: the confirmation is not sent with the slip.                     *)
SubmitUnconfirmed ==
    /\ ~Locked /\ Shaped(form.slip)
    /\ form' = [form EXCEPT !.saving = TRUE, !.failed = Signature(form.slip)]
    /\ requests' = requests \cup
          {[key |-> form.key, slip |-> form.slip, token |-> NoToken]}
    /\ UNCHANGED <<database, answers, keys, shown, told, faults, edits>>

Submit ==
    /\ ~Locked /\ Shaped(form.slip)
    /\ form' = [form EXCEPT !.saving = TRUE, !.failed = Signature(form.slip)]
    /\ requests' = requests \cup
          {[key |-> form.key, slip |-> form.slip, token |-> form.token]}
    /\ UNCHANGED <<database, answers, keys, shown, told, faults, edits>>

(* resetForm, or another screen: what was sent goes on.                      *)
StartOver ==
    /\ keys < MaxKey /\ keys' = keys + 1
    /\ form' = Fresh(keys', Blank)
    /\ UNCHANGED <<database, requests, answers, shown, told, faults, edits>>

(* onSuccess and onError; an answer to a screen that has gone is dropped.    *)
Receive(a) ==
    /\ answers' = answers \ {a}
    /\ UNCHANGED <<database, requests, faults, edits>>

Saved(a) ==
    /\ a.is = "saved" /\ a.key = form.key
    /\ Receive(a)
    /\ keys' = keys + 1
    /\ form' = [Fresh(keys', form.slip) EXCEPT !.saved = TRUE]
    /\ told' = told \cup {[key |-> a.key, slip |-> form.slip]}
    /\ UNCHANGED shown

AskedToConfirm(a) ==
    /\ a.is = "needs_confirmation" /\ a.key = form.key
    /\ Receive(a)
    /\ form' = [form EXCEPT !.saving = FALSE, !.token = a.token]
    /\ shown' = shown \cup {[slip |-> form.slip, warnings |-> a.warnings]}
    /\ UNCHANGED <<keys, told>>

Failed(a) ==
    /\ a.is = "error" /\ a.key = form.key
    /\ Receive(a)
    /\ form' = [form EXCEPT !.saving = FALSE]
    /\ UNCHANGED <<keys, shown, told>>

Dropped(a) ==
    /\ a.key # form.key
    /\ Receive(a)
    /\ UNCHANGED <<form, keys, shown, told>>

-----------------------------------------------------------------------------
(* The commands: each runs alone, under the lock of the connection.          *)
Reply(r, answer) ==
    /\ requests' = requests \ {r}
    /\ answers' = answers \cup {answer}
    /\ UNCHANGED <<marks, form, keys, shown, told, edits>>

SavedAnswer(r) == [is |-> "saved", key |-> r.key]
ErrorAnswer(r) == [is |-> "error", key |-> r.key]

WithKey(r) == {e \in book : e.key = r.key /\ e.slip.kind = r.slip.kind}

(* Sent again: answered from the book before anything else is looked at.     *)
AlreadyRecorded(r) == WithKey(r) # {}

Replay(r) ==
    /\ AlreadyRecorded(r)
    /\ \E e \in WithKey(r) :
          Reply(r, IF Fingerprint(e.slip) = Fingerprint(r.slip)
                   THEN SavedAnswer(r) ELSE ErrorAnswer(r))
    /\ UNCHANGED <<stock, book, faults>>

AskConfirmation(r) ==
    /\ ~AlreadyRecorded(r)
    /\ Warnings(r.slip) # {} /\ r.token = NoToken
    /\ Reply(r, [is |-> "needs_confirmation", key |-> r.key,
                 token |-> Token(r.slip), warnings |-> Warnings(r.slip)])
    /\ UNCHANGED <<stock, book, faults>>

StaleToken(r) ==
    Warnings(r.slip) # {} /\ r.token \notin {NoToken, Token(r.slip)}

RefuseToken(r) ==
    /\ ~AlreadyRecorded(r)
    /\ StaleToken(r)
    /\ Reply(r, ErrorAnswer(r))
    /\ UNCHANGED <<stock, book, faults>>

Confirmed(r) == Warnings(r.slip) = {} \/ r.token = Token(r.slip)

StockAfter(s) == [p \in Product |-> stock[p] + Effect(s, p)]

InRange(levels) == \A p \in Product : levels[p] \in -MaxStock..MaxStock

Record(r) ==
    /\ ~AlreadyRecorded(r) /\ Confirmed(r)
    /\ InRange(StockAfter(r.slip))
    /\ book' = book \cup {[key |-> r.key, slip |-> r.slip]}
    /\ stock' = StockAfter(r.slip)
    /\ Reply(r, SavedAnswer(r))
    /\ UNCHANGED faults

RefuseStock(r) ==
    /\ ~AlreadyRecorded(r) /\ Confirmed(r)
    /\ ~InRange(StockAfter(r.slip))
    /\ Reply(r, ErrorAnswer(r))
    /\ UNCHANGED <<stock, book, faults>>

(* The command fails before its commit: the transaction is undone.           *)
FailCommand(r) ==
    /\ faults < MaxFault /\ faults' = faults + 1
    /\ Reply(r, ErrorAnswer(r))
    /\ UNCHANGED <<stock, book>>

(* An answer is lost: the screen is given an error although all went well.   *)
LoseAnswer(a) ==
    /\ a.is # "error"
    /\ faults < MaxFault /\ faults' = faults + 1
    /\ answers' = (answers \ {a}) \cup {ErrorAnswer(a)}
    /\ UNCHANGED <<database, form, requests, keys, shown, told, edits>>

(* The program is closed and started again.                                 *)
Restart ==
    /\ faults < MaxFault /\ faults' = faults + 1
    /\ keys < MaxKey /\ keys' = keys + 1
    /\ form' = Fresh(keys', Blank)
    /\ requests' = {} /\ answers' = {}
    /\ UNCHANGED <<database, shown, told, edits>>

(* Meanwhile the register export moves its marks.                           *)
Marked ==
    UNCHANGED <<stock, book, form, requests, answers, keys, shown, told, faults, edits>>

MarkDirty(p) ==
    /\ ~marks[p].dirty
    /\ marks' = [marks EXCEPT ![p].dirty = TRUE]
    /\ Marked

ConfirmExport(p) ==
    LET latest == Max({marks[q].exported : q \in Product})
    IN  /\ latest < MaxExport
        /\ marks' = [marks EXCEPT ![p] = [dirty |-> FALSE, exported |-> latest + 1]]
        /\ Marked

-----------------------------------------------------------------------------
Command == \E r \in requests :
    Replay(r) \/ AskConfirmation(r) \/ RefuseToken(r) \/ Record(r) \/ RefuseStock(r)

Answered == \E a \in answers :
    Saved(a) \/ AskedToConfirm(a) \/ Failed(a) \/ Dropped(a)

Trouble ==
    \/ \E r \in requests : FailCommand(r)
    \/ \E a \in answers : LoseAnswer(a)
    \/ Restart

Register == \E p \in Product : MarkDirty(p) \/ ConfirmExport(p)

Next == Edit \/ Submit \/ StartOver \/ Command \/ Answered \/ Trouble \/ Register

Spec == Init /\ [][Next]_vars

(* The program carries out what it was sent and shows what comes back; the   *)
(* clerk presses "save" as long as the slip is not saved.                   *)
Fairness == WF_vars(Command) /\ WF_vars(Answered) /\ WF_vars(Submit)

FairSpec == Spec /\ Fairness

-----------------------------------------------------------------------------
TypeOK ==
    /\ stock \in [Product -> Int]
    /\ book \subseteq [key : 1..MaxKey, slip : Slip]
    /\ marks \in [Product -> [dirty : BOOLEAN, exported : Nat]]
    /\ form.slip \in Slip \cup {Blank} /\ form.key \in 1..keys
    /\ {form.saving, form.saved} \subseteq BOOLEAN
    /\ \A r \in requests : r.key \in 1..keys /\ r.slip \in Slip
    /\ \A a \in answers : a.key \in 1..keys
    /\ keys \in 1..(MaxKey + 1)
    /\ told \subseteq [key : 1..MaxKey, slip : Slip]

(* INV-5, UI-02-D8, UI-04-D10: with every retry, lost answer and change of   *)
(* the slip between two attempts, an attempt moves the stock once at most,    *)
(* and a slip called saved is in the book as the screen shows it, with its   *)
(* note.                                                                    *)
Promise == INSTANCE SlipLedger

SlipsAreKept == Promise!Spec

(* 62-ui-manual-sale.md 62.6: the screen never sends a recorded key with     *)
(* another content, so that no honest retry is refused as a conflict.        *)
KeysNeverConflict ==
    \A r \in requests : \A e \in WithKey(r) : Fingerprint(e.slip) = Fingerprint(r.slip)

(* 31-biz-inventory-service.md 12.5: a sale of products the register could    *)
(* ring up at that moment is recorded only if the clerk has been shown just   *)
(* these products for just this slip.                                       *)
ConfirmedKnowingly ==
    [][\A e \in book' \ book :
          Warnings(e.slip) # {} =>
              [slip |-> e.slip, warnings |-> Warnings(e.slip)] \in shown]_vars

(* A clerk who goes on saving gets the slip saved, leaves it, or holds a     *)
(* confirmation that has gone stale or a stock that would be out of range.    *)
AtRest ==
    \/ form.saved \/ form.slip = Blank
    \/ StaleToken([slip |-> form.slip, token |-> form.token])
    \/ ~Shaped(form.slip) \/ ~InRange(StockAfter(form.slip))

SavedInTheEnd == ~AtRest ~> AtRest
=============================================================================
