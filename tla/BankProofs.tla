------------------------------ MODULE BankProofs ------------------------------
(***************************************************************************)
(* Proofs about Bank, for every set of accounts, users, requests and tasks,*)
(* every number of attempts and every number of crashes.                   *)
(***************************************************************************)
EXTENDS Bank, TLAPS

(* The part of the invariant that speaks of one request's own state.       *)
Local(r) == PhaseInv(r) /\ BodyInv(r) /\ ImageInv(r) /\ FreshInv(r)

(* A step that leaves the state of request q alone.                        *)
Vanish(q) ==
  /\ op'[q] = op[q] /\ pc'[q] = pc[q] /\ attempt'[q] = attempt[q]
  /\ loaded'[q] = loaded[q] /\ record'[q] = record[q] /\ dirty'[q] = dirty[q]
  /\ image'[q] = image[q] /\ stale'[q] = stale[q] /\ answer'[q] = answer[q]

(* A request whose own state and documents stay keeps its part of the      *)
(* invariant.                                                              *)
LEMMA Frame ==
  ASSUME NEW q \in Request, Local(q), UNCHANGED docs, Vanish(q)
  PROVE  Local(q)'
<1> USE DEF Vanish, docs
<1>1. /\ Recorded(q)' = Recorded(q) /\ InTxn(q)' = InTxn(q)
      /\ Approves(q)' = Approves(q) /\ Addressee(q)' = Addressee(q)
  BY DEF Recorded, InTxn, Approves, Addressee
<1>2. SavedAccounts(q)' = SavedAccounts(q) /\ SavedRecords(q)' = SavedRecords(q)
  BY <1>1 DEF SavedAccounts, SavedRecords
<1>3. PhaseInv(q)'
  <2>1. pc[q]' = pc[q] /\ attempt[q]' = attempt[q]
    OBVIOUS
  <2>2. QED
    BY <1>1, <2>1 DEF Local, PhaseInv
<1>4. BodyInv(q)'
  BY <1>1, <1>2 DEF Local, BodyInv
<1>5. ImageInv(q)'
  BY <1>1 DEF Local, ImageInv
<1>6. FreshInv(q)'
  BY <1>1 DEF Local, FreshInv
<1>7. QED
  BY <1>3, <1>4, <1>5, <1>6 DEF Local

(* The invariant holds at the start.                                       *)
LEMMA InitInv == Init => Inv
<1> SUFFICES ASSUME Init PROVE Inv
  OBVIOUS
<1> USE OpeningAssumption, FiledAssumption, MaxAttemptsAssumption, MaxCrashesAssumption
<1>1. TypeOK
  BY DEF Init, ControllerInit, AccountInit, TypeOK, ControllerTypeOK, AccountTypeOK,
         AccountDoc, AccountStatus, OpeningStatus, PC, BlankDoc, TxnId
<1>2. NeverOverdrawn
  BY DEF Init, ControllerInit, NeverOverdrawn
<1>3. LedgerInv
  BY DEF Init, ControllerInit, LedgerInv, Shape, TxnId
<1>4. ASSUME NEW r \in Request
      PROVE  PhaseInv(r) /\ BodyInv(r) /\ ImageInv(r) /\ FreshInv(r) /\ LockInv(r)
  BY DEF Init, ControllerInit, PhaseInv, BodyInv, ImageInv, FreshInv, LockInv, InTxn,
         InBody, AfterCommit, TxnId
<1>5. QED
  BY <1>1, <1>2, <1>3, <1>4
     DEF Init, ControllerInit, AccountInit, Inv, AlertInv, TaskInv

-----------------------------------------------------------------------------
(***************************************************************************)
(* A step of one request. What must be shown of it is that types are kept, *)
(* that the request's own part of the invariant holds after it, and that   *)
(* its alerts are true; everything else stays as it was.                   *)
(***************************************************************************)
Only(r) == \A q \in Request \ {r} : Vanish(q)

(* It suffices to show of a step of r what is r's own.                     *)
LEMMA RowStep ==
  ASSUME Inv, NEW r \in Request, UNCHANGED <<docs, taskVars>>, Only(r),
         TypeOK', Local(r)', LockInv(r)', AlertInv'
  PROVE  Inv'
<1>1. NeverOverdrawn' /\ LedgerInv' /\ TaskInv'
  BY DEF Inv, NeverOverdrawn, LedgerInv, TaskInv, docs, taskVars
<1>2. ASSUME NEW q \in Request PROVE Local(q)'
  <2>1. CASE q = r
    BY <2>1
  <2>2. CASE q # r
    BY <2>2, Frame DEF Only, Inv, Local
  <2>3. QED
    BY <2>1, <2>2
<1>3. ASSUME NEW q \in Request PROVE LockInv(q)'
  <2>1. CASE q = r
    BY <2>1
  <2>2. CASE q # r
    BY <2>2 DEF Only, Vanish, Inv, LockInv, docs
  <2>3. QED
    BY <2>1, <2>2
<1>4. QED
  BY <1>1, <1>2, <1>3 DEF Inv, Local

(* Alerts stay true as long as r does not turn back into a new request.    *)
LEMMA AlertsKept ==
  ASSUME Inv, NEW r \in Request, UNCHANGED docs, Only(r), alerts' = alerts,
         pc[r] # "new" => pc'[r] # "new" /\ op'[r] = op[r]
  PROVE  AlertInv'
<1> SUFFICES ASSUME NEW alert \in alerts
             PROVE  pc'[alert[1]] # "new" /\ Recorded(alert[1])'
  BY DEF AlertInv
<1>1. alert[1] \in Request /\ pc[alert[1]] # "new" /\ Recorded(alert[1])
  BY DEF Inv, AlertInv, TypeOK, ControllerTypeOK
<1>2. pc'[alert[1]] # "new" /\ op'[alert[1]] = op[alert[1]]
  BY <1>1 DEF Only, Vanish
<1>3. QED
  BY <1>1, <1>2 DEF Recorded, docs

(* A write set that stays or becomes empty disturbs no lock.               *)
LEMMA LocksKept ==
  ASSUME Inv, NEW r \in Request, UNCHANGED docs, Only(r),
         dirty'[r] = dirty[r] \/ dirty'[r] = {}
  PROVE  LockInv(r)'
BY DEF Inv, LockInv, Only, Vanish, docs

-----------------------------------------------------------------------------
(* What the types say of a request's body and of a record.                 *)
LEMMA Bodies ==
  ASSUME NEW o \in Operations
  PROVE  /\ o # NoOp
         /\ o.kind \in {"deposit", "withdraw", "transfer", "approve"}
         /\ o.kind = "deposit" => /\ o.to \in Account \cup {NoAccount}
                                 /\ o.amount \in Amount /\ o.user \in User
         /\ o.kind = "withdraw" => /\ o.from \in Account \cup {NoAccount}
                                  /\ o.amount \in Amount /\ o.user \in User
         /\ o.kind = "transfer" => /\ o.amount \in Amount
                                  /\ o.user \in User /\ o.payee \in User
         /\ o.kind = "approve" => /\ o.target \in TxnId
                                 /\ o.verdict \in {"SUCCESS", "FAILED"}
BY OperationsAssumption, NoOpAssumption
   DEF Operation, DepositOp, WithdrawOp, TransferOp, ApproveOp

(* The fields of a record.                                                 *)
LEMMA Records ==
  ASSUME NEW x \in Txn
  PROVE  /\ x # NoTxn
         /\ x.type \in {"DEPOSIT", "WITHDRAW", "TRANSFER"}
         /\ x.from \in Account \cup {NoAccount} /\ x.to \in Account \cup {NoAccount}
         /\ x.amount \in Amount /\ x.amount \in Nat /\ x.amount > 0
         /\ x.status \in {"PENDING", "SUCCESS", "FAILED"}
<1>1. x # NoTxn
  BY NoTxnAssumption
<1>2. x.amount \in Amount
  BY DEF Txn
<1>3. x.amount \in Nat /\ x.amount > 0
  <2>1. x.amount \in Nat \ {0}
    BY <1>2, AmountAssumption
  <2>2. QED
    BY <2>1
<1>4. x.type \in {"DEPOSIT", "WITHDRAW", "TRANSFER"}
  BY DEF Txn, TxnType
<1>5. x.from \in Account \cup {NoAccount} /\ x.to \in Account \cup {NoAccount}
  BY DEF Txn
<1>6. x.status \in {"PENDING", "SUCCESS", "FAILED"}
  BY DEF Txn, TxnStatus
<1>7. QED
  BY <1>1, <1>2, <1>3, <1>4, <1>5, <1>6

-----------------------------------------------------------------------------
(* The steps that leave the session and the documents alone.               *)
(* The arrival of a request keeps the invariant.                           *)
LEMMA ReceiveInv ==
  ASSUME Inv, NEW r \in Request, Receive(r), UNCHANGED taskVars
  PROVE  Inv'
<1> USE DEF Receive
<1>1. TypeOK /\ PhaseInv(r) /\ BodyInv(r) /\ ImageInv(r) /\ FreshInv(r)
  BY DEF Inv
<1>2. UNCHANGED docs /\ Only(r) /\ op'[r] \in Operations /\ pc'[r] = "start"
  BY <1>1 DEF TypeOK, ControllerTypeOK, Only, Vanish, session
<1>3. TypeOK'
  BY <1>1 DEF TypeOK, ControllerTypeOK, AccountTypeOK, docs, session, taskVars, PC
<1>4. Local(r)'
  BY <1>1, <1>2 DEF Local, PhaseInv, BodyInv, ImageInv, FreshInv, InTxn, InBody,
     AfterCommit, docs, session
<1>5. LockInv(r)'
  BY <1>2, LocksKept DEF session
<1>6. AlertInv'
  BY <1>2, AlertsKept
<1>7. QED
  BY <1>2, <1>3, <1>4, <1>5, <1>6, RowStep

(* A step past the commit, or one that gives up before a session begins.   *)
LEMMA QuietStep ==
  ASSUME Inv, NEW r \in Request, NEW next \in AfterCommit \cup {"done"},
         UNCHANGED <<docs, session, op, attempt, crashes, taskVars>>,
         pc[r] \in AfterCommit \cup {"start"},
         \/ next = "done"
         \/ next = "alertSender" /\ pc[r] = "lookup"
         \/ next = "alertOwner" /\ pc[r] = "alertSender",
         pc' = [pc EXCEPT ![r] = next],
         answer' \in [Request -> {"none", "ok", "error"}],
         \A q \in Request \ {r} : answer'[q] = answer[q],
         next \in AfterCommit \/ answer'[r] = "ok" => Recorded(r),
         alerts' \in SUBSET (Request \X User),
         \A alert \in alerts' \ alerts : alert[1] = r /\ Recorded(r)
  PROVE  Inv'
<1>1. TypeOK /\ PhaseInv(r)
  BY DEF Inv
<1>2. UNCHANGED docs /\ Only(r) /\ pc'[r] = next
  BY <1>1 DEF TypeOK, ControllerTypeOK, Only, Vanish, session
<1>3. TypeOK'
  BY <1>1 DEF TypeOK, ControllerTypeOK, AccountTypeOK, docs, session, taskVars, PC,
     AfterCommit, Finished
<1>4. Recorded(r)' = Recorded(r) /\ Addressee(r)' = Addressee(r)
  BY DEF Recorded, Addressee, docs
<1>5. Local(r)'
  <2>1. PhaseInv(r)'
    BY <1>1, <1>2, <1>4 DEF PhaseInv, InBody, AfterCommit, session, docs
  <2>2. ~InTxn(r)'
    BY <1>2 DEF InTxn, InBody, AfterCommit
  <2>3. QED
    BY <2>1, <2>2 DEF Local, BodyInv, ImageInv, FreshInv
<1>6. LockInv(r)'
  BY <1>2, LocksKept DEF session
<1>7. AlertInv'
  <2>1. SUFFICES ASSUME NEW alert \in alerts'
                 PROVE  pc'[alert[1]] # "new" /\ Recorded(alert[1])'
    BY DEF AlertInv
  <2>2. CASE alert \in alerts
    <3>1. alert[1] \in Request /\ pc[alert[1]] # "new" /\ Recorded(alert[1])
      BY <2>2 DEF Inv, AlertInv, TypeOK, ControllerTypeOK
    <3>2. pc'[alert[1]] # "new"
      BY <1>2, <3>1 DEF Only, Vanish, AfterCommit
    <3>3. QED
      BY <3>1, <3>2 DEF Recorded, docs
  <2>3. CASE alert \notin alerts
    BY <1>2, <1>4, <2>3 DEF AfterCommit
  <2>4. QED
    BY <2>2, <2>3
<1>8. QED
  BY <1>2, <1>3, <1>5, <1>6, <1>7, RowStep

(* The six steps of that kind.                                             *)
LEMMA QuietInv ==
  ASSUME Inv, NEW r \in Request, UNCHANGED taskVars,
         \/ Refuse(r) \/ Throw(r) \/ LookUpReceiver(r) \/ LookUpFails(r)
         \/ AlertSender(r) \/ AlertOwner(r)
  PROVE  Inv'
<1>1. TypeOK /\ PhaseInv(r) /\ op \in [Request -> Operations \cup {NoOp}]
  BY DEF Inv, TypeOK, ControllerTypeOK
<1>2. pc[r] # "new" => op[r] \in Operations
  BY <1>1 DEF PhaseInv
<1>3. pc[r] \in AfterCommit => Recorded(r)
  BY <1>1 DEF PhaseInv
<1> USE DEF AfterCommit
<1>4. CASE Refuse(r)
  BY <1>1, <1>4, QuietStep DEF Refuse, TypeOK, ControllerTypeOK
<1>5. CASE Throw(r)
  BY <1>1, <1>5, QuietStep DEF Throw, TypeOK, ControllerTypeOK
<1>6. CASE LookUpReceiver(r)
  BY <1>1, <1>3, <1>6, QuietStep DEF LookUpReceiver, Step, TypeOK, ControllerTypeOK
<1>7. CASE LookUpFails(r)
  BY <1>1, <1>7, QuietStep DEF LookUpFails, Step, TypeOK, ControllerTypeOK
<1>8. CASE AlertSender(r)
  <2>1. op[r].user \in User
    BY <1>1, <1>2, <1>8, Bodies DEF AlertSender, Step, PhaseInv
  <2>2. alerts' \in SUBSET (Request \X User)
    BY <1>1, <1>8, <2>1 DEF AlertSender, TypeOK, ControllerTypeOK
  <2>3. QED
    BY <1>1, <1>3, <1>8, <2>2, QuietStep
       DEF AlertSender, Step, TypeOK, ControllerTypeOK
<1>9. CASE AlertOwner(r)
  <2>1. Addressee(r) \in User
    BY <1>1, <1>9 DEF AlertOwner, Step, PhaseInv
  <2>2. alerts' \in SUBSET (Request \X User)
    BY <1>1, <1>9, <2>1 DEF AlertOwner, TypeOK, ControllerTypeOK
  <2>3. QED
    BY <1>1, <1>3, <1>9, <2>2, QuietStep
       DEF AlertOwner, Step, TypeOK, ControllerTypeOK
<1>10. QED
  BY <1>4, <1>5, <1>6, <1>7, <1>8, <1>9

-----------------------------------------------------------------------------
(* The steps that end a session without a commit.                          *)
LEMMA AbortStep ==
  ASSUME Inv, NEW r \in Request, UNCHANGED <<docs, taskVars>>,
         NEW next \in {"start", "done", "lost"}, NEW ans \in {"none", "error"},
         pc[r] \in InBody \cup {"start", "orphan"},
         next = "start" => InTxn(r) /\ attempt[r] < MaxAttempts,
         EndTxn(r, next, ans),
         stale' \in [Request -> SUBSET Doc],
         \A q \in Request \ {r} : stale'[q] = stale[q]
  PROVE  Inv'
<1>1. TypeOK /\ PhaseInv(r)
  BY DEF Inv
<1>2. Only(r)
  BY <1>1 DEF TypeOK, ControllerTypeOK, Only, Vanish, EndTxn
<1>3. /\ pc'[r] = next /\ dirty'[r] = {} /\ answer'[r] = ans
      /\ op'[r] = op[r] /\ attempt'[r] = attempt[r]
  BY <1>1 DEF TypeOK, ControllerTypeOK, EndTxn
<1>4. ControllerTypeOK'
  <2>1. loaded' \in [Request -> [Account -> Int]] /\ image' \in [Request -> [Account -> Int]]
    BY <1>1, OpeningAssumption DEF TypeOK, ControllerTypeOK, EndTxn
  <2>2. pc' \in [Request -> PC] /\ answer' \in [Request -> {"none", "ok", "error"}]
    BY <1>1 DEF TypeOK, ControllerTypeOK, EndTxn, PC, Finished
  <2>3. record' \in [Request -> Txn \cup {NoTxn}] /\ dirty' \in [Request -> SUBSET Doc]
    BY <1>1 DEF TypeOK, ControllerTypeOK, EndTxn
  <2>4. QED
    BY <1>1, <2>1, <2>2, <2>3 DEF TypeOK, ControllerTypeOK, EndTxn, docs
<1>5. TypeOK'
  BY <1>1, <1>4 DEF TypeOK, AccountTypeOK, taskVars
<1>6. PhaseInv(r)'
  BY <1>1, <1>3 DEF PhaseInv, InTxn, InBody, AfterCommit, docs
<1>7. ~InTxn(r)'
  BY <1>3 DEF InTxn, InBody
<1>8. Local(r)'
  BY <1>6, <1>7 DEF Local, BodyInv, ImageInv, FreshInv
<1>9. LockInv(r)' /\ AlertInv'
  BY <1>2, <1>3, LocksKept, AlertsKept DEF EndTxn
<1>10. QED
  BY <1>2, <1>5, <1>8, <1>9, RowStep

(* Aborts, database errors and the reaping of orphans keep the invariant.  *)
LEMMA AbortInv ==
  ASSUME Inv, NEW r \in Request, UNCHANGED taskVars,
         ConflictAbort(r) \/ DatabaseError(r) \/ Reap(r)
  PROVE  Inv'
<1>1. TypeOK
  BY DEF Inv
<1>2. \A q \in Request : [stale EXCEPT ![r] = {}][q] = IF q = r THEN {} ELSE stale[q]
  BY <1>1 DEF TypeOK, ControllerTypeOK
<1>3. [stale EXCEPT ![r] = {}] \in [Request -> SUBSET Doc]
  BY <1>1 DEF TypeOK, ControllerTypeOK
<1>4. CASE AbortTransient(r) /\ InTxn(r)
  <2>1. CASE attempt[r] < MaxAttempts
    BY <1>2, <1>3, <1>4, <2>1, AbortStep DEF AbortTransient, InTxn
  <2>2. CASE ~(attempt[r] < MaxAttempts)
    BY <1>2, <1>3, <1>4, <2>2, AbortStep DEF AbortTransient, InTxn
  <2>3. QED
    BY <2>1, <2>2
<1>5. CASE AbortFatal(r) /\ pc[r] \in InBody \cup {"start"}
  BY <1>2, <1>3, <1>5, AbortStep DEF AbortFatal
<1>6. CASE Reap(r)
  BY <1>1, <1>6, AbortStep DEF Reap, TypeOK, ControllerTypeOK
<1>7. QED
  BY <1>4, <1>5, <1>6 DEF ConflictAbort, DatabaseError, InTxn, InBody

-----------------------------------------------------------------------------
(***************************************************************************)
(* The steps that begin a session. The snapshot is the committed state and *)
(* no account is written yet; what is left to show of each body is its     *)
(* record and where it goes next.                                          *)
(***************************************************************************)
LEMMA BeginStep ==
  ASSUME Inv, NEW r \in Request, UNCHANGED taskVars, pc[r] = "start",
         NEW x \in Txn, Shape(x), NEW next \in InBody, NEW written \in {{}, {r}},
         BeginTxn(r, x, next, written),
         x.status = "SUCCESS" =>
           \A a \in {x.from, x.to} \cap Account : accounts[a].status = "ACTIVE",
         x.from # NoAccount => accounts[x.from].balance >= x.amount,
         Approves(r) =>
           /\ x.type = "DEPOSIT" /\ x.status = op[r].verdict
           /\ written = {} /\ ledger[op[r].target] # NoTxn
           /\ ledger[op[r].target].status = "PENDING"
           /\ x = [ledger[op[r].target] EXCEPT !.status = op[r].verdict]
           /\ next = IF x.status = "SUCCESS" THEN "credit" ELSE "decide",
         ~Approves(r) =>
           /\ written = {r} /\ x.status # "FAILED"
           /\ next = IF x.type # "DEPOSIT" THEN "debit"
                     ELSE IF x.status = "SUCCESS" THEN "credit" ELSE "commit",
         Addressee(r) \in User
  PROVE  Inv'
<1>1. TypeOK /\ PhaseInv(r)
  BY DEF Inv
<1>2. UNCHANGED docs /\ Only(r)
  BY <1>1 DEF TypeOK, ControllerTypeOK, Only, Vanish, BeginTxn
<1>3. /\ pc'[r] = next /\ record'[r] = x /\ dirty'[r] = written /\ stale'[r] = {}
      /\ loaded'[r] = Balances /\ attempt'[r] = attempt[r] + 1
      /\ op'[r] = op[r] /\ answer'[r] = answer[r] /\ image'[r] = image[r]
  BY <1>1 DEF TypeOK, ControllerTypeOK, BeginTxn
<1>4. ledger[r] = NoTxn /\ attempt[r] < MaxAttempts /\ op[r] \in Operations
  BY <1>1 DEF PhaseInv, InBody
<1>5. Approves(r)' = Approves(r) /\ Recorded(r)' = Recorded(r) /\ Addressee(r)' = Addressee(r)
  BY <1>2, <1>3 DEF Approves, Recorded, Addressee, docs, BeginTxn
<1>6. TypeOK'
  <2>1. Balances \in [Account -> Int]
    BY <1>1 DEF TypeOK, ControllerTypeOK, Balances, AccountDoc
  <2>2. attempt[r] + 1 \in 0 .. MaxAttempts
    BY <1>1, <1>4, MaxAttemptsAssumption DEF TypeOK, ControllerTypeOK
  <2>3. attempt' \in [Request -> 0 .. MaxAttempts]
    BY <1>1, <2>2 DEF TypeOK, ControllerTypeOK, BeginTxn
  <2>4. loaded' \in [Request -> [Account -> Int]]
    BY <1>1, <2>1 DEF TypeOK, ControllerTypeOK, BeginTxn
  <2>5. dirty' \in [Request -> SUBSET Doc] /\ stale' \in [Request -> SUBSET Doc]
    BY <1>1 DEF TypeOK, ControllerTypeOK, BeginTxn, Doc, TxnId
  <2>6. pc' \in [Request -> PC] /\ record' \in [Request -> Txn \cup {NoTxn}]
    BY <1>1 DEF TypeOK, ControllerTypeOK, BeginTxn, PC
  <2>7. QED
    BY <1>1, <1>2, <2>3, <2>4, <2>5, <2>6
       DEF TypeOK, ControllerTypeOK, AccountTypeOK, BeginTxn, docs, taskVars
<1>7. PhaseInv(r)'
  BY <1>1, <1>2, <1>3, <1>4, <1>5 DEF PhaseInv, InBody, AfterCommit, docs
<1>8. BodyInv(r)'
  <2>1. x.from # NoAccount => loaded'[r][x.from] >= x.amount
    BY <1>3, Records DEF Balances
  <2>2. SavedAccounts(r)' = {}
    BY <1>3, Records DEF SavedAccounts, InBody, Shape
  <2>3. SavedRecords(r)' = written
    BY <1>3, <1>5 DEF SavedRecords
  <2>4. Shape(record[r])'
    BY <1>3 DEF Shape
  <2>5. dirty'[r] = SavedAccounts(r)' \cup SavedRecords(r)'
    BY <1>3, <2>2, <2>3
  <2>6. x.type \in {"DEPOSIT", "WITHDRAW", "TRANSFER"}
    BY Records
  <2>7. /\ next = "debit" => x.type # "DEPOSIT"
        /\ next = "credit" => x.type # "WITHDRAW"
        /\ next = "decide" => Approves(r)
        /\ next \in {"debit", "credit"} => x.status = "SUCCESS"
    BY <2>6 DEF Shape
  <2>8. QED
    BY <1>3, <1>5, <2>1, <2>4, <2>5, <2>7 DEF BodyInv
<1>9. ImageInv(r)'
  BY <1>3, IdAssumption DEF ImageInv, TxnId
<1>10. FreshInv(r)'
  BY <1>1, <1>2, <1>3, <1>5 DEF FreshInv, Balances, docs
<1>11. LockInv(r)'
  BY <1>2, <1>3, <1>4 DEF Inv, LockInv, Only, Vanish, docs, TxnId
<1>12. AlertInv'
  BY <1>2, <1>3, AlertsKept DEF BeginTxn, InBody
<1>13. QED
  BY <1>2, <1>6, <1>7, <1>8, <1>9, <1>10, <1>11, <1>12, RowStep DEF Local

(* The first steps of the four bodies keep the invariant.                  *)
LEMMA BeginInv ==
  ASSUME Inv, NEW r \in Request, UNCHANGED taskVars,
         \/ BeginDeposit(r) \/ BeginWithdraw(r) \/ BeginTransfer(r) \/ BeginApprove(r)
  PROVE  Inv'
<1> DEFINE o == op[r]
<1>1. TypeOK /\ LedgerInv /\ PhaseInv(r)
  BY DEF Inv
<1>2. pc[r] = "start" /\ o \in Operations
  BY <1>1 DEF PhaseInv, BeginDeposit, BeginWithdraw, BeginTransfer, BeginApprove, AtStart
<1>3. CASE BeginDeposit(r)
  <2> DEFINE x == [type |-> "DEPOSIT", from |-> NoAccount, to |-> o.to,
                   amount |-> o.amount,
                   status |-> IF IsStaff(o.user) THEN "SUCCESS" ELSE "PENDING"]
  <2>1. /\ o.kind = "deposit" /\ IsActive(o.to)
        /\ BeginTxn(r, x, IF IsStaff(o.user) THEN "credit" ELSE "commit", {r})
    BY <1>3 DEF BeginDeposit, AtStart, MayDeposit
  <2>2. x \in Txn /\ Shape(x)
    BY <1>2, <2>1, Bodies DEF Txn, TxnType, TxnStatus, Shape, IsActive
  <2>3. Addressee(r) \in User
    BY <2>1, OwnerAssumption DEF Addressee, IsActive
  <2> HIDE DEF x
  <2>4. /\ x.type = "DEPOSIT" /\ x.from = NoAccount /\ x.to = o.to
        /\ x.status = IF IsStaff(o.user) THEN "SUCCESS" ELSE "PENDING"
    BY DEF x
  <2>5. \A a \in {x.from, x.to} \cap Account : accounts[a].status = "ACTIVE"
    BY <2>1, <2>4, NoAccountAssumption DEF IsActive
  <2>6. QED
    BY <1>2, <2>1, <2>2, <2>3, <2>4, <2>5, BeginStep DEF Approves, InBody
<1>4. CASE BeginWithdraw(r)
  <2> DEFINE x == [type |-> "WITHDRAW", from |-> o.from, to |-> NoAccount,
                   amount |-> o.amount, status |-> "SUCCESS"]
  <2>1. /\ o.kind = "withdraw" /\ IsActive(o.from) /\ accounts[o.from].balance >= o.amount
        /\ BeginTxn(r, x, "debit", {r})
    BY <1>4 DEF BeginWithdraw, AtStart, MayWithdraw
  <2>2. x \in Txn /\ Shape(x)
    BY <1>2, <2>1, Bodies DEF Txn, TxnType, TxnStatus, Shape, IsActive
  <2>3. Addressee(r) \in User
    BY <2>1, OwnerAssumption DEF Addressee, IsActive
  <2> HIDE DEF x
  <2>4. /\ x.type = "WITHDRAW" /\ x.from = o.from /\ x.to = NoAccount
        /\ x.status = "SUCCESS" /\ x.amount = o.amount
    BY DEF x
  <2>5. \A a \in {x.from, x.to} \cap Account : accounts[a].status = "ACTIVE"
    BY <2>1, <2>4, NoAccountAssumption DEF IsActive
  <2>6. QED
    BY <1>2, <2>1, <2>2, <2>3, <2>4, <2>5, BeginStep DEF Approves, InBody
<1>5. CASE BeginTransfer(r)
  <2>1. PICK from \in Candidates(o.user, o.from), to \in Candidates(o.payee, o.to) :
          /\ accounts[from].balance >= o.amount
          /\ BeginTxn(r, [type |-> "TRANSFER", from |-> from, to |-> to,
                          amount |-> o.amount, status |-> "SUCCESS"], "debit", {r})
    BY <1>5 DEF BeginTransfer
  <2> DEFINE x == [type |-> "TRANSFER", from |-> from, to |-> to,
                   amount |-> o.amount, status |-> "SUCCESS"]
  <2>2. /\ from \in Account /\ accounts[from].status = "ACTIVE"
        /\ to \in Account /\ accounts[to].status = "ACTIVE"
    BY DEF Candidates, IsActive
  <2>3. o.kind = "transfer"
    BY <1>5 DEF BeginTransfer, AtStart
  <2>4. x \in Txn /\ Shape(x)
    BY <1>2, <2>2, <2>3, Bodies DEF Txn, TxnType, TxnStatus, Shape
  <2>5. Addressee(r) \in User
    BY <1>2, <2>3, Bodies DEF Addressee
  <2>6. BeginTxn(r, x, "debit", {r})
    BY <2>1
  <2> HIDE DEF x
  <2>7. /\ x.type = "TRANSFER" /\ x.from = from /\ x.to = to
        /\ x.status = "SUCCESS" /\ x.amount = o.amount
    BY DEF x
  <2>8. QED
    BY <1>2, <2>1, <2>2, <2>3, <2>4, <2>5, <2>6, <2>7, BeginStep DEF Approves, InBody
<1>6. CASE BeginApprove(r)
  <2> DEFINE old == ledger[o.target]
             x == [old EXCEPT !.status = o.verdict]
  <2>1. /\ o.kind = "approve" /\ old # NoTxn
        /\ old.status = "PENDING" /\ old.type = "DEPOSIT"
        /\ o.verdict = "SUCCESS" => IsActive(old.to)
        /\ BeginTxn(r, x, IF o.verdict = "SUCCESS" THEN "credit" ELSE "decide", {})
    BY <1>6 DEF BeginApprove, AtStart, MayApprove, IsPending
  <2>2. o.target \in TxnId /\ o.verdict \in {"SUCCESS", "FAILED"}
    BY <1>2, <2>1, Bodies
  <2>3. old \in Txn /\ Shape(old)
    BY <1>1, <2>1, <2>2 DEF TypeOK, ControllerTypeOK, LedgerInv
  <2>4. old.from = NoAccount /\ old.to \in Account
    BY <2>1, <2>3 DEF Shape
  <2>5. x \in Txn
    BY <2>2, <2>3 DEF Txn, TxnStatus
  <2>6. /\ x.type = "DEPOSIT" /\ x.from = NoAccount /\ x.to = old.to
        /\ x.status = o.verdict
    BY <2>1, <2>3, <2>4 DEF Txn
  <2>7. Shape(x)
    BY <2>4, <2>6 DEF Shape
  <2>8. Addressee(r) \in User
    BY <2>1, <2>4, OwnerAssumption DEF Addressee
  <2>9. x = [ledger[op[r].target] EXCEPT !.status = op[r].verdict]
    OBVIOUS
  <2> HIDE DEF x
  <2>10. x.status = "SUCCESS" =>
           \A a \in {x.from, x.to} \cap Account : accounts[a].status = "ACTIVE"
    BY <2>1, <2>6, NoAccountAssumption DEF IsActive
  <2>11. QED
    BY <1>2, <2>1, <2>2, <2>5, <2>6, <2>7, <2>8, <2>9, <2>10, BeginStep
       DEF Approves, InBody
<1>7. QED
  BY <1>3, <1>4, <1>5, <1>6

-----------------------------------------------------------------------------
(* The saves: a document joins the write set that is not stale and that    *)
(* nobody else has written.                                                *)
LEMMA SaveStep ==
  ASSUME Inv, NEW r \in Request, UNCHANGED <<docs, taskVars>>, InTxn(r),
         NEW d \in Doc, ~WriteConflict(r, d), d \in TxnId => ledger[d] # NoTxn,
         NEW next \in InBody,
         pc' = [pc EXCEPT ![r] = next],
         dirty' = [dirty EXCEPT ![r] = @ \cup {d}],
         image' \in [Request -> [Account -> Int]],
         \A q \in Request \ {r} : image'[q] = image[q],
         UNCHANGED <<loaded, record, stale, op, attempt, answer, alerts, crashes>>,
         BodyInv(r)', ImageInv(r)'
  PROVE  Inv'
<1>1. TypeOK /\ PhaseInv(r)
  BY DEF Inv
<1>2. Only(r) /\ UNCHANGED docs
  BY <1>1 DEF TypeOK, ControllerTypeOK, Only, Vanish
<1>3. pc'[r] = next /\ dirty'[r] = dirty[r] \cup {d}
  BY <1>1 DEF TypeOK, ControllerTypeOK
<1>4. Approves(r)' = Approves(r) /\ Recorded(r)' = Recorded(r) /\ Addressee(r)' = Addressee(r)
  BY DEF Approves, Recorded, Addressee, docs
<1>5. TypeOK'
  BY <1>1 DEF TypeOK, ControllerTypeOK, AccountTypeOK, docs, taskVars, PC
<1>6. PhaseInv(r)'
  BY <1>1, <1>3, <1>4 DEF PhaseInv, InTxn, InBody, AfterCommit, docs
<1>7. FreshInv(r)'
  <2>1. FreshInv(r)
    BY DEF Inv
  <2>2. dirty'[r] \cap stale'[r] = {}
    BY <2>1, <1>3 DEF FreshInv, WriteConflict
  <2>3. QED
    BY <2>1, <2>2, <1>4 DEF FreshInv, docs
<1>8. LockInv(r)'
  BY <1>2, <1>3 DEF Inv, LockInv, Only, Vanish, docs, WriteConflict
<1>9. AlertInv'
  BY <1>2, <1>3, AlertsKept DEF InBody
<1>10. QED
  BY <1>2, <1>5, <1>6, <1>7, <1>8, <1>9, RowStep DEF Local

(* The three saves keep the invariant.                                     *)
LEMMA SaveInv ==
  ASSUME Inv, NEW r \in Request, UNCHANGED taskVars,
         SaveDebit(r) \/ SaveCredit(r) \/ SaveDecision(r)
  PROVE  Inv'
<1> DEFINE x == record[r]
<1>1. /\ TypeOK /\ BodyInv(r) /\ ImageInv(r) /\ FreshInv(r) /\ PhaseInv(r)
      /\ image \in [Request -> [Account -> Int]]
      /\ loaded[r] \in [Account -> Int]
      /\ pc \in [Request -> PC] /\ dirty \in [Request -> SUBSET Doc]
  BY DEF Inv, TypeOK, ControllerTypeOK
<1>2. InTxn(r)
  BY DEF SaveDebit, SaveCredit, SaveDecision, InTxn, InBody
<1>3. /\ x \in Txn /\ Shape(x) /\ op[r] \in Operations
      /\ dirty[r] = SavedAccounts(r) \cup SavedRecords(r)
      /\ Approves(r) => x.type = "DEPOSIT" /\ x.status = op[r].verdict
  BY <1>1, <1>2 DEF BodyInv, PhaseInv, InTxn, InBody
<1>4. x.amount \in Int /\ x.type \in {"DEPOSIT", "WITHDRAW", "TRANSFER"}
  BY <1>3, Records
<1>5. CASE SaveDebit(r)
  <2> DEFINE a == x.from
             next == IF x.type = "TRANSFER" THEN "credit" ELSE "commit"
  <2>1. pc[r] = "debit" /\ SaveBalance(r, a, loaded[r][a] - x.amount, next)
    BY <1>5 DEF SaveDebit
  <2>2. x.type # "DEPOSIT" /\ x.status = "SUCCESS" /\ a \in Account /\ ~Approves(r)
    BY <1>1, <1>2, <1>3, <1>4, <2>1 DEF BodyInv, Shape
  <2>3. dirty[r] = {r}
    BY <1>3, <2>1, <2>2 DEF SavedAccounts, SavedRecords
  <2>4. /\ pc'[r] = next /\ dirty'[r] = {r, a} /\ record'[r] = x /\ op'[r] = op[r]
        /\ loaded'[r] = loaded[r]
        /\ image'[r][a] = loaded[r][a] - x.amount
    BY <1>1, <2>1, <2>2, <2>3 DEF SaveBalance
  <2>5. BodyInv(r)'
    <3>1. SavedAccounts(r)' = {a}
      BY <1>4, <1>3, <2>2, <2>4, NoAccountAssumption DEF SavedAccounts, Shape
    <3>2. SavedRecords(r)' = {r} /\ ~Approves(r)'
      BY <2>2, <2>4 DEF SavedRecords, Approves
    <3>3. Shape(record[r])'
      BY <1>3, <2>4 DEF Shape
    <3>4. x.from # NoAccount => loaded[r][x.from] >= x.amount
      BY <1>1, <1>2 DEF BodyInv
    <3>5. dirty'[r] = SavedAccounts(r)' \cup SavedRecords(r)'
      BY <2>4, <3>1, <3>2
    <3>6. QED
      BY <1>3, <2>2, <2>4, <3>2, <3>3, <3>4, <3>5 DEF BodyInv
  <2>6. ImageInv(r)'
    <3>1. Account \cap dirty'[r] = {a}
      BY <2>2, <2>4, IdAssumption DEF TxnId
    <3>2. a = x.to => next = "credit"
      BY <1>3, <1>4, <2>2, NoAccountAssumption DEF Shape
    <3>3. QED
      BY <2>4, <3>1, <3>2 DEF ImageInv
  <2>7. QED
    <3>1. /\ image' \in [Request -> [Account -> Int]]
          /\ \A q \in Request \ {r} : image'[q] = image[q]
      BY <1>1, <1>4, <2>1, <2>2 DEF SaveBalance
    <3>2. /\ a \in Doc /\ a \notin TxnId /\ next \in InBody
      BY <2>2, IdAssumption DEF Doc, InBody
    <3>3. QED
      BY <1>2, <2>1, <2>5, <2>6, <3>1, <3>2, SaveStep DEF SaveBalance
<1>6. CASE SaveCredit(r)
  <2> DEFINE a == x.to
             next == IF op[r].kind = "approve" THEN "decide" ELSE "commit"
  <2>1. pc[r] = "credit" /\ SaveBalance(r, a, loaded[r][a] + x.amount, next)
    BY <1>6 DEF SaveCredit
  <2>2. x.type # "WITHDRAW" /\ x.status = "SUCCESS" /\ a \in Account
    BY <1>1, <1>2, <1>3, <1>4, <2>1 DEF BodyInv, Shape
  <2>3. dirty[r] = ({x.from} \ {NoAccount}) \cup SavedRecords(r)
    BY <1>3, <2>1 DEF SavedAccounts
  <2>4. /\ pc'[r] = next /\ dirty'[r] = dirty[r] \cup {a} /\ record'[r] = x
        /\ op'[r] = op[r] /\ loaded'[r] = loaded[r]
        /\ image'[r][a] = loaded[r][a] + x.amount
        /\ \A b \in Account \ {a} : image'[r][b] = image[r][b]
    BY <1>1, <2>1, <2>2 DEF SaveBalance
  <2>5. BodyInv(r)'
    <3>1. SavedAccounts(r)' = {x.from, x.to} \ {NoAccount}
      BY <2>2, <2>4 DEF SavedAccounts
    <3>2. Approves(r)' = Approves(r) /\ SavedRecords(r)' = SavedRecords(r)
      BY <2>1, <2>4 DEF SavedRecords, Approves
    <3>3. Shape(record[r])'
      BY <1>3, <2>4 DEF Shape
    <3>4. /\ x.from # NoAccount => loaded[r][x.from] >= x.amount
          /\ ~Approves(r) => x.status # "FAILED"
      BY <1>1, <1>2 DEF BodyInv
    <3>5. dirty'[r] = SavedAccounts(r)' \cup SavedRecords(r)'
      BY <2>2, <2>3, <2>4, <3>1, <3>2, NoAccountAssumption
    <3>6. next # "debit" /\ next # "credit" /\ (next = "decide" => Approves(r))
      BY DEF Approves
    <3>7. QED
      BY <1>3, <2>4, <3>2, <3>3, <3>4, <3>5, <3>6 DEF BodyInv
  <2>6. ImageInv(r)'
    <3>1. \A b \in (Account \cap dirty'[r]) \ {a} : image[r][b] = loaded[r][b] - x.amount
      BY <1>1, <1>2, <2>1, <2>4 DEF ImageInv
    <3>2. QED
      BY <2>4, <3>1 DEF ImageInv
  <2>7. QED
    <3>1. /\ image' \in [Request -> [Account -> Int]]
          /\ \A q \in Request \ {r} : image'[q] = image[q]
      BY <1>1, <1>4, <2>1, <2>2 DEF SaveBalance
    <3>2. /\ a \in Doc /\ a \notin TxnId /\ next \in InBody
      BY <2>2, IdAssumption DEF Doc, InBody
    <3>3. QED
      BY <1>2, <2>1, <2>5, <2>6, <3>1, <3>2, SaveStep DEF SaveBalance
<1>7. CASE SaveDecision(r)
  <2> DEFINE t == op[r].target
  <2>1. pc[r] = "decide" /\ Approves(r)
    BY <1>1, <1>2, <1>7 DEF SaveDecision, BodyInv
  <2>2. t \in TxnId /\ ledger[t] # NoTxn
    BY <1>1, <1>2, <1>3, <2>1, Bodies DEF Approves, FreshInv
  <2>3. /\ pc'[r] = "commit" /\ dirty'[r] = dirty[r] \cup {t} /\ record'[r] = x
        /\ op'[r] = op[r] /\ loaded'[r] = loaded[r] /\ image' = image
    BY <1>1, <1>7 DEF SaveDecision
  <2>4. BodyInv(r)'
    <3>1. SavedAccounts(r)' = SavedAccounts(r)
      BY <2>1, <2>3 DEF SavedAccounts
    <3>2. Approves(r)' /\ SavedRecords(r) = {} /\ SavedRecords(r)' = {t}
      BY <2>1, <2>3 DEF SavedRecords, Approves
    <3>3. Shape(record[r])'
      BY <1>3, <2>3 DEF Shape
    <3>4. x.from # NoAccount => loaded[r][x.from] >= x.amount
      BY <1>1, <1>2 DEF BodyInv
    <3>5. dirty'[r] = SavedAccounts(r)' \cup SavedRecords(r)'
      BY <1>3, <2>3, <3>1, <3>2
    <3>6. QED
      BY <1>3, <2>1, <2>3, <3>2, <3>3, <3>4, <3>5 DEF BodyInv
  <2>5. ImageInv(r)'
    <3>1. Account \cap dirty'[r] = Account \cap dirty[r]
      BY <2>2, <2>3, IdAssumption
    <3>2. QED
      BY <1>1, <1>2, <2>1, <2>3, <3>1 DEF ImageInv
  <2>6. QED
    BY <1>1, <1>2, <1>7, <2>2, <2>4, <2>5, SaveStep DEF SaveDecision, Doc, InBody
<1>8. QED
  BY <1>5, <1>6, <1>7

-----------------------------------------------------------------------------
(***************************************************************************)
(* The commit. Its record is what it loaded with a verdict, or a new one;  *)
(* the accounts it writes are the active accounts the record names, and    *)
(* what it writes there is their current balance with the record posted.   *)
(***************************************************************************)
Written(r) == IF Approves(r) THEN op[r].target ELSE r

(* What is known of a body when it commits.                                *)
LEMMA CommitFacts ==
  ASSUME Inv, NEW r \in Request, pc[r] = "commit"
  PROVE  /\ record[r] \in Txn /\ Shape(record[r]) /\ op[r] \in Operations
         /\ Written(r) \in TxnId
         /\ dirty[r] \cap TxnId = {Written(r)}
         /\ dirty[r] \cap Account = IF record[r].status = "SUCCESS"
                                   THEN {record[r].from, record[r].to} \ {NoAccount}
                                   ELSE {}
         /\ ~Approves(r) => ledger[r] = NoTxn /\ record[r].status # "FAILED"
         /\ Approves(r) =>
              /\ ledger[op[r].target] # NoTxn
              /\ ledger[op[r].target].status = "PENDING"
              /\ record[r] = [ledger[op[r].target] EXCEPT !.status = op[r].verdict]
              /\ record[r].status = op[r].verdict /\ record[r].type = "DEPOSIT"
         /\ \A a \in Account \cap dirty[r] :
              /\ record[r].status = "SUCCESS" /\ a \in {record[r].from, record[r].to}
              /\ accounts[a].status = "ACTIVE"
              /\ image[r][a] = IF a = record[r].to
                               THEN accounts[a].balance + record[r].amount
                               ELSE accounts[a].balance - record[r].amount
              /\ image[r][a] >= 0
              /\ a = record[r].from => accounts[a].balance >= record[r].amount
<1> DEFINE x == record[r]
<1>1. InTxn(r)
  BY DEF InTxn, InBody
<1>2. /\ TypeOK /\ NeverOverdrawn /\ BodyInv(r) /\ ImageInv(r) /\ FreshInv(r)
      /\ PhaseInv(r)
  BY DEF Inv
<1>3. /\ x \in Txn /\ Shape(x) /\ op[r] \in Operations
      /\ dirty[r] = SavedAccounts(r) \cup SavedRecords(r)
  BY <1>1, <1>2 DEF BodyInv, PhaseInv
<1>4. Written(r) \in TxnId /\ SavedRecords(r) = {Written(r)}
  BY <1>3, Bodies DEF Written, Approves, SavedRecords, TxnId
<1>5. /\ x.from \in Account \cup {NoAccount} /\ x.to \in Account \cup {NoAccount}
      /\ x.amount \in Nat
  BY <1>3, Records
<1>6. /\ SavedAccounts(r) = IF x.status = "SUCCESS" THEN {x.from, x.to} \ {NoAccount} ELSE {}
      /\ SavedAccounts(r) \subseteq Account
  BY <1>5 DEF SavedAccounts
<1>7. dirty[r] \cap TxnId = {Written(r)} /\ dirty[r] \cap Account = SavedAccounts(r)
  BY <1>3, <1>4, <1>6, IdAssumption
<1>8. ~Approves(r) => ledger[r] = NoTxn /\ x.status # "FAILED"
  BY <1>1, <1>2 DEF BodyInv, PhaseInv, InTxn
<1>9. ASSUME Approves(r)
      PROVE  /\ ledger[op[r].target] # NoTxn
             /\ ledger[op[r].target].status = "PENDING"
             /\ x = [ledger[op[r].target] EXCEPT !.status = op[r].verdict]
             /\ x.status = op[r].verdict /\ x.type = "DEPOSIT"
  <2>1. op[r].target \notin stale[r]
    BY <1>1, <1>2, <1>7, <1>9 DEF FreshInv, Written
  <2>2. QED
    BY <1>1, <1>2, <1>9, <2>1 DEF FreshInv, BodyInv
<1>10. ASSUME NEW a \in Account \cap dirty[r]
       PROVE  /\ x.status = "SUCCESS" /\ a \in {x.from, x.to}
              /\ accounts[a].status = "ACTIVE"
              /\ image[r][a] = IF a = x.to THEN accounts[a].balance + x.amount
                               ELSE accounts[a].balance - x.amount
              /\ image[r][a] >= 0
              /\ a = x.from => accounts[a].balance >= x.amount
  <2>1. x.status = "SUCCESS" /\ a \in {x.from, x.to} /\ a # NoAccount
    BY <1>6, <1>7
  <2>2. a \notin stale[r]
    BY <1>1, <1>2 DEF FreshInv
  <2>3. loaded[r][a] = accounts[a].balance /\ accounts[a].status = "ACTIVE"
    BY <1>1, <1>2, <2>1, <2>2 DEF FreshInv
  <2>4. image[r][a] = IF a = x.to THEN accounts[a].balance + x.amount
                      ELSE accounts[a].balance - x.amount
    BY <1>1, <1>2, <2>3 DEF ImageInv
  <2>5. accounts[a].balance \in Int /\ accounts[a].balance >= 0
    BY <1>2 DEF TypeOK, ControllerTypeOK, AccountDoc, NeverOverdrawn
  <2>6. a = x.from => accounts[a].balance >= x.amount
    BY <1>1, <1>2, <2>1, <2>3 DEF BodyInv
  <2>7. QED
    BY <1>5, <2>1, <2>3, <2>4, <2>5, <2>6
<1>11. QED
  BY <1>3, <1>4, <1>6, <1>7, <1>8, <1>9, <1>10

(* What others see of a commit: a record they can see stays, or is decided *)
(* while it was pending.                                                   *)
LEMMA CommitSeen ==
  ASSUME Inv, NEW r \in Request, pc[r] = "commit", Install(r), NEW t \in TxnId
  PROVE  /\ t \notin dirty[r] => ledger'[t] = ledger[t]
         /\ t \in dirty[r] => t = Written(r) /\ ledger'[t] = record[r]
         /\ ledger'[t] \in Txn \cup {NoTxn}
         /\ ledger[t] # NoTxn => /\ ledger'[t] # NoTxn
                                /\ ledger'[t].to = ledger[t].to
                                /\ \/ ledger'[t] = ledger[t]
                                   \/ ledger[t].status = "PENDING"
<1>1. TypeOK
  BY DEF Inv
<1>2. /\ record[r] \in Txn /\ dirty[r] \cap TxnId = {Written(r)}
      /\ ~Approves(r) => ledger[r] = NoTxn
      /\ Approves(r) => /\ ledger[op[r].target].status = "PENDING"
                        /\ record[r] = [ledger[op[r].target] EXCEPT !.status = op[r].verdict]
  BY CommitFacts
<1>3. /\ t \notin dirty[r] => ledger'[t] = ledger[t]
      /\ t \in dirty[r] => t = Written(r) /\ ledger'[t] = record[r]
  BY <1>2 DEF Install
<1>4. ledger[t] \in Txn \cup {NoTxn}
  BY <1>1 DEF TypeOK, ControllerTypeOK
<1>5. record[r] # NoTxn
  BY <1>2, Records
<1>6. ASSUME ledger[t] # NoTxn, t \in dirty[r]
      PROVE  ledger'[t].to = ledger[t].to /\ ledger[t].status = "PENDING"
  <2>1. Approves(r) /\ t = op[r].target
    BY <1>2, <1>3, <1>6 DEF Written
  <2>2. ledger[t] \in Txn
    BY <1>4, <1>6
  <2>3. [ledger[t] EXCEPT !.status = op[r].verdict].to = ledger[t].to
    BY <2>2 DEF Txn
  <2>4. QED
    BY <1>2, <1>3, <1>6, <2>1, <2>3
<1>7. QED
  BY <1>2, <1>3, <1>4, <1>5, <1>6

(* What is recorded stays recorded.                                        *)
LEMMA CommitKeepsRecorded ==
  ASSUME Inv, NEW r \in Request, pc[r] = "commit", Install(r), op' = op,
         NEW q \in Request, pc[q] # "new", Recorded(q)
  PROVE  Recorded(q)'
<1>1. op[q] \in Operations
  BY DEF Inv, PhaseInv
<1>2. CASE op[q].kind = "approve"
  <2>1. /\ op[q].target \in TxnId /\ op[q].verdict \in {"SUCCESS", "FAILED"}
        /\ ledger[op[q].target] # NoTxn /\ ledger[op[q].target].status = op[q].verdict
    BY <1>1, <1>2, Bodies DEF Recorded
  <2>2. ledger'[op[q].target] = ledger[op[q].target]
    BY <2>1, CommitSeen
  <2>3. QED
    BY <1>2, <2>1, <2>2 DEF Recorded
<1>3. CASE op[q].kind # "approve"
  <2>1. q \in TxnId /\ ledger[q] # NoTxn
    BY <1>3 DEF Recorded, TxnId
  <2>2. QED
    BY <1>3, <2>1, CommitSeen DEF Recorded
<1>4. QED
  BY <1>2, <1>3

(* A commit keeps what the invariant says of every other request.          *)
LEMMA CommitKeepsOthers ==
  ASSUME Inv, NEW r \in Request, pc[r] = "commit", Install(r), op' = op,
         NEW q \in Request, q # r,
         pc'[q] = pc[q], attempt'[q] = attempt[q], loaded'[q] = loaded[q],
         record'[q] = record[q], dirty'[q] = dirty[q], image'[q] = image[q],
         answer'[q] = answer[q]
  PROVE  Local(q)'
<1> DEFINE t == op[q].target
<1>1. /\ PhaseInv(q) /\ BodyInv(q) /\ ImageInv(q) /\ FreshInv(q)
      /\ LockInv(q) /\ LockInv(r)
  BY DEF Inv
<1>2. /\ InTxn(q)' = InTxn(q) /\ Approves(q)' = Approves(q)
      /\ SavedAccounts(q)' = SavedAccounts(q) /\ SavedRecords(q)' = SavedRecords(q)
  BY DEF InTxn, Approves, SavedAccounts, SavedRecords
<1>3. /\ Approves(q) /\ pc[q] # "new" => t \in TxnId
      /\ Approves(q) /\ pc[q] \in InBody \cup AfterCommit => ledger[t] # NoTxn
  <2>1. Approves(q) /\ pc[q] # "new" => t \in TxnId
    BY <1>1, Bodies DEF PhaseInv, Approves
  <2>2. Approves(q) /\ pc[q] \in InBody => ledger[t] # NoTxn
    BY <1>1 DEF FreshInv, InTxn
  <2>3. Approves(q) /\ pc[q] \in AfterCommit => ledger[t] # NoTxn
    BY <1>1 DEF PhaseInv, Recorded, Approves
  <2>4. QED
    BY <2>1, <2>2, <2>3
<1>4. pc[q] \in InBody \cup AfterCommit => Addressee(q)' = Addressee(q)
  <2>1. ASSUME pc[q] \in InBody \cup AfterCommit, Approves(q)
        PROVE  ledger'[t].to = ledger[t].to
    BY <1>3, <2>1, CommitSeen DEF InBody, AfterCommit
  <2>2. QED
    BY <2>1 DEF Addressee, Approves
<1>5. pc[q] \in InBody \cup {"new", "start"} => ledger'[q] = NoTxn
  <2>1. ledger[q] = NoTxn => q \notin dirty[r]
    BY <1>1 DEF LockInv, TxnId
  <2>2. QED
    BY <1>1, <2>1, CommitSeen DEF PhaseInv, TxnId
<1>6. pc[q] # "new" /\ Recorded(q) => Recorded(q)'
  BY CommitKeepsRecorded
<1>7. PhaseInv(q)'
  <2>1. pc[q] \in AfterCommit \/ answer[q] = "ok" => pc[q] # "new" /\ Recorded(q)'
    BY <1>1, <1>6 DEF PhaseInv
  <2>2. pc[q] \in InBody \cup AfterCommit => Addressee(q)' \in User
    BY <1>1, <1>4 DEF PhaseInv
  <2>3. QED
    BY <1>1, <1>5, <2>1, <2>2 DEF PhaseInv
<1>8. BodyInv(q)'
  BY <1>1, <1>2 DEF BodyInv, Shape
<1>9. ImageInv(q)'
  BY <1>1, <1>2 DEF ImageInv
<1>10. FreshInv(q)'
  <2>1. SUFFICES ASSUME InTxn(q) PROVE FreshInv(q)'
    BY <1>2 DEF FreshInv
  <2>2. stale'[q] = stale[q] \cup dirty[r] /\ dirty[q] \cap dirty[r] = {}
    BY <1>1, <2>1 DEF Install, Overwrite, LockInv
  <2>3. dirty'[q] \cap stale'[q] = {}
    BY <1>1, <2>1, <2>2 DEF FreshInv
  <2>4. \A a \in Account \ stale'[q] : accounts'[a] = accounts[a]
    BY <2>2 DEF Install
  <2>5. \A a \in Account \ stale'[q] :
          /\ loaded'[q][a] = accounts'[a].balance
          /\ record'[q].status = "SUCCESS" /\ a \in {record'[q].from, record'[q].to} =>
               accounts'[a].status = "ACTIVE"
    BY <1>1, <2>1, <2>2, <2>4 DEF FreshInv
  <2>6. ASSUME Approves(q)
        PROVE  /\ ledger'[t] # NoTxn
               /\ t \notin stale'[q] => /\ ledger'[t].status = "PENDING"
                                       /\ record'[q] = [ledger'[t] EXCEPT !.status = op[q].verdict]
    <3>1. t \in TxnId /\ ledger[t] # NoTxn
      BY <1>3, <2>1, <2>6 DEF InTxn, InBody
    <3>2. t \notin stale'[q] => ledger'[t] = ledger[t]
      BY <2>2, <3>1, CommitSeen
    <3>3. ledger'[t] # NoTxn
      BY <3>1, CommitSeen
    <3>4. QED
      BY <1>1, <2>1, <2>2, <2>6, <3>2, <3>3 DEF FreshInv
  <2>7. QED
    BY <1>2, <2>3, <2>5, <2>6 DEF FreshInv
<1>11. QED
  BY <1>7, <1>8, <1>9, <1>10 DEF Local

(* A commit, acknowledged or not, keeps the invariant.                     *)
LEMMA CommitStep ==
  ASSUME Inv, NEW r \in Request, UNCHANGED taskVars, pc[r] = "commit", Install(r),
         NEW next \in {"lookup", "alertOwner", "done"}, NEW ans \in {"none", "error"},
         next = "lookup" => op[r].kind = "transfer",
         EndTxn(r, next, ans)
  PROVE  Inv'
<1> DEFINE x == record[r]
<1>1. /\ TypeOK /\ NeverOverdrawn /\ LedgerInv /\ PhaseInv(r) /\ AlertInv /\ TaskInv
      /\ accounts \in [Account -> AccountDoc]
  BY DEF Inv, TypeOK, ControllerTypeOK
<1>2. /\ x \in Txn /\ Shape(x) /\ op[r] \in Operations /\ Written(r) \in TxnId
      /\ dirty[r] \cap TxnId = {Written(r)}
      /\ Approves(r) => x.status = op[r].verdict
      /\ \A a \in Account \cap dirty[r] : image[r][a] >= 0
  BY CommitFacts
<1>3. /\ op' = op /\ alerts' = alerts
      /\ pc'[r] = next /\ dirty'[r] = {} /\ answer'[r] = ans
  BY <1>1 DEF TypeOK, ControllerTypeOK, EndTxn
<1>4. ASSUME NEW q \in Request \ {r}
      PROVE  /\ pc'[q] = pc[q] /\ attempt'[q] = attempt[q] /\ loaded'[q] = loaded[q]
             /\ record'[q] = record[q] /\ dirty'[q] = dirty[q] /\ image'[q] = image[q]
             /\ answer'[q] = answer[q]
  BY <1>1 DEF TypeOK, ControllerTypeOK, EndTxn
<1>5. ledger' \in [TxnId -> Txn \cup {NoTxn}]
  BY <1>1, <1>2 DEF TypeOK, ControllerTypeOK, Install
<1>6. accounts' \in [Account -> AccountDoc] /\ NeverOverdrawn'
  <2>1. image[r] \in [Account -> Int]
    BY <1>1 DEF TypeOK, ControllerTypeOK
  <2>2. ASSUME NEW a \in Account
        PROVE  accounts'[a] \in AccountDoc /\ accounts'[a].balance >= 0
    <3>1. CASE a \in dirty[r]
      <4>1. accounts'[a] = [accounts[a] EXCEPT !.balance = image[r][a]]
        BY <3>1 DEF Install
      <4>2. QED
        BY <1>1, <1>2, <2>1, <3>1, <4>1 DEF AccountDoc
    <3>2. CASE a \notin dirty[r]
      BY <1>1, <3>2 DEF Install, NeverOverdrawn
    <3>3. QED
      BY <3>1, <3>2
  <2>3. accounts' = [a \in Account |-> accounts'[a]]
    BY DEF Install
  <2>4. QED
    BY <2>2, <2>3 DEF NeverOverdrawn
<1>7. TypeOK'
  <2>1. loaded' \in [Request -> [Account -> Int]] /\ image' \in [Request -> [Account -> Int]]
    BY <1>1, OpeningAssumption DEF TypeOK, ControllerTypeOK, EndTxn
  <2>2. pc' \in [Request -> PC] /\ answer' \in [Request -> {"none", "ok", "error"}]
    BY <1>1 DEF TypeOK, ControllerTypeOK, EndTxn, PC, Finished, AfterCommit
  <2>3. record' \in [Request -> Txn \cup {NoTxn}] /\ dirty' \in [Request -> SUBSET Doc]
    BY <1>1 DEF TypeOK, ControllerTypeOK, EndTxn
  <2>4. stale' \in [Request -> SUBSET Doc]
    BY <1>1 DEF TypeOK, ControllerTypeOK, Install, Overwrite
  <2>5. QED
    BY <1>1, <1>5, <1>6, <2>1, <2>2, <2>3, <2>4
       DEF TypeOK, ControllerTypeOK, AccountTypeOK, EndTxn, taskVars
<1>8. LedgerInv'
  <2>1. ASSUME NEW t \in TxnId, ledger'[t] # NoTxn PROVE Shape(ledger'[t])
    <3>1. ledger'[t] = ledger[t] \/ ledger'[t] = x
      BY CommitSeen
    <3>2. QED
      BY <1>1, <1>2, <2>1, <3>1 DEF LedgerInv
  <2>2. QED
    BY <2>1 DEF LedgerInv, Shape
<1>9. Recorded(r)'
  <2>1. ledger'[Written(r)] = x /\ x # NoTxn
    BY <1>2, CommitSeen, Records
  <2>2. QED
    BY <1>2, <1>3, <2>1 DEF Recorded, Written, Approves
<1>10. Local(r)'
  <2>1. Addressee(r)' \in User
    <3>1. ASSUME Approves(r) PROVE ledger'[op[r].target].to = ledger[op[r].target].to
      <4>1. op[r].target \in TxnId /\ ledger[op[r].target] # NoTxn
        BY <1>2, <3>1, CommitFacts, Bodies DEF Approves
      <4>2. QED
        BY <4>1, CommitSeen
    <3>2. Addressee(r)' = Addressee(r)
      BY <1>3, <3>1 DEF Addressee, Approves
    <3>3. Addressee(r) \in User
      BY <1>1 DEF PhaseInv, InBody
    <3>4. QED
      BY <3>2, <3>3
  <2>2. PhaseInv(r)'
    BY <1>2, <1>3, <1>9, <2>1 DEF PhaseInv, InBody, AfterCommit
  <2>3. ~InTxn(r)'
    BY <1>3 DEF InTxn, InBody
  <2>4. QED
    BY <2>2, <2>3 DEF Local, BodyInv, ImageInv, FreshInv
<1>11. ASSUME NEW q \in Request PROVE Local(q)'
  BY <1>3, <1>4, <1>10, CommitKeepsOthers
<1>12. ASSUME NEW q \in Request PROVE LockInv(q)'
  <2>1. LockInv(q)
    BY DEF Inv
  <2>2. \A p \in Request : dirty'[p] \in {dirty[p], {}}
    BY <1>3, <1>4
  <2>3. \A t \in TxnId \cap dirty'[q] : t = q \/ ledger'[t] # NoTxn
    BY <2>1, <2>2, CommitSeen DEF LockInv
  <2>4. \A p \in Request \ {q} : dirty'[p] \cap dirty'[q] = {}
    BY <2>1, <2>2 DEF LockInv
  <2>5. QED
    BY <2>3, <2>4 DEF LockInv
<1>13. AlertInv'
  <2>1. ASSUME NEW alert \in alerts PROVE pc'[alert[1]] # "new" /\ Recorded(alert[1])'
    <3>1. alert[1] \in Request /\ pc[alert[1]] # "new" /\ Recorded(alert[1])
      BY <1>1 DEF AlertInv, TypeOK, ControllerTypeOK
    <3>2. QED
      BY <1>3, <1>4, <3>1, CommitKeepsRecorded
  <2>2. QED
    BY <1>3, <2>1 DEF AlertInv
<1>14. TaskInv'
  BY <1>1 DEF TaskInv, taskVars
<1>15. QED
  BY <1>6, <1>7, <1>8, <1>11, <1>12, <1>13, <1>14 DEF Inv, Local

(* Both ways a commit can end.                                             *)
LEMMA CommitInv ==
  ASSUME Inv, NEW r \in Request, UNCHANGED taskVars,
         Commit(r) \/ CommitUnacknowledged(r)
  PROVE  Inv'
<1>1. CASE Commit(r)
  BY <1>1, CommitStep DEF Commit
<1>2. CASE CommitUnacknowledged(r)
  BY <1>2, CommitStep DEF CommitUnacknowledged
<1>3. QED
  BY <1>1, <1>2

-----------------------------------------------------------------------------
(* The account handlers, and the death of the process.                     *)
LEMMA TaskBodies ==
  ASSUME NEW o \in TaskOperations
  PROVE  /\ o.kind \in {"status", "freeze", "unfreeze", "dispute"}
         /\ o.account \in Account
         /\ o.kind = "status" => o.status \in AccountStatus
BY TaskOperationsAssumption DEF TaskOperation, StatusTask, UserTask

(* What an account handler saves is an account document with the balance   *)
(* untouched.                                                              *)
LEMMA SavedDoc ==
  ASSUME NEW o \in TaskOperations, NEW doc \in AccountDoc, NEW current \in AccountDoc
  PROVE  /\ Saved(o, doc, current) \in AccountDoc
         /\ Saved(o, doc, current).balance = current.balance
<1> DEFINE new == Changed(o, doc)
<1>1. new.status \in AccountStatus /\ new.dispute \in BOOLEAN
  <2>1. o.kind \in {"status", "freeze", "unfreeze", "dispute"}
        /\ (o.kind = "status" => o.status \in AccountStatus)
    BY TaskBodies
  <2>2. CASE o.kind = "status"
    BY <2>1, <2>2 DEF Changed, AccountDoc
  <2>3. CASE o.kind = "freeze"
    BY <2>3 DEF Changed, AccountDoc, AccountStatus
  <2>4. CASE o.kind = "unfreeze"
    BY <2>4 DEF Changed, AccountDoc, AccountStatus
  <2>5. CASE o.kind = "dispute"
    BY <2>5 DEF Changed, AccountDoc
  <2>6. QED
    BY <2>1, <2>2, <2>3, <2>4, <2>5
<1> HIDE DEF new
<1>2. QED
  BY <1>1 DEF Saved, AccountDoc, new

(* A step that changes no request and no document keeps the invariant.     *)
LEMMA ControllerKept ==
  ASSUME Inv, UNCHANGED controllerVars, AccountTypeOK', TaskInv'
  PROVE  Inv'
<1>1. TypeOK'
  BY DEF Inv, TypeOK, ControllerTypeOK, controllerVars, docs, session, control
<1>2. ASSUME NEW q \in Request PROVE Local(q)' /\ LockInv(q)'
  <2>1. Local(q)'
    BY Frame DEF Inv, Local, Vanish, controllerVars, session, control
  <2>2. LockInv(q)'
    BY DEF Inv, LockInv, controllerVars, docs, session
  <2>3. QED
    BY <2>1, <2>2
<1>3. NeverOverdrawn' /\ LedgerInv' /\ AlertInv'
  BY DEF Inv, NeverOverdrawn, LedgerInv, AlertInv, Recorded, controllerVars, docs, control
<1>4. QED
  BY <1>1, <1>2, <1>3 DEF Inv, Local

(* The loads of the account handlers keep the invariant.                   *)
LEMMA LoadInv ==
  ASSUME Inv, NEW m \in Task, LoadAccount(m) \/ RefuseTask(m)
  PROVE  Inv'
<1>1. TypeOK /\ TaskInv
  BY DEF Inv
<1>2. CASE LoadAccount(m)
  <2>1. PICK o \in TaskOperations : /\ task' = [task EXCEPT ![m] = o]
                                    /\ taskDoc' = [taskDoc EXCEPT ![m] = accounts[o.account]]
    BY <1>2 DEF LoadAccount
  <2>2. accounts[o.account] \in AccountDoc
    BY <1>1, TaskBodies DEF TypeOK, ControllerTypeOK
  <2>3. AccountTypeOK'
    BY <1>1, <1>2, <2>1, <2>2 DEF LoadAccount, TypeOK, AccountTypeOK
  <2>4. TaskInv'
    BY <1>1, <1>2, <2>1 DEF LoadAccount, TaskInv, TypeOK, AccountTypeOK
  <2>5. QED
    BY <1>2, <2>3, <2>4, ControllerKept DEF LoadAccount
<1>3. CASE RefuseTask(m)
  <2>1. AccountTypeOK' /\ TaskInv'
    BY <1>1, <1>3 DEF RefuseTask, TypeOK, AccountTypeOK, TaskInv
  <2>2. QED
    BY <1>3, <2>1, ControllerKept DEF RefuseTask
<1>4. QED
  BY <1>2, <1>3

(* The saves of the account handlers keep the invariant.                   *)
LEMMA SaveAccountInv ==
  ASSUME Inv, NEW m \in Task, SaveAccount(m)
  PROVE  Inv'
<1> DEFINE o == task[m]
           a == o.account
<1>1. /\ TypeOK /\ TaskInv /\ NeverOverdrawn /\ LedgerInv /\ AlertInv
      /\ o \in TaskOperations /\ a \in Account /\ taskDoc[m] \in AccountDoc
      /\ accounts \in [Account -> AccountDoc]
  BY TaskBodies DEF Inv, SaveAccount, TaskInv, TypeOK, AccountTypeOK, ControllerTypeOK
<1>2. AccountTypeOK' /\ TaskInv'
  <2>1. BlankDoc \in AccountDoc
    BY DEF BlankDoc, AccountDoc, AccountStatus
  <2>2. QED
    BY <1>1, <2>1 DEF SaveAccount, TypeOK, AccountTypeOK, TaskInv
<1>3. CASE UNCHANGED <<accounts, stale>>
  BY <1>2, <1>3, ControllerKept DEF SaveAccount, controllerVars, docs, session
<1>4. CASE /\ \A r \in Request : a \notin dirty[r]
           /\ accounts' = [accounts EXCEPT ![a] = Saved(o, taskDoc[m], @)]
           /\ stale' = [q \in Request |-> IF InTxn(q) THEN stale[q] \cup {a} ELSE {}]
  <2>1. /\ Saved(o, taskDoc[m], accounts[a]) \in AccountDoc
        /\ Saved(o, taskDoc[m], accounts[a]).balance = accounts[a].balance
    BY <1>1, SavedDoc
  <2>2. /\ accounts' \in [Account -> AccountDoc]
        /\ \A b \in Account : accounts'[b].balance = accounts[b].balance
        /\ \A b \in Account \ {a} : accounts'[b] = accounts[b]
    BY <1>1, <1>4, <2>1
  <2>3. /\ UNCHANGED <<ledger, loaded, record, dirty, image, op, pc, attempt, answer,
                       alerts, crashes>>
    BY DEF SaveAccount, control
  <2>4. stale' \in [Request -> SUBSET Doc]
    BY <1>1, <1>4 DEF TypeOK, ControllerTypeOK, Doc
  <2>5. TypeOK' /\ NeverOverdrawn' /\ LedgerInv' /\ AlertInv'
    BY <1>1, <1>2, <2>2, <2>3, <2>4
       DEF TypeOK, ControllerTypeOK, NeverOverdrawn, LedgerInv, AlertInv, Recorded
  <2>6. ASSUME NEW q \in Request PROVE Local(q)' /\ LockInv(q)'
    <3>1. PhaseInv(q) /\ BodyInv(q) /\ ImageInv(q) /\ FreshInv(q) /\ LockInv(q)
      BY DEF Inv
    <3>2. /\ InTxn(q)' = InTxn(q) /\ Approves(q)' = Approves(q)
          /\ Recorded(q)' = Recorded(q) /\ Addressee(q)' = Addressee(q)
          /\ SavedAccounts(q)' = SavedAccounts(q) /\ SavedRecords(q)' = SavedRecords(q)
      BY <2>3 DEF InTxn, Approves, Recorded, Addressee, SavedAccounts, SavedRecords
    <3>3. PhaseInv(q)'
      BY <2>3, <3>1, <3>2 DEF PhaseInv
    <3>4. BodyInv(q)' /\ ImageInv(q)' /\ LockInv(q)'
      BY <2>3, <3>1, <3>2 DEF BodyInv, ImageInv, LockInv, Shape
    <3>5. FreshInv(q)'
      <4>1. SUFFICES ASSUME InTxn(q) PROVE FreshInv(q)'
        BY <3>2 DEF FreshInv
      <4>2. stale'[q] = stale[q] \cup {a} /\ a \notin dirty[q]
        BY <1>4, <4>1
      <4>3. dirty[q] \cap stale'[q] = {}
        BY <3>1, <4>1, <4>2 DEF FreshInv
      <4>4. \A b \in Account \ stale'[q] : b \notin stale[q] /\ accounts'[b] = accounts[b]
        BY <2>2, <4>2
      <4>5. QED
        BY <2>3, <3>1, <3>2, <4>1, <4>2, <4>3, <4>4 DEF FreshInv
    <3>6. QED
      BY <3>3, <3>4, <3>5 DEF Local
  <2>7. QED
    BY <1>2, <2>5, <2>6 DEF Inv, Local
<1>5. QED
  BY <1>3, <1>4 DEF SaveAccount

(* So does the death of the process.                                       *)
LEMMA CrashInv ==
  ASSUME Inv, Crash
  PROVE  Inv'
<1>1. TypeOK /\ NeverOverdrawn /\ LedgerInv /\ AlertInv /\ TaskInv
  BY DEF Inv
<1>2. /\ UNCHANGED <<accounts, ledger, loaded, record, dirty, image, op, attempt,
                     answer, alerts, task>>
      /\ \A q \in Request :
           pc'[q] = CASE pc[q] \in {"new", "done", "lost", "orphan"} -> pc[q]
                      [] InTxn(q) -> "orphan"
                      [] OTHER -> "lost"
  BY DEF Crash, ControllerCrash, TasksDie, Die, docs
<1>3. ASSUME NEW q \in Request
      PROVE  /\ pc[q] \in {"new", "done", "lost", "orphan"} => pc'[q] = pc[q]
             /\ InTxn(q) => pc'[q] = "orphan"
             /\ pc[q] \in AfterCommit \cup {"start"} => pc'[q] = "lost"
  BY <1>2 DEF InTxn, InBody, AfterCommit
<1>4. ASSUME NEW q \in Request
      PROVE  pc[q] \in {"new", "done", "lost", "orphan"} \cup InBody \cup AfterCommit \cup {"start"}
  BY <1>1 DEF TypeOK, ControllerTypeOK, PC, Finished
<1>5. TypeOK'
  <2>1. pc' \in [Request -> PC]
    <3>1. \A q \in Request : pc'[q] \in PC
      BY <1>3, <1>4 DEF PC, Finished, InTxn
    <3>2. pc' = [q \in Request |-> pc'[q]]
      BY DEF Crash, ControllerCrash, Die
    <3>3. QED
      BY <3>1, <3>2
  <2>2. crashes' \in 0 .. MaxCrashes
    BY <1>1, MaxCrashesAssumption DEF TypeOK, ControllerTypeOK, Crash, ControllerCrash
  <2>3. stale' \in [Request -> SUBSET Doc]
    BY DEF Crash, ControllerCrash
  <2>4. AccountTypeOK'
    BY <1>1 DEF TypeOK, AccountTypeOK, Crash, TasksDie, BlankDoc, AccountDoc, AccountStatus
  <2>5. QED
    BY <1>1, <1>2, <2>1, <2>2, <2>3, <2>4 DEF TypeOK, ControllerTypeOK
<1>6. ASSUME NEW q \in Request PROVE Local(q)' /\ LockInv(q)'
  <2>1. PhaseInv(q) /\ LockInv(q)
    BY DEF Inv
  <2>2. pc'[q] \in {"new", "done", "lost", "orphan"} /\ (pc'[q] = "new" <=> pc[q] = "new")
    BY <1>3, <1>4 DEF InTxn, InBody, AfterCommit
  <2>3. pc'[q] # "orphan" => dirty[q] = {}
    BY <1>3, <1>4, <2>1 DEF PhaseInv, InTxn, InBody, AfterCommit
  <2>4. Recorded(q)' = Recorded(q)
    BY <1>2 DEF Recorded
  <2>5. PhaseInv(q)'
    BY <1>2, <2>1, <2>2, <2>3, <2>4 DEF PhaseInv, InBody, AfterCommit
  <2>6. ~InTxn(q)'
    BY <2>2 DEF InTxn, InBody
  <2>7. LockInv(q)'
    BY <1>2, <2>1 DEF LockInv
  <2>8. QED
    BY <2>5, <2>6, <2>7 DEF Local, BodyInv, ImageInv, FreshInv
<1>7. NeverOverdrawn' /\ LedgerInv'
  BY <1>1, <1>2 DEF NeverOverdrawn, LedgerInv
<1>8. AlertInv'
  <2>1. ASSUME NEW alert \in alerts PROVE pc'[alert[1]] # "new" /\ Recorded(alert[1])'
    <3>1. alert[1] \in Request /\ pc[alert[1]] # "new" /\ Recorded(alert[1])
      BY <1>1 DEF AlertInv, TypeOK, ControllerTypeOK
    <3>2. QED
      BY <1>2, <1>3, <1>4, <3>1 DEF Recorded, InTxn, InBody
  <2>2. QED
    BY <1>2, <2>1 DEF AlertInv
<1>9. TaskInv'
  BY <1>1, <1>2 DEF TaskInv, Crash, TasksDie
<1>10. QED
  BY <1>5, <1>6, <1>7, <1>8, <1>9 DEF Inv, Local

-----------------------------------------------------------------------------
(* Every step keeps the invariant. *)
LEMMA NextInv == Inv /\ [Next]_vars => Inv'
<1> SUFFICES ASSUME Inv, [Next]_vars PROVE Inv'
  OBVIOUS
<1>1. CASE UNCHANGED vars
  BY <1>1, ControllerKept DEF vars, taskVars, Inv, TypeOK, AccountTypeOK, TaskInv
<1>2. ASSUME NEW r \in Request, Receive(r) \/ Handle(r) \/ Fail(r), UNCHANGED taskVars
      PROVE  Inv'
  <2>1. CASE Receive(r)
    BY <1>2, <2>1, ReceiveInv
  <2>2. CASE BeginDeposit(r) \/ BeginWithdraw(r) \/ BeginTransfer(r) \/ BeginApprove(r)
    BY <1>2, <2>2, BeginInv
  <2>3. CASE SaveDebit(r) \/ SaveCredit(r) \/ SaveDecision(r)
    BY <1>2, <2>3, SaveInv
  <2>4. CASE ConflictAbort(r) \/ DatabaseError(r) \/ Reap(r)
    BY <1>2, <2>4, AbortInv
  <2>5. CASE Commit(r) \/ CommitUnacknowledged(r)
    BY <1>2, <2>5, CommitInv
  <2>6. CASE \/ Refuse(r) \/ Throw(r) \/ LookUpReceiver(r) \/ LookUpFails(r)
             \/ AlertSender(r) \/ AlertOwner(r)
    BY <1>2, <2>6, QuietInv
  <2>7. QED
    BY <1>2, <2>1, <2>2, <2>3, <2>4, <2>5, <2>6 DEF Handle, Fail
<1>3. ASSUME NEW m \in Task, LoadAccount(m) \/ RefuseTask(m) \/ SaveAccount(m)
      PROVE  Inv'
  BY <1>3, LoadInv, SaveAccountInv
<1>4. CASE Crash
  BY <1>4, CrashInv
<1>5. QED
  BY <1>1, <1>2, <1>3, <1>4 DEF Next, ControllerNext, AccountNext

(* Inv holds in every reachable state of the bank.                         *)
THEOREM InvHolds == Spec => []Inv
<1>1. Init => Inv
  BY InitInv
<1>2. Inv /\ [Next]_vars => Inv'
  BY NextInv
<1>3. QED
  BY <1>1, <1>2, PTL DEF Spec

(* The types of the variables of both controllers.                         *)
THEOREM TypeCorrect == Spec => []TypeOK
<1>1. Inv => TypeOK
  BY DEF Inv
<1>2. QED
  BY <1>1, InvHolds, PTL

(* No account is overdrawn, however many debits race for its balance.      *)
THEOREM Covered == Spec => []NeverOverdrawn
<1>1. Inv => NeverOverdrawn
  BY DEF Inv
<1>2. QED
  BY <1>1, InvHolds, PTL

(* runInTransaction never runs a body again whose record is in the ledger. *)
THEOREM RetriesAreClean == Spec => []NoRetryAfterCommit
<1>1. Inv => NoRetryAfterCommit
  BY DEF Inv, PhaseInv, NoRetryAfterCommit
<1>2. QED
  BY <1>1, InvHolds, PTL

(* An answer "success" and an alert are about a record in the ledger.      *)
THEOREM AnswersHold == Spec => []AnswersAreTrue
<1>1. Inv => AnswersAreTrue
  BY DEF Inv, PhaseInv, AlertInv, AnswersAreTrue
<1>2. QED
  BY <1>1, InvHolds, PTL
-----------------------------------------------------------------------------
(***************************************************************************)
(* The bank implements the ledger: a commit is one of the ledger's money   *)
(* operations, an account save sets a status, and every other step leaves  *)
(* the ledger alone.                                                       *)
(***************************************************************************)

(* What the ledger sees of the bank.                                       *)
LedgerVars == Ledger!ledgerVars

(* The initial states of the bank are initial states of the ledger.        *)
LEMMA InitSimulation == Init => Ledger!Init
<1> SUFFICES ASSUME Init PROVE Ledger!Init
  OBVIOUS
<1>1. [a \in Account |-> accounts[a].balance] = Opening
  BY OpeningAssumption DEF Init, ControllerInit
<1>2. [a \in Account |-> accounts[a].status] = [a \in Account |-> OpeningStatus(a)]
  BY DEF Init, ControllerInit
<1>3. QED
  BY <1>1, <1>2 DEF Init, ControllerInit, Ledger!Init, Ledger!TxnId, TxnId,
                      Ledger!OpeningStatus, OpeningStatus

(* A commit posts, files, approves or rejects the record it writes.        *)
LEMMA CommitSimulation ==
  ASSUME Inv, NEW r \in Request, pc[r] = "commit", Install(r)
  PROVE  Ledger!Next
<1>0. PICK x \in Txn, t \in TxnId : x = record[r] /\ t = Written(r)
  BY CommitFacts
<1> DEFINE bal == [a \in Account |-> accounts[a].balance]
           stat == [a \in Account |-> accounts[a].status]
<1>1. /\ TypeOK /\ ledger \in [TxnId -> Txn \cup {NoTxn}]
      /\ accounts \in [Account -> AccountDoc]
  BY DEF Inv, TypeOK, ControllerTypeOK
<1>a. ~Approves(r) => ledger[r] = NoTxn /\ record[r].status # "FAILED"
  BY CommitFacts
<1>b. Approves(r) =>
        /\ ledger[op[r].target] # NoTxn
        /\ ledger[op[r].target].status = "PENDING"
        /\ record[r] = [ledger[op[r].target] EXCEPT !.status = op[r].verdict]
        /\ record[r].status = op[r].verdict /\ op[r] \in Operations
  BY CommitFacts
<1>c. /\ Shape(record[r]) /\ dirty[r] \cap TxnId = {Written(r)}
      /\ dirty[r] \cap Account = IF record[r].status = "SUCCESS"
                                THEN {record[r].from, record[r].to} \ {NoAccount} ELSE {}
  BY CommitFacts
<1>d. \A a \in Account \cap dirty[r] :
        /\ record[r].status = "SUCCESS" /\ a \in {record[r].from, record[r].to}
        /\ accounts[a].status = "ACTIVE"
        /\ image[r][a] = IF a = record[r].to
                         THEN accounts[a].balance + record[r].amount
                         ELSE accounts[a].balance - record[r].amount
        /\ image[r][a] >= 0
        /\ a = record[r].from => accounts[a].balance >= record[r].amount
  BY CommitFacts, Zenon
<1>2. /\ Shape(x) /\ dirty[r] \cap TxnId = {t}
      /\ dirty[r] \cap Account = IF x.status = "SUCCESS"
                                THEN {x.from, x.to} \ {NoAccount} ELSE {}
      /\ \A a \in Account \cap dirty[r] :
           /\ accounts[a].status = "ACTIVE"
           /\ image[r][a] = IF a = x.to THEN accounts[a].balance + x.amount
                            ELSE accounts[a].balance - x.amount
           /\ a = x.from => accounts[a].balance >= x.amount
  BY <1>0, <1>c, <1>d
<1>3. /\ x.type \in {"DEPOSIT", "WITHDRAW", "TRANSFER"}
      /\ x.from \in Account \cup {NoAccount} /\ x.to \in Account \cup {NoAccount}
      /\ x.status \in {"PENDING", "SUCCESS", "FAILED"}
  BY Records
<1>4. ledger' = [ledger EXCEPT ![t] = x] /\ ledger'[t] = x
  BY <1>0, <1>1, <1>2 DEF Install
<1>5. \A a \in Account : accounts'[a].status = accounts[a].status
  BY <1>1 DEF Install, AccountDoc
<1>6. stat' = stat
  BY <1>5
<1>7. ASSUME x.status = "SUCCESS"
      PROVE  /\ bal' = Ledger!Posted(bal, x)
             /\ Ledger!Postable(x)
  <2>1. \A a \in Account : a \in dirty[r] <=> a \in {x.from, x.to}
    BY <1>2, <1>7, NoAccountAssumption
  <2>2. ASSUME NEW a \in Account
        PROVE  accounts'[a].balance = IF a = x.to THEN accounts[a].balance + x.amount
                                      ELSE IF a = x.from THEN accounts[a].balance - x.amount
                                      ELSE accounts[a].balance
    <3>1. CASE a \in dirty[r]
      <4>1. accounts'[a].balance = image[r][a]
        BY <1>1, <3>1 DEF Install, AccountDoc
      <4>2. QED
        BY <1>2, <2>1, <3>1, <4>1
    <3>2. CASE a \notin dirty[r]
      BY <2>1, <3>2 DEF Install
    <3>3. QED
      BY <3>1, <3>2
  <2>3. bal' = Ledger!Posted(bal, x)
    BY <2>2 DEF Ledger!Posted
  <2>4. Ledger!Postable(x)
    BY <1>2, <1>3, <2>1 DEF Ledger!Postable, Ledger!Parties
  <2>5. QED
    BY <2>3, <2>4
<1>8. x.status # "SUCCESS" => bal' = bal
  BY <1>2 DEF Install
<1>9. CASE ~Approves(r)
  <2>1. ledger[t] = NoTxn /\ x.status # "FAILED"
    BY <1>0, <1>9, <1>a DEF Written
  <2>2. Ledger!Enter(t)
    BY <1>2, <1>4, <2>1 DEF Ledger!Enter, Ledger!Txn, Txn, Ledger!TxnType, Ledger!TxnStatus,
       TxnType, TxnStatus
  <2>3. CASE x.status = "SUCCESS"
    <3>1. Ledger!Post(t)
      BY <1>4, <1>6, <1>7, <2>2, <2>3 DEF Ledger!Post
    <3>2. QED
      BY <3>1 DEF Ledger!Next, Ledger!TxnId, TxnId
  <2>4. CASE x.status = "PENDING"
    <3>1. Ledger!FileDeposit(t)
      BY <1>2, <1>4, <1>6, <1>8, <2>2, <2>4 DEF Ledger!FileDeposit, Shape
    <3>2. QED
      BY <3>1 DEF Ledger!Next, Ledger!TxnId, TxnId
  <2>5. QED
    BY <1>3, <2>1, <2>3, <2>4
<1>10. CASE Approves(r)
  <2>0. PICK old \in Txn : old = ledger[t]
    BY <1>0, <1>1, <1>10, <1>b DEF Written
  <2>1. /\ old # NoTxn /\ old.status = "PENDING"
        /\ x = [old EXCEPT !.status = op[r].verdict] /\ x.status = op[r].verdict
        /\ op[r].verdict \in {"SUCCESS", "FAILED"}
    BY <1>0, <1>10, <1>b, <2>0, Bodies DEF Written, Approves
  <2>2. x.from = old.from /\ x.to = old.to /\ x.amount = old.amount
    BY <2>1 DEF Txn
  <2>3. ledger' = [ledger EXCEPT ![t].status = x.status]
    BY <1>1, <1>4, <2>0, <2>1
  <2>4. CASE x.status = "SUCCESS"
    <3>1. Ledger!Postable(old)
      BY <1>7, <2>2, <2>4 DEF Ledger!Postable, Ledger!Parties
    <3>2. bal' = Ledger!Posted(bal, old)
      BY <1>7, <2>2, <2>4 DEF Ledger!Posted
    <3>3. Ledger!Approve(t)
      BY <1>6, <2>0, <2>1, <2>3, <2>4, <3>1, <3>2 DEF Ledger!Approve
    <3>4. QED
      BY <3>3 DEF Ledger!Next, Ledger!TxnId, TxnId
  <2>5. CASE x.status = "FAILED"
    <3>1. Ledger!Reject(t)
      BY <1>6, <1>8, <2>0, <2>1, <2>3, <2>5 DEF Ledger!Reject
    <3>2. QED
      BY <3>1 DEF Ledger!Next, Ledger!TxnId, TxnId
  <2>6. QED
    BY <2>1, <2>4, <2>5
<1>11. QED
  BY <1>9, <1>10

(* An account save sets a status or changes nothing the ledger sees.       *)
LEMMA SaveAccountSimulation ==
  ASSUME Inv, NEW m \in Task, SaveAccount(m)
  PROVE  Ledger!Next \/ UNCHANGED docs
<1>1. /\ task[m] \in TaskOperations /\ taskDoc[m] \in AccountDoc
      /\ accounts \in [Account -> AccountDoc]
  BY DEF Inv, SaveAccount, TaskInv, TypeOK, AccountTypeOK, ControllerTypeOK
<1>0. PICK a \in Account : a = task[m].account
  BY <1>1, TaskBodies
<1> DEFINE saved == Saved(task[m], taskDoc[m], accounts[a])
<1>5. saved \in AccountDoc /\ saved.balance = accounts[a].balance
  BY <1>1, SavedDoc
<1>6. PICK new \in AccountDoc : new = saved
  BY <1>5
<1>2. ledger' = ledger
  BY DEF SaveAccount
<1>3. CASE accounts' = accounts
  BY <1>2, <1>3 DEF docs
<1>4. CASE accounts' = [accounts EXCEPT ![a] = new]
  <2>1. new.balance = accounts[a].balance
    BY <1>5, <1>6
  <2>2. new.status \in AccountStatus
    BY DEF AccountDoc
  <2>3. \A b \in Account : accounts'[b].balance = accounts[b].balance
    BY <1>1, <1>4, <2>1
  <2>4. \A b \in Account : accounts'[b].status = IF b = a THEN new.status ELSE accounts[b].status
    BY <1>1, <1>4
  <2>5. Ledger!SetStatus(a, new.status)
    <3>1. [b \in Account |-> accounts[b].balance]' = [b \in Account |-> accounts[b].balance]
      BY <2>3
    <3>2. [b \in Account |-> accounts[b].status]' =
            [[b \in Account |-> accounts[b].status] EXCEPT ![a] = new.status]
      BY <2>4
    <3>3. QED
      BY <1>2, <3>1, <3>2 DEF Ledger!SetStatus
  <2>6. QED
    BY <2>2, <2>5 DEF Ledger!Next, Ledger!AccountStatus, AccountStatus
<1>7. QED
  BY <1>0, <1>3, <1>4, <1>6 DEF SaveAccount

(* Every step of the bank is a step of the ledger or leaves both           *)
(* collections alone.                                                      *)
LEMMA StepOfLedger ==
  ASSUME Inv, [Next]_vars
  PROVE  Ledger!Next \/ UNCHANGED docs
<1>1. CASE UNCHANGED vars
  BY <1>1 DEF vars, controllerVars, docs
<1>2. ASSUME NEW r \in Request, Receive(r) \/ Handle(r) \/ Fail(r)
      PROVE  Ledger!Next \/ UNCHANGED docs
  <2>1. CASE Commit(r) \/ CommitUnacknowledged(r)
    BY <2>1, CommitSimulation DEF Commit, CommitUnacknowledged
  <2>2. CASE BeginDeposit(r) \/ BeginWithdraw(r) \/ BeginTransfer(r) \/ BeginApprove(r)
    BY <2>2 DEF BeginDeposit, BeginWithdraw, BeginTransfer, BeginApprove, BeginTxn
  <2>3. CASE SaveDebit(r) \/ SaveCredit(r) \/ SaveDecision(r)
    BY <2>3 DEF SaveDebit, SaveCredit, SaveDecision, SaveBalance
  <2>4. CASE ConflictAbort(r) \/ DatabaseError(r) \/ Reap(r)
    BY <2>4 DEF ConflictAbort, DatabaseError, Reap, AbortTransient, AbortFatal
  <2>5. CASE \/ Receive(r) \/ Refuse(r) \/ Throw(r) \/ LookUpReceiver(r)
             \/ LookUpFails(r) \/ AlertSender(r) \/ AlertOwner(r)
    BY <2>5 DEF Receive, Refuse, Throw, LookUpReceiver, LookUpFails, AlertSender,
       AlertOwner
  <2>6. QED
    BY <1>2, <2>1, <2>2, <2>3, <2>4, <2>5 DEF Handle, Fail
<1>3. ASSUME NEW m \in Task, LoadAccount(m) \/ RefuseTask(m) \/ SaveAccount(m)
      PROVE  Ledger!Next \/ UNCHANGED docs
  BY <1>3, SaveAccountSimulation DEF LoadAccount, RefuseTask, controllerVars
<1>4. CASE Crash
  BY <1>4 DEF Crash, ControllerCrash
<1>5. QED
  BY <1>1, <1>2, <1>3, <1>4 DEF Next, ControllerNext, AccountNext

(* The same, as a step with stuttering.                                    *)
LEMMA StepSimulation == Inv /\ [Next]_vars => [Ledger!Next]_LedgerVars
BY StepOfLedger DEF LedgerVars, Ledger!ledgerVars, docs

(* The handlers implement the ledger's one-step operations.                *)
THEOREM LedgerImplemented == Spec => ImplementsLedger
<1>1. Init => Ledger!Init
  BY InitSimulation
<1>2. Inv /\ [Next]_vars => [Ledger!Next]_(Ledger!ledgerVars)
  BY StepSimulation DEF LedgerVars
<1>3. QED
  BY <1>1, <1>2, InvHolds, PTL DEF Spec, ImplementsLedger, Ledger!Spec

-----------------------------------------------------------------------------
(* What every step of the ledger obeys, every step of the bank obeys.      *)
LEMMA LedgerMovesMoney ==
  ASSUME Ledger!Next, NEW a \in Account, accounts'[a].balance # accounts[a].balance
  PROVE  accounts[a].status = "ACTIVE" /\ accounts'[a].status = "ACTIVE"
<1> DEFINE bal == [b \in Account |-> accounts[b].balance]
           stat == [b \in Account |-> accounts[b].status]
<1>1. bal # bal'
  <2>1. bal[a] = accounts[a].balance /\ bal'[a] = accounts'[a].balance
    OBVIOUS
  <2>2. QED
    BY <2>1
<1>2. ASSUME NEW txn, Ledger!Postable(txn), bal' = Ledger!Posted(bal, txn), stat' = stat
      PROVE  accounts[a].status = "ACTIVE" /\ accounts'[a].status = "ACTIVE"
  <2>1. bal'[a] = accounts'[a].balance
    OBVIOUS
  <2>2. a \in {txn.to, txn.from}
    BY <1>2, <2>1 DEF Ledger!Posted
  <2>3. stat[a] = "ACTIVE"
    BY <1>2, <2>2, NoAccountAssumption DEF Ledger!Postable, Ledger!Parties
  <2>4. stat[a] = accounts[a].status /\ stat'[a] = accounts'[a].status
    OBVIOUS
  <2>5. QED
    BY <1>2, <2>3, <2>4
<1>3. ASSUME NEW t \in Ledger!TxnId, Ledger!Post(t)
      PROVE  accounts[a].status = "ACTIVE" /\ accounts'[a].status = "ACTIVE"
  <2>1. PICK txn : txn = ledger'[t]
    OBVIOUS
  <2>2. Ledger!Postable(txn) /\ bal' = Ledger!Posted(bal, txn) /\ stat' = stat
    BY <1>3, <2>1 DEF Ledger!Post, Ledger!Postable, Ledger!Parties, Ledger!Posted
  <2>3. QED
    BY <1>2, <2>2
<1>4. ASSUME NEW t \in Ledger!TxnId, Ledger!Approve(t)
      PROVE  accounts[a].status = "ACTIVE" /\ accounts'[a].status = "ACTIVE"
  <2>1. PICK txn : txn = ledger[t]
    OBVIOUS
  <2>2. Ledger!Postable(txn) /\ bal' = Ledger!Posted(bal, txn) /\ stat' = stat
    BY <1>4, <2>1 DEF Ledger!Approve, Ledger!Postable, Ledger!Parties, Ledger!Posted
  <2>3. QED
    BY <1>2, <2>2
<1>5. ASSUME NEW t \in Ledger!TxnId PROVE ~Ledger!FileDeposit(t) /\ ~Ledger!Reject(t)
  BY <1>1 DEF Ledger!FileDeposit, Ledger!Reject
<1>6. ASSUME NEW b \in Account, NEW st \in Ledger!AccountStatus PROVE ~Ledger!SetStatus(b, st)
  BY <1>1 DEF Ledger!SetStatus
<1>7. QED
  BY <1>3, <1>4, <1>5, <1>6 DEF Ledger!Next

(* A record in the ledger stays or is decided while it is pending.         *)
LEMMA LedgerDecides ==
  ASSUME TypeOK, Ledger!Next, NEW t \in TxnId, ledger[t] # NoTxn
  PROVE  ledger'[t] = ledger[t] \/ Decides(ledger[t], ledger'[t])
<1>1. ledger \in [TxnId -> Txn \cup {NoTxn}]
  BY DEF TypeOK, ControllerTypeOK
<1>2. ASSUME NEW u \in TxnId, Ledger!FileDeposit(u) \/ Ledger!Post(u)
      PROVE  ledger'[t] = ledger[t]
  <2>1. ledger[u] = NoTxn /\ ledger' = [ledger EXCEPT ![u] = ledger'[u]]
    BY <1>2 DEF Ledger!FileDeposit, Ledger!Post, Ledger!Enter
  <2>2. QED
    BY <1>1, <2>1
<1>3. ASSUME NEW u \in TxnId, Ledger!Approve(u) \/ Ledger!Reject(u)
      PROVE  ledger'[t] = ledger[t] \/ Decides(ledger[t], ledger'[t])
  <2>1. PICK v \in {"SUCCESS", "FAILED"} :
          /\ ledger[u].status = "PENDING"
          /\ ledger' = [ledger EXCEPT ![u].status = v]
    BY <1>3 DEF Ledger!Approve, Ledger!Reject
  <2>2. CASE u = t
    BY <1>1, <2>1, <2>2 DEF Decides
  <2>3. CASE u # t
    BY <1>1, <2>1, <2>3
  <2>4. QED
    BY <2>2, <2>3
<1>4. ASSUME NEW a \in Account, NEW st \in Ledger!AccountStatus, Ledger!SetStatus(a, st)
      PROVE  ledger'[t] = ledger[t]
  BY <1>4 DEF Ledger!SetStatus
<1>5. QED
  BY <1>2, <1>3, <1>4 DEF Ledger!Next, Ledger!TxnId, TxnId

(* Money moves only on accounts that are active when it moves.             *)
THEOREM MoneyOnActive == Spec => MoneyMovesOnlyOnActive
<1> DEFINE Moves == \A a \in Account :
             accounts'[a].balance # accounts[a].balance =>
               accounts[a].status = "ACTIVE" /\ accounts'[a].status = "ACTIVE"
<1>1. Inv /\ [Next]_vars => [Moves]_vars
  BY StepOfLedger, LedgerMovesMoney DEF docs
<1>2. QED
  BY <1>1, InvHolds, PTL DEF Spec, MoneyMovesOnlyOnActive

(* A deposit is decided once, and no record leaves the ledger.             *)
THEOREM DecidedOnce == Spec => DecisionsAreFinal
<1> DEFINE Final == \A t \in TxnId : ledger[t] # NoTxn =>
             ledger'[t] = ledger[t] \/ Decides(ledger[t], ledger'[t])
<1>1. Inv /\ [Next]_vars => [Final]_vars
  BY StepOfLedger, LedgerDecides DEF docs, Inv
<1>2. QED
  BY <1>1, InvHolds, PTL DEF Spec, DecisionsAreFinal
-----------------------------------------------------------------------------
(***************************************************************************)
(* What enters the ledger was asked for. A body's record agrees with the   *)
(* request from its first step to its commit; the request itself stays.    *)
(***************************************************************************)
Drafted(q) == InTxn(q) /\ ~Approves(q) => Asked(q, record[q])

AskedInv == RecordsWereAsked /\ \A q \in Request : Drafted(q)

(* A verdict changes nothing that was asked for.                           *)
LEMMA AskedDecided ==
  ASSUME NEW q \in Request, NEW x \in Txn, NEW y, Asked(q, x), Decides(x, y)
  PROVE  Asked(q, y)
<1>1. y.type = x.type /\ y.from = x.from /\ y.to = x.to /\ y.amount = x.amount
  BY DEF Decides, Txn
<1>2. QED
  BY <1>1 DEF Asked

(* What a step has to do with a request, for its records to stay as asked. *)
Faithful(q) ==
  /\ op'[q] = op[q] \/ pc[q] = "new"
  /\ (InTxn(q) /\ ~Approves(q))' =>
       \/ InTxn(q) /\ op'[q] = op[q] /\ record'[q] = record[q]
       \/ Asked(q, record[q])'
  /\ \/ ledger'[q] = ledger[q]
     \/ ledger[q] # NoTxn /\ Decides(ledger[q], ledger'[q])
     \/ Asked(q, ledger[q])'

LEMMA FaithfulKeeps ==
  ASSUME Inv, AskedInv, NEW q \in Request, Faithful(q)
  PROVE  (ledger[q] # NoTxn => Asked(q, ledger[q]))' /\ Drafted(q)'
<1>1. /\ ledger[q] # NoTxn => op'[q] = op[q] /\ ledger[q] \in Txn
      /\ ledger[q] # NoTxn => Asked(q, ledger[q])
      /\ Drafted(q)
  BY DEF Inv, PhaseInv, TypeOK, ControllerTypeOK, TxnId, AskedInv, RecordsWereAsked, Faithful
<1>2. ASSUME NEW x, op'[q] = op[q], Asked(q, x)
      PROVE  Asked(q, x)'
  BY <1>2 DEF Asked
<1>3. ASSUME ledger'[q] # NoTxn PROVE Asked(q, ledger[q])'
  <2>1. CASE ledger'[q] = ledger[q]
    <3>1. PICK x : x = ledger[q]
      OBVIOUS
    <3>2. Asked(q, x)' /\ x = ledger'[q]
      BY <1>1, <1>2, <1>3, <2>1, <3>1
    <3>3. QED
      BY <3>2 DEF Asked
  <2>2. CASE ledger[q] # NoTxn /\ Decides(ledger[q], ledger'[q])
    <3>1. PICK x, y : x \in Txn /\ x = ledger[q] /\ y = ledger'[q]
      BY <1>1, <2>2
    <3>2. Decides(x, y) /\ Asked(q, x)
      BY <1>1, <2>2, <3>1
    <3>3. Asked(q, y)
      BY <3>1, <3>2, AskedDecided
    <3>4. Asked(q, y)'
      BY <1>1, <1>2, <2>2, <3>3
    <3>5. QED
      BY <3>1, <3>4 DEF Asked
  <2>3. QED
    BY <2>1, <2>2 DEF Faithful
<1>4. Drafted(q)'
  <2>1. SUFFICES ASSUME (InTxn(q) /\ ~Approves(q))' PROVE Asked(q, record[q])'
    BY DEF Drafted
  <2>2. CASE InTxn(q) /\ op'[q] = op[q] /\ record'[q] = record[q]
    <3>1. PICK x : x = record[q]
      OBVIOUS
    <3>2. ~Approves(q)
      BY <2>1, <2>2 DEF Approves
    <3>3. Asked(q, x)
      BY <1>1, <2>2, <3>1, <3>2 DEF Drafted
    <3>4. Asked(q, x)' /\ x = record'[q]
      BY <1>2, <2>2, <3>1, <3>3
    <3>5. QED
      BY <3>4 DEF Asked
  <2>3. QED
    BY <2>1, <2>2 DEF Faithful
<1>5. QED
  BY <1>3, <1>4

(* The bodies draft what was asked.                                        *)
LEMMA DraftsAsked ==
  ASSUME Inv, NEW r \in Request,
         \/ BeginDeposit(r) \/ BeginWithdraw(r) \/ BeginTransfer(r) \/ BeginApprove(r)
  PROVE  Approves(r)' \/ Asked(r, record[r])'
<1>1. /\ record \in [Request -> Txn \cup {NoTxn}] /\ op' = op
  BY DEF Inv, TypeOK, ControllerTypeOK, BeginDeposit, BeginWithdraw, BeginTransfer,
         BeginApprove, BeginTxn
<1>2. ASSUME NEW x, Asked(r, x), record'[r] = x
      PROVE  Asked(r, record[r])'
  BY <1>1, <1>2 DEF Asked
<1>3. CASE BeginDeposit(r)
  <2> DEFINE x == [type |-> "DEPOSIT", from |-> NoAccount, to |-> op[r].to,
                   amount |-> op[r].amount,
                   status |-> IF IsStaff(op[r].user) THEN "SUCCESS" ELSE "PENDING"]
  <2>1. op[r].kind = "deposit" /\ record'[r] = x
    BY <1>1, <1>3 DEF BeginDeposit, AtStart, BeginTxn
  <2>2. Asked(r, x)
    BY <2>1 DEF Asked
  <2>3. QED
    BY <1>2, <2>1, <2>2
<1>4. CASE BeginWithdraw(r)
  <2> DEFINE x == [type |-> "WITHDRAW", from |-> op[r].from, to |-> NoAccount,
                   amount |-> op[r].amount, status |-> "SUCCESS"]
  <2>1. /\ op[r].kind = "withdraw" /\ record'[r] = x
        /\ Role[op[r].user] = "MANAGER" \/ Owner[op[r].from] = op[r].user
    BY <1>1, <1>4 DEF BeginWithdraw, AtStart, BeginTxn, MayWithdraw
  <2>2. Asked(r, x)
    BY <2>1 DEF Asked
  <2>3. QED
    BY <1>2, <2>1, <2>2
<1>5. CASE BeginTransfer(r)
  <2>1. PICK from \in Candidates(op[r].user, op[r].from),
             to \in Candidates(op[r].payee, op[r].to) :
          BeginTxn(r, [type |-> "TRANSFER", from |-> from, to |-> to,
                       amount |-> op[r].amount, status |-> "SUCCESS"], "debit", {r})
    BY <1>5 DEF BeginTransfer
  <2> DEFINE x == [type |-> "TRANSFER", from |-> from, to |-> to,
                   amount |-> op[r].amount, status |-> "SUCCESS"]
  <2>2. op[r].kind = "transfer" /\ record'[r] = x
    BY <1>1, <1>5, <2>1 DEF BeginTransfer, AtStart, BeginTxn
  <2>3. /\ Owner[from] = op[r].user /\ op[r].from \in {from, NoAccount}
        /\ Owner[to] = op[r].payee /\ op[r].to \in {to, NoAccount}
    BY DEF Candidates
  <2>4. Asked(r, x)
    BY <2>2, <2>3 DEF Asked
  <2>5. QED
    BY <1>2, <2>2, <2>4
<1>6. CASE BeginApprove(r)
  BY <1>1, <1>6 DEF BeginApprove, AtStart, Approves
<1>7. QED
  BY <1>3, <1>4, <1>5, <1>6

(* A commit enters the draft of its request, or decides an old record.     *)
LEMMA CommitFaithful ==
  ASSUME Inv, AskedInv, NEW r \in Request, Commit(r) \/ CommitUnacknowledged(r),
         NEW q \in Request
  PROVE  Faithful(q)
<1>1. /\ pc[r] = "commit" /\ Install(r) /\ op' = op
      /\ pc' \in {[pc EXCEPT ![r] = "lookup"], [pc EXCEPT ![r] = "alertOwner"],
                  [pc EXCEPT ![r] = "done"]}
      /\ record' = [record EXCEPT ![r] = NoTxn]
  BY DEF Commit, CommitUnacknowledged, EndTxn
<1>2. InTxn(r) /\ q \in TxnId /\ ledger \in [TxnId -> Txn \cup {NoTxn}] /\ pc \in [Request -> PC]
  BY <1>1 DEF InTxn, InBody, TxnId, Inv, TypeOK, ControllerTypeOK
<1>3. InTxn(q)' => InTxn(q) /\ record'[q] = record[q]
  <2>1. CASE q = r
    BY <1>1, <1>2, <2>1 DEF InTxn, InBody
  <2>2. CASE q # r
    BY <1>1, <1>2, <2>2 DEF InTxn
  <2>3. QED
    BY <2>1, <2>2
<1>4. CASE q \notin dirty[r]
  <2>1. ledger'[q] = ledger[q]
    BY <1>1, <1>2, <1>4, CommitSeen
  <2>2. QED
    BY <1>1, <1>3, <2>1 DEF Faithful
<1>5. CASE q \in dirty[r]
  <2>1. q = Written(r) /\ ledger'[q] = record[r]
    BY <1>1, <1>2, <1>5, CommitSeen
  <2>2. CASE Approves(r)
    <3>1. /\ q = op[r].target /\ ledger[q] # NoTxn /\ ledger[q].status = "PENDING"
          /\ record[r] = [ledger[q] EXCEPT !.status = op[r].verdict]
          /\ op[r].verdict \in {"SUCCESS", "FAILED"}
      <4>1. op[r] \in Operations
        BY <1>1, CommitFacts
      <4>2. q = op[r].target
        BY <2>1, <2>2 DEF Written
      <4>3. op[r].verdict \in {"SUCCESS", "FAILED"}
        BY <2>2, <4>1, Bodies DEF Approves
      <4>4. QED
        BY <1>1, <2>2, <4>2, <4>3, CommitFacts
    <3>2. Decides(ledger[q], ledger'[q])
      BY <2>1, <3>1 DEF Decides
    <3>3. QED
      BY <1>1, <1>3, <3>1, <3>2 DEF Faithful
  <2>3. CASE ~Approves(r)
    <3>1. q = r
      BY <2>1, <2>3 DEF Written
    <3>2. PICK x : x = record[r]
      OBVIOUS
    <3>3. Asked(q, x)
      BY <1>2, <2>3, <3>1, <3>2 DEF AskedInv, Drafted
    <3>4. Asked(q, ledger[q])'
      BY <1>1, <2>1, <3>2, <3>3 DEF Asked
    <3>5. QED
      BY <1>1, <1>3, <3>4 DEF Faithful
  <2>4. QED
    BY <2>2, <2>3
<1>6. QED
  BY <1>4, <1>5

LEMMA StepFaithful ==
  ASSUME Inv, AskedInv, [Next]_vars, NEW q \in Request
  PROVE  Faithful(q)
<1>0. pc \in [Request -> PC] /\ op \in [Request -> Operations \cup {NoOp}]
      /\ record \in [Request -> Txn \cup {NoTxn}]
  BY DEF Inv, TypeOK, ControllerTypeOK
<1>1. CASE UNCHANGED <<op, pc, record, ledger>>
  BY <1>1 DEF Faithful, InTxn
<1>2. ASSUME NEW r \in Request, Receive(r) \/ Handle(r) \/ Fail(r)
      PROVE  Faithful(q)
  <2>1. CASE Receive(r)
    <3>1. /\ pc[r] = "new" /\ UNCHANGED <<record, ledger>>
          /\ pc' = [pc EXCEPT ![r] = "start"] /\ \A p \in Request \ {r} : op'[p] = op[p]
      BY <1>0, <2>1 DEF Receive, session, docs
    <3>2. CASE q = r
      BY <1>0, <3>1, <3>2 DEF Faithful, InTxn, InBody
    <3>3. CASE q # r
      BY <1>0, <3>1, <3>3 DEF Faithful, InTxn
    <3>4. QED
      BY <3>2, <3>3
  <2>2. CASE BeginDeposit(r) \/ BeginWithdraw(r) \/ BeginTransfer(r) \/ BeginApprove(r)
    <3>1. /\ UNCHANGED <<op, ledger>>
          /\ \A p \in Request \ {r} : pc'[p] = pc[p] /\ record'[p] = record[p]
      BY <1>0, <2>2 DEF BeginDeposit, BeginWithdraw, BeginTransfer, BeginApprove, BeginTxn, docs
    <3>2. CASE q = r
      BY <2>2, <3>1, <3>2, DraftsAsked DEF Faithful
    <3>3. CASE q # r
      BY <3>1, <3>3 DEF Faithful, InTxn
    <3>4. QED
      BY <3>2, <3>3
  <2>3. CASE SaveDebit(r) \/ SaveCredit(r) \/ SaveDecision(r)
    <3>1. /\ UNCHANGED <<op, ledger, record>> /\ InTxn(r)
          /\ \A p \in Request \ {r} : pc'[p] = pc[p]
      BY <1>0, <2>3 DEF SaveDebit, SaveCredit, SaveDecision, SaveBalance, docs, InTxn, InBody
    <3>2. QED
      BY <3>1 DEF Faithful, InTxn
  <2>4. CASE ConflictAbort(r) \/ DatabaseError(r) \/ Reap(r)
    <3>1. /\ UNCHANGED <<op, ledger>> /\ pc'[r] \notin InBody
          /\ \A p \in Request \ {r} : pc'[p] = pc[p] /\ record'[p] = record[p]
      BY <1>0, <2>4 DEF ConflictAbort, DatabaseError, Reap, AbortTransient, AbortFatal, EndTxn,
         docs, InBody
    <3>2. CASE q = r
      BY <3>1, <3>2 DEF Faithful, InTxn
    <3>3. CASE q # r
      BY <3>1, <3>3 DEF Faithful, InTxn
    <3>4. QED
      BY <3>2, <3>3
  <2>5. CASE Commit(r) \/ CommitUnacknowledged(r)
    BY <2>5, CommitFaithful
  <2>6. CASE \/ Refuse(r) \/ Throw(r) \/ LookUpReceiver(r) \/ LookUpFails(r)
             \/ AlertSender(r) \/ AlertOwner(r)
    <3>1. /\ UNCHANGED <<op, ledger, record>>
          /\ \A p \in Request : pc'[p] = pc[p] \/ pc'[p] \notin InBody
      BY <1>0, <2>6 DEF Refuse, Throw, LookUpReceiver, LookUpFails, AlertSender, AlertOwner,
         Step, docs, session, InBody
    <3>2. QED
      BY <3>1 DEF Faithful, InTxn
  <2>7. QED
    BY <1>2, <2>1, <2>2, <2>3, <2>4, <2>5, <2>6 DEF Handle, Fail
<1>3. ASSUME NEW m \in Task, LoadAccount(m) \/ RefuseTask(m) \/ SaveAccount(m)
      PROVE  Faithful(q)
  <2>1. UNCHANGED <<op, pc, record, ledger>>
    BY <1>3 DEF LoadAccount, RefuseTask, SaveAccount, controllerVars, control, docs, session
  <2>2. QED
    BY <1>1, <2>1
<1>4. CASE Crash
  <2>1. UNCHANGED <<op, record, ledger>>
    BY <1>4 DEF Crash, ControllerCrash, docs
  <2>2. pc'[q] \notin InBody
    BY <1>0, <1>4 DEF Crash, ControllerCrash, Die, InTxn, InBody
  <2>3. QED
    BY <2>1, <2>2 DEF Faithful, InTxn
<1>5. CASE UNCHANGED vars
  BY <1>1, <1>5 DEF vars, controllerVars, control, docs, session
<1>6. QED
  BY <1>2, <1>3, <1>4, <1>5 DEF Next, ControllerNext, AccountNext

LEMMA InitAsked == Init => AskedInv
<1>1. Init => \A q \in Request : ledger[q] = NoTxn /\ ~InTxn(q)
  BY FiledAssumption DEF Init, ControllerInit, TxnId, InTxn, InBody
<1>2. QED
  BY <1>1 DEF AskedInv, RecordsWereAsked, Drafted

LEMMA StepAsked == Inv /\ AskedInv /\ [Next]_vars => AskedInv'
<1> SUFFICES ASSUME Inv, AskedInv, [Next]_vars PROVE AskedInv'
  OBVIOUS
<1>1. \A q \in Request : (ledger[q] # NoTxn => Asked(q, ledger[q]))' /\ Drafted(q)'
  BY StepFaithful, FaithfulKeeps
<1>2. QED
  BY <1>1 DEF AskedInv, RecordsWereAsked

LEMMA AlwaysAsked == Spec => []AskedInv
BY InitAsked, StepAsked, InvHolds, PTL DEF Spec

(* A record in the ledger is what its client asked for, on accounts he may *)
(* use.                                                                    *)
THEOREM AskedFor == Spec => []RecordsWereAsked
<1>1. AskedInv => RecordsWereAsked
  BY DEF AskedInv
<1>2. QED
  BY <1>1, AlwaysAsked, PTL
=============================================================================
